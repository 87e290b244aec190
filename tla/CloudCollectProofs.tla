--------------------------- MODULE CloudCollectProofs ---------------------------
(***************************************************************************)
(* Theorems about the two ends of a collection, for any outputs, ceilings, *)
(* part sizes, clocks and number of receivers: a terminal object that says *)
(* complete tells the truth, every stored upload is named, and receivers   *)
(* rebuild what the host described.                                        *)
(***************************************************************************)
EXTENDS CloudCollect, TLAPS

HostPcs == {"running", "bootstrap", "unverified", "archive", "object", "collection",
            "files", "terminal", "done", "off"}

RecvPcs == {"idle", "instance", "cleanup", "terminal", "results", "manifest",
            "collected", "refused"}

HostType ==
    [pc : HostPcs, archive : ArchiveType, receipt : ReceiptType, terminal : TerminalType]

BucketType ==
    [bootstrap : BOOLEAN, objects : SUBSET [index : Nat, bytes : Nat],
     collection : ReceiptType \cup {None}, terminal : TerminalType \cup {None}]

RecvType ==
    [pc : RecvPcs, why : Reasons \cup {None}, terminal : TerminalType \cup {None},
     results : Seq(Nat) \cup {None}]

TypeInv ==
    /\ outputs \in Seq(FileType)
    /\ exit \in {0, 1}
    /\ left \in Int
    /\ host \in HostType
    /\ bucket \in BucketType
    /\ recv \in [Receivers -> RecvType]

--------------------------------------------------------------------------------
(* What the host knows of its archive and of its uploads.                   *)

Sizes == [i \in DOMAIN outputs |-> outputs[i].size]

\* An archive being written: the first files, each whole unless it says not.
Sound(archive) ==
    /\ Len(archive.files) <= MaxMembers
    /\ Len(archive.files) <= Len(outputs)
    /\ archive.complete =>
          \A i \in 1 .. Len(archive.files) : archive.files[i] = outputs[i].size

\* An archive that is written.
Written(archive) ==
    /\ archive \in ArchiveType
    /\ Len(archive.files) <= MaxMembers
    /\ archive.complete => archive.files = Sizes

\* The parts of a receipt so far are those the loop sends, and stored.
Sent(receipt) ==
    \A i \in DOMAIN receipt.parts :
        /\ i <= MaxChunks
        /\ More(receipt.archive, i)
        /\ receipt.parts[i] = PartBytes(receipt.archive, i)
        /\ Has(i, receipt.parts[i])

Names(receipt) ==
    \A o \in bucket.objects : o.index \in DOMAIN receipt.parts \/ o.index = receipt.pending

\* A receipt of an upload that went through can be rebuilt.
Rebuildable(receipt) ==
    receipt.transport => Written(receipt.archive) /\ Rebuilds(receipt)

Early == {"running", "bootstrap", "unverified", "archive", "files"}

Silent(t) == ~t.complete /\ t.status = "failed" /\ ~t.receipt

HostInv ==
    /\ host.pc \in {"bootstrap", "unverified", "archive", "object", "collection"}
         => study # "reasoner4"
    /\ host.pc = "files" => study = "reasoner4"
    /\ host.pc = "archive" => Sound(host.archive)
    /\ host.pc \in {"running", "bootstrap", "unverified"} => host.archive = Empty
    /\ host.pc \in Early => host.receipt = NoReceipt
    /\ host.pc \in Early \ {"files"} => bucket.objects = {}
    /\ host.pc \notin {"terminal", "done", "off"} => bucket.collection = None
    /\ host.pc \notin {"done", "off"} => bucket.terminal = None

ObjectInv ==
    host.pc = "object" =>
        /\ Written(host.receipt.archive)
        /\ host.receipt.pending = None
        /\ ~host.receipt.transport
        /\ study \in PartStudies =>
              Sent(host.receipt) /\ \A o \in bucket.objects : o.index \in DOMAIN host.receipt.parts

CollectionInv ==
    host.pc = "collection" =>
        /\ Rebuildable(host.receipt)
        /\ study \in PartStudies => Names(host.receipt)
        /\ study \in ObjectStudies => host.receipt.transport

\* The terminal before it is final.
VerdictInv ==
    /\ host.pc \in Early \cup {"object"} => Silent(host.terminal)
    /\ host.pc \in {"running", "bootstrap", "unverified"} => host.terminal = Terminal
    /\ host.terminal.bootstrap => bucket.bootstrap
    /\ host.pc = "collection" =>
          /\ ~host.terminal.receipt
          /\ host.terminal.status = "complete" => host.terminal.complete /\ exit = 0
          /\ host.terminal.complete =>
                study \in PartStudies /\ host.receipt.transport /\ host.receipt.archive.complete
    /\ host.pc = "files" =>
          /\ host.terminal.files <= Len(outputs)
          /\ \/ host.terminal.uploadFailed
             \/ \A i \in 1 .. host.terminal.files : Has(i, outputs[i].size)

\* A terminal that is final says what the bucket holds.
Describes(t) ==
    /\ t.status = "complete" => exit = 0
    /\ t.complete \/ t.status = "complete" => Preserved /\ (study = "reasoner4" \/ t.receipt)
    /\ t.bootstrap => bucket.bootstrap
    /\ t.receipt => bucket.collection # None /\ Rebuildable(bucket.collection)
    /\ study = "reasoner4" =>
          /\ ~t.complete
          /\ t.files = Len(outputs)
          /\ t.uploadFailed \/ \A i \in 1 .. t.files : Has(i, outputs[i].size)

TerminalInv ==
    /\ host.pc = "terminal" => Describes(host.terminal)
    /\ bucket.terminal # None => Describes(bucket.terminal)

\* A receiver works on the terminal object of the bucket.
RecvInv ==
    \A r \in Receivers :
        /\ recv[r].terminal # None => recv[r].terminal = bucket.terminal
        /\ recv[r].pc \in {"results", "manifest", "collected"} => recv[r].terminal # None
        /\ study = "reasoner4" /\ recv[r].pc \in {"instance", "cleanup", "manifest", "collected"} =>
              /\ recv[r].terminal # None
              /\ recv[r].results = [i \in 1 .. recv[r].terminal.files |-> outputs[i].size]
        /\ recv[r].why = "objects" => recv[r].terminal # None

IInv ==
    /\ TypeInv /\ HostInv /\ ObjectInv /\ CollectionInv /\ VerdictInv /\ TerminalInv
    /\ RecvInv /\ UploadsNamed /\ CollectedIsWhole /\ Collectable

--------------------------------------------------------------------------------
(* Lengths.                                                                 *)

LEMMA Multiples ==
    ASSUME NEW a \in Nat, NEW b \in Nat, a < b, NEW c \in Nat \ {0}
    PROVE  a * c \in Nat /\ a * c + c <= b * c
  <1>1. PICK d \in Nat : b = a + 1 + d
    <2>1. b - a - 1 \in Nat /\ b = a + 1 + (b - a - 1)
      OBVIOUS
    <2> QED
      BY <2>1
  <1>2. b * c = a * c + c + d * c
    BY <1>1
  <1>3. a * c \in Nat /\ d * c \in Nat
    BY <1>1
  <1> QED
    BY <1>2, <1>3

LEMMA BytesTyped ==
    ASSUME NEW archive \in ArchiveType
    PROVE  Bytes(archive) \in Nat \ {0} /\ Bytes(archive) <= MaxBytes + Inventory
  BY CloudCollectAssumption DEF ArchiveType, Bytes

LEMMA EmptyTyped == Empty \in ArchiveType /\ NoReceipt \in ReceiptType /\ Terminal \in TerminalType
  BY CloudCollectAssumption DEF Empty, ArchiveType, NoReceipt, ReceiptType, Terminal, TerminalType

\* The part the loop reads next.
LEMMA NextPart ==
    ASSUME NEW archive \in ArchiveType, NEW i \in Nat \ {0}, More(archive, i)
    PROVE  PartBytes(archive, i) \in 1 .. Chunk
  <1>1. Bytes(archive) \in Nat \ {0} /\ Chunk \in Nat \ {0}
    BY BytesTyped, CloudCollectAssumption
  <1>2. (i - 1) * Chunk \in Int
    BY <1>1
  <1> DEFINE before == (i - 1) * Chunk
  <1>3. before \in Int /\ before < Bytes(archive)
    BY <1>2 DEF More
  <1>4. PartBytes(archive, i) = Least(Chunk, Bytes(archive) - before)
    BY DEF PartBytes
  <1> HIDE DEF before
  <1> QED
    BY <1>1, <1>3, <1>4 DEF Least

\* Every part but the last is full, and the last is the rest.
LEMMA FullPart ==
    ASSUME NEW archive \in ArchiveType, NEW i \in Nat \ {0}, NEW n \in Nat, i < n,
           More(archive, n)
    PROVE  PartBytes(archive, i) = Chunk
  <1>1. Bytes(archive) \in Nat \ {0} /\ Chunk \in Nat \ {0}
    BY BytesTyped, CloudCollectAssumption
  <1>2. (i - 1) * Chunk \in Nat /\ (i - 1) * Chunk + Chunk <= (n - 1) * Chunk
    BY <1>1, Multiples
  <1>3. (n - 1) * Chunk \in Int
    BY <1>1
  <1> DEFINE before == (i - 1) * Chunk
             last   == (n - 1) * Chunk
  <1>4. before \in Nat /\ last \in Int /\ before + Chunk <= last /\ last < Bytes(archive)
    BY <1>2, <1>3 DEF More
  <1>5. PartBytes(archive, i) = Least(Chunk, Bytes(archive) - before)
    BY DEF PartBytes
  <1> HIDE DEF before, last
  <1> QED
    BY <1>1, <1>4, <1>5 DEF Least

LEMMA LastPart ==
    ASSUME NEW archive \in ArchiveType, NEW n \in Nat \ {0}, More(archive, n),
           ~More(archive, n + 1)
    PROVE  Bytes(archive) = (n - 1) * Chunk + PartBytes(archive, n)
  <1>1. Bytes(archive) \in Nat \ {0} /\ Chunk \in Nat \ {0}
    BY BytesTyped, CloudCollectAssumption
  <1>2. (n - 1) * Chunk \in Int /\ n * Chunk = (n - 1) * Chunk + Chunk /\ (n + 1) - 1 = n
    BY <1>1
  <1> DEFINE before == (n - 1) * Chunk
  <1>3. before \in Int /\ before < Bytes(archive) /\ ~(before + Chunk < Bytes(archive))
    BY <1>2 DEF More
  <1>4. PartBytes(archive, n) = Least(Chunk, Bytes(archive) - before)
    BY DEF PartBytes
  <1>5. Bytes(archive) = before + PartBytes(archive, n)
    <2> HIDE DEF before
    <2> QED
      BY <1>1, <1>3, <1>4 DEF Least
  <1> QED
    BY <1>5

--------------------------------------------------------------------------------
(* Receipts a receiver can rebuild from.                                    *)

LEMMA PartsRebuild ==
    ASSUME study \in PartStudies, NEW receipt \in ReceiptType, Written(receipt.archive),
           Sent(receipt), ~More(receipt.archive, Len(receipt.parts) + 1)
    PROVE  Rebuilds(receipt)
  <1> DEFINE archive == receipt.archive
             n       == Len(receipt.parts)
  <1>1. archive \in ArchiveType /\ Len(archive.files) <= MaxMembers
    BY DEF Written
  <1>2. receipt.parts \in Seq(Nat)
    BY DEF ReceiptType
  <1>3. n \in Nat /\ DOMAIN receipt.parts = 1 .. n
    BY <1>2
  <1>4. \A i \in 1 .. n : /\ i <= MaxChunks /\ More(archive, i)
                          /\ receipt.parts[i] = PartBytes(archive, i)
                          /\ Has(i, receipt.parts[i])
    BY <1>3 DEF Sent
  <1>5. ~More(archive, n + 1)
    OBVIOUS
  <1>6. Bytes(archive) \in Nat \ {0} /\ Bytes(archive) <= MaxBytes + Inventory
    BY <1>1, BytesTyped
  <1>7. n # 0
    <2>1. n = 0 => More(archive, n + 1)
      <3> SUFFICES ASSUME n = 0 PROVE More(archive, n + 1)
        OBVIOUS
      <3>1. (n + 1) - 1 = 0
        OBVIOUS
      <3>2. 0 * Chunk = 0
        BY CloudCollectAssumption
      <3> QED
        BY <3>1, <3>2, <1>6 DEF More
    <2> QED
      BY <2>1, <1>5
  <1>8. n \in 1 .. MaxChunks
    BY <1>3, <1>4, <1>7, CloudCollectAssumption
  <1>9. \A i \in 1 .. n : receipt.parts[i] \in 1 .. Chunk
    BY <1>1, <1>3, <1>4, NextPart
  <1>10. \A i \in 1 .. n : i < n => receipt.parts[i] = Chunk
    BY <1>1, <1>3, <1>4, <1>8, FullPart
  <1>11. Bytes(archive) = (n - 1) * Chunk + receipt.parts[n]
    BY <1>1, <1>4, <1>5, <1>8, LastPart
  <1>12. ValidParts(receipt)
    BY <1>3, <1>6, <1>8, <1>9, <1>10, <1>11 DEF ValidParts
  <1>13. Len(archive.files) + 1 <= MaxMembers + 1
    BY <1>1, CloudCollectAssumption DEF ArchiveType
  <1> QED
    BY <1>3, <1>4, <1>12, <1>13 DEF Rebuilds

--------------------------------------------------------------------------------
(* The archive.                                                             *)

LEMMA FileAdded ==
    ASSUME NEW archive \in ArchiveType, NEW file \in FileType
    PROVE  /\ WithFile(archive, file) \in ArchiveType
           /\ Len(WithFile(archive, file).files) = Len(archive.files) + 1
           /\ \A i \in 1 .. Len(archive.files) :
                 WithFile(archive, file).files[i] = archive.files[i]
           /\ WithFile(archive, file).complete =>
                 /\ archive.complete
                 /\ WithFile(archive, file).files[Len(archive.files) + 1] = file.size
  <1> DEFINE kept == IF file.regular THEN Least(file.size, archive.room) ELSE 0
             files == Append(archive.files, kept)
             complete == archive.complete /\ file.regular /\ kept = file.size
  <1>1. file.size \in Nat /\ file.regular \in BOOLEAN /\ archive.room \in 0 .. MaxBytes
        /\ archive.files \in Seq(Nat) /\ archive.complete \in BOOLEAN
    BY DEF FileType, ArchiveType
  <1>2. kept \in 0 .. archive.room
    BY <1>1, CloudCollectAssumption DEF Least
  <1>3. WithFile(archive, file) =
           [files |-> files, room |-> archive.room - kept, complete |-> complete]
    BY DEF WithFile
  <1>4. complete \in BOOLEAN /\ complete => archive.complete /\ kept = file.size
    OBVIOUS
  <1>5. complete \in BOOLEAN
    OBVIOUS
  <1> HIDE DEF kept, complete
  <1>6. archive.room - kept \in 0 .. MaxBytes /\ kept \in Nat
    BY <1>1, <1>2, CloudCollectAssumption
  <1>7. /\ files \in Seq(Nat) /\ Len(files) = Len(archive.files) + 1
        /\ files[Len(archive.files) + 1] = kept
        /\ \A i \in 1 .. Len(archive.files) : files[i] = archive.files[i]
    BY <1>1, <1>6
  <1> HIDE DEF files
  <1> QED
    BY <1>3, <1>4, <1>5, <1>6, <1>7 DEF ArchiveType

LEMMA SoundGrows ==
    ASSUME TypeInv, NEW archive \in ArchiveType, Sound(archive),
           Len(archive.files) + 1 <= Least(Len(outputs), MaxMembers)
    PROVE  Sound(WithFile(archive, outputs[Len(archive.files) + 1]))
  <1> DEFINE n    == Len(archive.files)
             next == WithFile(archive, outputs[n + 1])
  <1>1. n \in Nat /\ Len(outputs) \in Nat /\ MaxMembers \in Nat
    BY CloudCollectAssumption DEF TypeInv, ArchiveType
  <1>2. n + 1 <= Len(outputs) /\ n + 1 <= MaxMembers
    BY <1>1 DEF Least
  <1>3. outputs[n + 1] \in FileType
    BY <1>1, <1>2 DEF TypeInv
  <1>4. /\ next \in ArchiveType /\ Len(next.files) = n + 1
        /\ \A i \in 1 .. n : next.files[i] = archive.files[i]
        /\ next.complete => archive.complete /\ next.files[n + 1] = outputs[n + 1].size
    BY <1>3, FileAdded
  <1>5. \A i \in 1 .. n + 1 : i \in 1 .. n \/ i = n + 1
    BY <1>1
  <1> HIDE DEF next
  <1>6. Sound(next)
    BY <1>1, <1>2, <1>4, <1>5 DEF Sound
  <1> QED
    BY <1>6 DEF next

LEMMA SoundWritten ==
    ASSUME TypeInv, NEW archive \in ArchiveType, Sound(archive)
    PROVE  Written(Archived(archive))
  <1> DEFINE done == Archived(archive)
  <1>1. /\ archive = [files |-> archive.files, room |-> archive.room,
                      complete |-> archive.complete]
        /\ archive.files \in Seq(Nat) /\ archive.room \in 0 .. MaxBytes
        /\ archive.complete \in BOOLEAN
    BY DEF ArchiveType
  <1> DEFINE all == archive.complete /\ Len(archive.files) = Len(outputs)
  <1>2. all \in BOOLEAN /\ (all => archive.complete /\ Len(archive.files) = Len(outputs))
    OBVIOUS
  <1>3. /\ done \in ArchiveType /\ done.files = archive.files
        /\ done.complete => archive.complete /\ Len(archive.files) = Len(outputs)
    <2>1. done = [archive EXCEPT !.complete = all]
      BY DEF Archived
    <2> HIDE DEF all, done
    <2> QED
      BY <1>1, <1>2, <2>1 DEF ArchiveType
  <1>4. ASSUME done.complete PROVE done.files = Sizes
    <2>1. DOMAIN outputs = 1 .. Len(outputs) /\ DOMAIN archive.files = 1 .. Len(outputs)
      BY <1>1, <1>3, <1>4 DEF TypeInv
    <2>2. \A i \in 1 .. Len(outputs) : archive.files[i] = outputs[i].size
      BY <1>3, <1>4 DEF Sound
    <2>3. archive.files = [i \in 1 .. Len(outputs) |-> archive.files[i]]
      BY <1>1, <2>1
    <2> QED
      BY <1>3, <2>1, <2>2, <2>3 DEF Sizes
  <1>5. Len(done.files) <= MaxMembers
    BY <1>3 DEF Sound
  <1> QED
    BY <1>3, <1>4, <1>5 DEF Written

--------------------------------------------------------------------------------
(* The initial states.                                                      *)

LEMMA InitInv == Init => IInv
  <1> SUFFICES ASSUME Init PROVE IInv
    OBVIOUS
  <1>1. /\ host.pc = "running" /\ host.archive = Empty /\ host.receipt = NoReceipt
        /\ host.terminal = Terminal
        /\ bucket.objects = {} /\ bucket.collection = None /\ bucket.terminal = None
    BY DEF Init
  <1>2. \A r \in Receivers : /\ recv[r].pc = "idle" /\ recv[r].why = None
                             /\ recv[r].terminal = None /\ recv[r].results = None
    BY DEF Init
  <1>3. TypeInv
    <2>1. host \in HostType
      BY EmptyTyped DEF Init, HostType, HostPcs
    <2>2. bucket \in BucketType
      BY DEF Init, BucketType
    <2>3. recv \in [Receivers -> RecvType]
      BY DEF Init, RecvType, RecvPcs
    <2> QED
      BY <2>1, <2>2, <2>3, CloudCollectAssumption DEF Init, TypeInv
  <1>4. HostInv /\ ObjectInv /\ CollectionInv
    BY <1>1 DEF HostInv, ObjectInv, CollectionInv, Early
  <1>5. VerdictInv
    BY <1>1 DEF VerdictInv, Silent, Terminal, Early
  <1>6. TerminalInv /\ UploadsNamed
    BY <1>1 DEF TerminalInv, UploadsNamed
  <1>7. \A r \in Receivers : recv[r].why # "objects"
    BY <1>2, NoneAssumption DEF Reasons
  <1>8. RecvInv /\ CollectedIsWhole /\ Collectable
    BY <1>2, <1>7 DEF RecvInv, CollectedIsWhole, Collectable
  <1> QED
    BY <1>3, <1>4, <1>5, <1>6, <1>8 DEF IInv

--------------------------------------------------------------------------------
(* What a step leaves alone.                                                *)

\* As long as no terminal object is stored no receiver has one.
LEMMA RecvWaits ==
    ASSUME IInv, UNCHANGED <<study, outputs, exit, recv>>, bucket.terminal = None
    PROVE  RecvInv' /\ CollectedIsWhole' /\ Collectable'
  <1>1. \A r \in Receivers : recv[r].terminal = None
    BY DEF IInv, RecvInv
  <1>2. \A r \in Receivers : /\ recv[r].pc \notin {"results", "manifest", "collected"}
                             /\ recv[r].why # "objects"
                             /\ study = "reasoner4" => recv[r].pc \notin {"instance", "cleanup"}
    BY <1>1 DEF IInv, RecvInv
  <1> QED
    BY <1>1, <1>2 DEF RecvInv, CollectedIsWhole, Collectable

LEMMA BucketSame ==
    ASSUME IInv, UNCHANGED <<study, outputs, exit, bucket>>
    PROVE  UploadsNamed' /\ (bucket.terminal # None => Describes(bucket.terminal))'
  <1>1. UploadsNamed'
    BY DEF IInv, UploadsNamed
  <1>2. bucket.terminal # None => Describes(bucket.terminal)
    BY DEF IInv, TerminalInv
  <1>3. Preserved => Preserved'
    BY DEF Preserved, Has, Rebuilds
  <1>4. bucket.terminal # None => Describes(bucket.terminal)'
    BY <1>2, <1>3 DEF Describes, Rebuildable, Rebuilds, Has, Written, Sizes
  <1> QED
    BY <1>1, <1>4

LEMMA RecvSame ==
    ASSUME IInv, UNCHANGED <<study, outputs, exit, bucket, recv>>
    PROVE  RecvInv' /\ CollectedIsWhole' /\ Collectable'
  BY DEF IInv, RecvInv, CollectedIsWhole, Collectable

\* Where an exception leaves the host.
LEMMA FailedInv ==
    ASSUME IInv, NEW h \in HostType, host' = Failed(h),
           UNCHANGED <<study, outputs, exit, left, recv>>, study # "reasoner4",
           ~h.receipt.transport, Silent(h.terminal),
           h.terminal.bootstrap => bucket'.bootstrap,
           study \in PartStudies =>
               \A o \in bucket'.objects :
                  o.index \in DOMAIN h.receipt.parts \/ o.index = h.receipt.pending,
           bucket' \in BucketType, bucket'.collection = None,
           bucket.terminal = None, bucket'.terminal = None
    PROVE  IInv'
  <1>1. /\ host' \in HostType
        /\ host'.pc = IF study \in PartStudies THEN "collection" ELSE "terminal"
        /\ host'.receipt = h.receipt /\ host'.terminal = h.terminal
    BY DEF Failed, HostType, HostPcs
  <1>2. TypeInv'
    BY <1>1 DEF IInv, TypeInv
  <1>3. HostInv' /\ ObjectInv'
    BY <1>1 DEF HostInv, ObjectInv, Early
  <1>4. CollectionInv'
    BY <1>1 DEF CollectionInv, Rebuildable, Names, PartStudies, ObjectStudies
  <1>5. VerdictInv'
    BY <1>1 DEF VerdictInv, Silent, Early
  <1>6. TerminalInv'
    BY <1>1 DEF TerminalInv, Describes, Silent
  <1>7. UploadsNamed'
    BY DEF UploadsNamed
  <1> QED
    BY <1>2, <1>3, <1>4, <1>5, <1>6, <1>7, RecvWaits DEF IInv

--------------------------------------------------------------------------------
(* The host archives.                                                       *)

LEMMA StartInv == ASSUME IInv, Start PROVE IInv'
  <1>1. /\ host.pc = "running"
        /\ UNCHANGED <<study, outputs, exit, left, bucket, recv>>
        /\ \/ study = "reasoner4" /\ host' = [host EXCEPT !.pc = "files"]
           \/ study # "reasoner4" /\ host' = [host EXCEPT !.pc = "bootstrap"]
           \/ study # "reasoner4" /\ host' = [host EXCEPT !.pc = "unverified"]
    BY DEF Start, elsewhere
  <1>2. /\ host' \in HostType
        /\ host'.archive = host.archive /\ host'.receipt = host.receipt
        /\ host'.terminal = host.terminal
        /\ \/ study = "reasoner4" /\ host'.pc = "files"
           \/ study # "reasoner4" /\ host'.pc \in {"bootstrap", "unverified"}
    BY <1>1 DEF IInv, TypeInv, HostType, HostPcs
  <1>3. TypeInv'
    BY <1>1, <1>2 DEF IInv, TypeInv
  <1>4. HostInv' /\ ObjectInv' /\ CollectionInv'
    BY <1>1, <1>2 DEF IInv, HostInv, ObjectInv, CollectionInv, Early
  <1>5. VerdictInv'
    <2>1. host.terminal = Terminal /\ Terminal.files = 0 /\ Len(outputs) \in Nat
      BY <1>1 DEF IInv, VerdictInv, Terminal, TypeInv
    <2> QED
      BY <1>1, <1>2, <2>1 DEF IInv, VerdictInv, Silent, Early
  <1>6. TerminalInv'
    BY <1>1, <1>2, BucketSame DEF TerminalInv
  <1> QED
    BY <1>1, <1>3, <1>4, <1>5, <1>6, BucketSame, RecvSame DEF IInv

LEMMA PutOutcome ==
    ASSUME TypeInv, NEW cutoff, NEW o \in PutOutcomes(cutoff)
    PROVE  o.stored \in BOOLEAN /\ o.ok \in BOOLEAN /\ (o.ok => o.stored)
  <1>1. \/ o = [stored |-> TRUE, ok |-> TRUE]
        \/ o = [stored |-> TRUE, ok |-> FALSE]
        \/ o = [stored |-> FALSE, ok |-> FALSE]
    BY Zenon DEF PutOutcomes
  <1>2. CASE o = [stored |-> TRUE, ok |-> TRUE]
    BY <1>2
  <1>3. CASE o = [stored |-> TRUE, ok |-> FALSE]
    BY <1>3
  <1>4. CASE o = [stored |-> FALSE, ok |-> FALSE]
    BY <1>4
  <1> QED
    BY <1>1, <1>2, <1>3, <1>4

LEMMA PutBootstrapInv == ASSUME IInv, PutBootstrap PROVE IInv'
  <1>1. /\ host.pc \in {"bootstrap", "unverified"}
        /\ UNCHANGED <<study, outputs, exit, left, recv>>
    BY DEF PutBootstrap, elsewhere
  <1> DEFINE cutoff == IF host.pc = "unverified" THEN 40 ELSE Cutoffs.bootstrap
  <1>2. PICK o \in PutOutcomes(cutoff) :
           /\ bucket' = [bucket EXCEPT !.bootstrap = o.stored]
           /\ host' = LET h == [host EXCEPT !.terminal.bootstrap = o.ok] IN
                      IF host.pc = "unverified" THEN [h EXCEPT !.pc = "terminal"]
                      ELSE IF o.ok THEN [h EXCEPT !.pc = "archive"] ELSE Failed(h)
    BY DEF PutBootstrap
  <1>3. o.stored \in BOOLEAN /\ o.ok \in BOOLEAN /\ (o.ok => o.stored)
    BY PutOutcome DEF IInv
  <1> HIDE DEF cutoff
  <1> DEFINE h == [host EXCEPT !.terminal.bootstrap = o.ok]
  <1>4. /\ bucket' \in BucketType /\ bucket'.bootstrap = o.stored
        /\ bucket'.objects = bucket.objects /\ bucket'.collection = bucket.collection
        /\ bucket'.terminal = bucket.terminal
    BY <1>2, <1>3 DEF IInv, TypeInv, BucketType
  <1>5. /\ study # "reasoner4" /\ host.archive = Empty /\ host.receipt = NoReceipt
        /\ bucket.objects = {} /\ bucket.collection = None /\ bucket.terminal = None
        /\ host.terminal = Terminal
    BY <1>1 DEF IInv, HostInv, VerdictInv, Early
  <1>6. /\ h \in HostType /\ h.archive = Empty /\ h.receipt = NoReceipt
        /\ h.terminal \in TerminalType /\ h.terminal.bootstrap = o.ok /\ Silent(h.terminal)
    <2>1. host.terminal \in TerminalType /\ host \in HostType
      BY DEF IInv, TypeInv, HostType
    <2> DEFINE t == [host.terminal EXCEPT !.bootstrap = o.ok]
    <2>2. t \in TerminalType /\ t.bootstrap = o.ok /\ Silent(t)
      <3>1. t = [Terminal EXCEPT !.bootstrap = o.ok]
        BY <1>5
      <3> HIDE DEF t
      <3>2. t = [status |-> "failed", complete |-> FALSE, bootstrap |-> o.ok,
                 receipt |-> FALSE, files |-> 0, uploadFailed |-> FALSE]
        BY <3>1 DEF Terminal
      <3> QED
        BY <1>3, <3>2 DEF TerminalType, Silent
    <2>3. h = [host EXCEPT !.terminal = t]
      BY <2>1 DEF HostType
    <2> HIDE DEF t, h
    <2> QED
      BY <1>5, <2>1, <2>2, <2>3 DEF HostType
  <1>7. host' = IF host.pc = "unverified" THEN [h EXCEPT !.pc = "terminal"]
                ELSE IF o.ok THEN [h EXCEPT !.pc = "archive"] ELSE Failed(h)
    BY <1>2
  <1> HIDE DEF h
  <1>8. CASE host.pc # "unverified" /\ ~o.ok
    BY <1>1, <1>3, <1>4, <1>5, <1>6, <1>7, <1>8, FailedInv DEF NoReceipt
  <1>9. ASSUME host.pc = "unverified" \/ o.ok PROVE IInv'
    <2>1. /\ host' \in HostType /\ host'.archive = Empty /\ host'.receipt = NoReceipt
          /\ host'.terminal = h.terminal
          /\ host'.pc \in {"terminal", "archive"}
      BY <1>6, <1>7, <1>9 DEF HostType, HostPcs
    <2>2. TypeInv'
      BY <1>1, <1>4, <2>1 DEF IInv, TypeInv
    <2>3. Sound(Empty)
      BY CloudCollectAssumption DEF Sound, Empty, IInv, TypeInv
    <2>4. HostInv' /\ ObjectInv' /\ CollectionInv'
      BY <1>1, <1>4, <1>5, <2>1, <2>3 DEF HostInv, ObjectInv, CollectionInv, Early, Sound
    <2>5. VerdictInv'
      BY <1>3, <1>4, <1>6, <2>1 DEF VerdictInv, Early, Silent
    <2>6. TerminalInv'
      BY <1>1, <1>3, <1>4, <1>5, <1>6, <2>1 DEF TerminalInv, Describes, Silent
    <2>7. UploadsNamed'
      BY <1>4, <1>5 DEF UploadsNamed
    <2> QED
      BY <1>1, <1>5, <2>2, <2>4, <2>5, <2>6, <2>7, RecvWaits DEF IInv
  <1> QED
    BY <1>8, <1>9

LEMMA ArchiveFileInv == ASSUME IInv, ArchiveFile PROVE IInv'
  <1> DEFINE next == WithFile(host.archive, outputs[Len(host.archive.files) + 1])
  <1>1. /\ host.pc = "archive"
        /\ Len(host.archive.files) + 1 <= Least(Len(outputs), MaxMembers)
        /\ host' = [host EXCEPT !.archive = next]
        /\ UNCHANGED <<study, outputs, exit, left, bucket, recv>>
    BY DEF ArchiveFile, elsewhere
  <1>2. host.archive \in ArchiveType /\ Sound(host.archive)
    BY <1>1 DEF IInv, TypeInv, HostType, HostInv
  <1>3. Sound(next)
    BY <1>1, <1>2, SoundGrows DEF IInv
  <1>4. outputs[Len(host.archive.files) + 1] \in FileType
    <2>1. Len(host.archive.files) \in Nat /\ Len(outputs) \in Nat /\ MaxMembers \in Nat
      BY <1>2, CloudCollectAssumption DEF IInv, TypeInv, ArchiveType
    <2>2. Len(host.archive.files) + 1 <= Len(outputs)
      BY <1>1, <2>1 DEF Least
    <2> QED
      BY <2>1, <2>2 DEF IInv, TypeInv
  <1>5. next \in ArchiveType
    BY <1>2, <1>4, FileAdded
  <1> HIDE DEF next
  <1>6. /\ host' \in HostType /\ host'.archive = next /\ host'.pc = "archive"
        /\ host'.receipt = host.receipt /\ host'.terminal = host.terminal
    BY <1>1, <1>5 DEF IInv, TypeInv, HostType
  <1>7. TypeInv'
    BY <1>1, <1>6 DEF IInv, TypeInv
  <1>8. HostInv' /\ ObjectInv' /\ CollectionInv'
    BY <1>1, <1>3, <1>6 DEF IInv, HostInv, ObjectInv, CollectionInv, Early, Sound
  <1>9. VerdictInv'
    BY <1>1, <1>6 DEF IInv, VerdictInv, Silent, Early
  <1>10. TerminalInv'
    BY <1>1, <1>6, BucketSame DEF TerminalInv
  <1> QED
    BY <1>1, <1>7, <1>8, <1>9, <1>10, BucketSame, RecvSame DEF IInv

LEMMA ArchiveEndsInv == ASSUME IInv, ArchiveEnds PROVE IInv'
  <1> DEFINE done == Archived(host.archive)
  <1>1. /\ host.pc = "archive"
        /\ host' = [host EXCEPT !.pc = "object", !.receipt.archive = done]
        /\ UNCHANGED <<study, outputs, exit, left, bucket, recv>>
    BY DEF ArchiveEnds, elsewhere
  <1>2. Written(done)
    BY <1>1, SoundWritten DEF IInv, TypeInv, HostType, HostInv
  <1> HIDE DEF done
  <1>3. /\ study # "reasoner4" /\ host.receipt = NoReceipt
        /\ bucket.objects = {} /\ bucket.collection = None /\ bucket.terminal = None
    BY <1>1 DEF IInv, HostInv, Early
  <1>4. /\ host' = [host EXCEPT !.pc = "object", !.receipt = [@ EXCEPT !.archive = done]]
        /\ [host.receipt EXCEPT !.archive = done] \in ReceiptType
    BY <1>1, <1>2 DEF IInv, TypeInv, HostType, ReceiptType, Written
  <1>5. /\ host' \in HostType /\ host'.pc = "object"
        /\ host'.receipt = [host.receipt EXCEPT !.archive = done]
        /\ host'.terminal = host.terminal
    BY <1>4 DEF IInv, TypeInv, HostType, HostPcs
  <1>6. /\ host'.receipt.archive = done /\ host'.receipt.parts = <<>>
        /\ host'.receipt.pending = None /\ ~host'.receipt.transport
    BY <1>3, <1>5 DEF NoReceipt
  <1>7. TypeInv'
    BY <1>1, <1>5 DEF IInv, TypeInv
  <1>8. HostInv' /\ CollectionInv'
    BY <1>1, <1>3, <1>5 DEF HostInv, CollectionInv, Early
  <1>9. ObjectInv'
    BY <1>1, <1>2, <1>3, <1>6 DEF ObjectInv, Written, Sent, Sizes
  <1>10. VerdictInv'
    BY <1>1, <1>5 DEF IInv, VerdictInv, Silent, Early
  <1>11. TerminalInv'
    BY <1>1, <1>5, BucketSame DEF TerminalInv
  <1> QED
    BY <1>1, <1>7, <1>8, <1>9, <1>10, <1>11, BucketSame, RecvSame DEF IInv

LEMMA ArchiveFailsInv == ASSUME IInv, ArchiveFails PROVE IInv'
  <1>1. /\ host.pc = "archive" /\ host' = Failed(host)
        /\ UNCHANGED <<study, outputs, exit, left, bucket, recv>>
    BY DEF ArchiveFails, elsewhere
  <1>2. /\ study # "reasoner4" /\ host.receipt = NoReceipt
        /\ bucket.objects = {} /\ bucket.collection = None /\ bucket.terminal = None
        /\ Silent(host.terminal) /\ (host.terminal.bootstrap => bucket.bootstrap)
    BY <1>1 DEF IInv, HostInv, VerdictInv, Early
  <1>3. host \in HostType /\ bucket \in BucketType
    BY DEF IInv, TypeInv
  <1> QED
    BY <1>1, <1>2, <1>3, FailedInv DEF NoReceipt

--------------------------------------------------------------------------------
(* The host uploads.                                                        *)

LEMMA VerdictOf ==
    ASSUME NEW h \in HostType, h.receipt.archive \in ArchiveType
    PROVE  /\ Verdict(h) \in HostType
           /\ Verdict(h).pc = h.pc /\ Verdict(h).archive = h.archive
           /\ Verdict(h).receipt = h.receipt
           /\ Verdict(h).terminal.complete = h.receipt.archive.complete
           /\ Verdict(h).terminal.status = "complete" =>
                 h.receipt.archive.complete /\ exit = 0
           /\ Verdict(h).terminal.bootstrap = h.terminal.bootstrap
           /\ Verdict(h).terminal.receipt = h.terminal.receipt
  <1> DEFINE complete == h.receipt.archive.complete
             status == IF complete /\ exit = 0 THEN "complete" ELSE "failed"
             t == [[h.terminal EXCEPT !.complete = complete] EXCEPT !.status = status]
  <1>1. complete \in BOOLEAN /\ status \in {"failed", "complete"}
        /\ (status = "complete" => complete /\ exit = 0)
    BY DEF ArchiveType
  <1>2. h.terminal \in TerminalType
    BY DEF HostType
  <1>3. Verdict(h) = [h EXCEPT !.terminal = t]
    BY DEF Verdict, HostType
  <1> HIDE DEF complete, status
  <1>4. /\ t \in TerminalType /\ t.complete = complete /\ t.status = status
        /\ t.bootstrap = h.terminal.bootstrap /\ t.receipt = h.terminal.receipt
    BY <1>1, <1>2 DEF TerminalType
  <1> HIDE DEF t
  <1>5. [h EXCEPT !.terminal = t] \in HostType
    BY <1>4 DEF HostType
  <1> QED
    BY <1>1, <1>3, <1>4, <1>5 DEF complete, HostType

LEMMA PutPartInv ==
    ASSUME IInv, study \in PartStudies, host.pc = "object",
           More(host.receipt.archive, Len(host.receipt.parts) + 1),
           Len(host.receipt.parts) + 1 <= MaxChunks,
           PutPart(host.receipt.archive, Len(host.receipt.parts) + 1),
           UNCHANGED <<study, outputs, exit, left, recv>>
    PROVE  IInv'
  <1> DEFINE receipt == host.receipt
             archive == receipt.archive
             n       == Len(receipt.parts)
             bytes   == PartBytes(archive, n + 1)
             object  == [index |-> n + 1, bytes |-> bytes]
  <1>1. /\ receipt \in ReceiptType /\ Written(archive) /\ archive \in ArchiveType
        /\ receipt.pending = None /\ ~receipt.transport /\ Sent(receipt)
        /\ \A o \in bucket.objects : o.index \in DOMAIN receipt.parts
    BY DEF IInv, TypeInv, HostType, ObjectInv, Written
  <1>2. receipt.parts \in Seq(Nat) /\ n \in Nat /\ DOMAIN receipt.parts = 1 .. n
    BY <1>1 DEF ReceiptType
  <1>3. bytes \in Nat
    BY <1>1, <1>2, NextPart, CloudCollectAssumption
  <1>4. /\ study # "reasoner4" /\ bucket.collection = None /\ bucket.terminal = None
        /\ Silent(host.terminal) /\ (host.terminal.bootstrap => bucket.bootstrap)
        /\ host \in HostType /\ bucket \in BucketType
    BY DEF IInv, TypeInv, HostInv, VerdictInv
  <1>5. PICK o \in PutOutcomes(Cutoffs.object), named \in BOOLEAN :
           /\ o.stored => named
           /\ bucket' = IF o.stored THEN [bucket EXCEPT !.objects = Store(n + 1, bytes)]
                                    ELSE bucket
           /\ host' = IF o.ok
                      THEN [host EXCEPT !.receipt.parts = Append(@, bytes)]
                      ELSE Failed([host EXCEPT !.receipt.pending = IF named THEN n + 1 ELSE None])
    BY DEF PutPart
  <1>6. o.stored \in BOOLEAN /\ o.ok \in BOOLEAN /\ (o.ok => o.stored)
    BY PutOutcome DEF IInv
  <1>7. object \in [index : Nat, bytes : Nat]
    BY <1>2, <1>3
  <1> HIDE DEF bytes
  <1>8. /\ bucket' \in BucketType
        /\ bucket'.objects = IF o.stored THEN bucket.objects \cup {object} ELSE bucket.objects
        /\ bucket'.collection = None /\ bucket'.terminal = None
        /\ bucket'.bootstrap = bucket.bootstrap
    BY <1>4, <1>5, <1>6, <1>7 DEF BucketType, Store
  <1>9. CASE o.ok
    <2> DEFINE next == [receipt EXCEPT !.parts = Append(receipt.parts, bytes)]
    <2>1. host' = [host EXCEPT !.receipt = next]
      BY <1>4, <1>5, <1>9 DEF HostType
    <2>2. /\ Append(receipt.parts, bytes) \in Seq(Nat)
          /\ DOMAIN Append(receipt.parts, bytes) = 1 .. n + 1
          /\ Append(receipt.parts, bytes)[n + 1] = bytes
          /\ \A i \in 1 .. n : Append(receipt.parts, bytes)[i] = receipt.parts[i]
      BY <1>2, <1>3
    <2> DEFINE parts == Append(receipt.parts, bytes)
    <2> HIDE DEF parts
    <2>3. /\ next \in ReceiptType /\ next.parts = parts /\ next.archive = archive
          /\ next.pending = None /\ ~next.transport
      BY <1>1, <2>2 DEF ReceiptType, parts
    <2> HIDE DEF next
    <2>4. /\ host' \in HostType /\ host'.pc = "object" /\ host'.receipt = next
          /\ host'.terminal = host.terminal
      BY <1>4, <2>1, <2>3 DEF HostType
    <2>5. TypeInv'
      BY <1>8, <2>4 DEF IInv, TypeInv
    <2>6. HostInv' /\ CollectionInv'
      BY <1>4, <1>8, <2>4 DEF HostInv, CollectionInv, Early
    <2>7. \A i \in 1 .. n + 1 : i \in 1 .. n \/ i = n + 1
      BY <1>2
    <2>8. DOMAIN parts = 1 .. n + 1 /\ parts[n + 1] = bytes
          /\ \A i \in 1 .. n : parts[i] = receipt.parts[i]
      BY <2>2 DEF parts
    <2>9. Sent(host.receipt)'
      <3> SUFFICES ASSUME NEW i \in 1 .. n + 1
                   PROVE  /\ i <= MaxChunks /\ More(archive, i)
                          /\ parts[i] = PartBytes(archive, i)
                          /\ [index |-> i, bytes |-> parts[i]] \in bucket'.objects
        BY <2>3, <2>4, <2>8 DEF Sent, Has, More, PartBytes, Bytes
      <3>1. CASE i = n + 1
        BY <1>6, <1>8, <1>9, <2>8, <3>1 DEF bytes
      <3>2. CASE i \in 1 .. n
        BY <1>1, <1>2, <1>8, <2>8, <3>2 DEF Sent, Has
      <3> QED
        BY <2>7, <3>1, <3>2
    <2>10. \A x \in bucket'.objects : x.index \in 1 .. n + 1
      BY <1>1, <1>2, <1>8
    <2>11. ObjectInv'
      BY <1>1, <2>3, <2>4, <2>8, <2>9, <2>10 DEF ObjectInv, Written, Sizes
    <2>12. VerdictInv'
      BY <1>4, <1>8, <2>4 DEF VerdictInv, Silent, Early
    <2>13. TerminalInv' /\ UploadsNamed'
      BY <1>8, <2>4 DEF TerminalInv, UploadsNamed
    <2> QED
      BY <1>4, <2>5, <2>6, <2>11, <2>12, <2>13, RecvWaits DEF IInv
  <1>10. CASE ~o.ok
    <2> DEFINE pending == IF named THEN n + 1 ELSE None
               next == [receipt EXCEPT !.pending = pending]
               h == [host EXCEPT !.receipt.pending = pending]
    <2>1. h = [host EXCEPT !.receipt = next]
      BY <1>4 DEF HostType
    <2>2. pending \in Nat \cup {None} /\ (named => pending = n + 1)
      BY <1>2
    <2>3. host' = Failed(h)
      BY <1>5, <1>10
    <2> HIDE DEF pending, h
    <2>4. /\ next \in ReceiptType /\ next.parts = receipt.parts /\ next.pending = pending
          /\ ~next.transport
      BY <1>1, <2>2 DEF ReceiptType
    <2> HIDE DEF next
    <2>5. h \in HostType /\ h.receipt = next /\ h.terminal = host.terminal
      BY <1>4, <2>1, <2>4 DEF HostType
    <2>6. \A x \in bucket'.objects : x.index \in DOMAIN receipt.parts \/ x.index = pending
      BY <1>1, <1>5, <1>6, <1>8, <2>2
    <2> QED
      BY <1>4, <1>8, <2>3, <2>4, <2>5, <2>6, FailedInv
  <1> QED
    BY <1>6, <1>9, <1>10

LEMMA UploadPartsInv == ASSUME IInv, UploadParts PROVE IInv'
  <1> DEFINE receipt == host.receipt
             archive == receipt.archive
             n       == Len(receipt.parts)
  <1>1. /\ study \in PartStudies /\ host.pc = "object"
        /\ UNCHANGED <<study, outputs, exit, left, recv>>
    BY DEF UploadParts, elsewhere
  <1>2. \/ More(archive, n + 1) /\ n + 1 <= MaxChunks /\ PutPart(archive, n + 1)
        \/ host' = Failed(host) /\ bucket' = bucket
        \/ /\ ~More(archive, n + 1) /\ bucket' = bucket
           /\ host' = [Verdict(host) EXCEPT !.pc = "collection", !.receipt.transport = TRUE]
    BY DEF UploadParts
  <1>3. /\ study # "reasoner4" /\ bucket.collection = None /\ bucket.terminal = None
        /\ Silent(host.terminal) /\ (host.terminal.bootstrap => bucket.bootstrap)
        /\ host \in HostType /\ bucket \in BucketType
    BY <1>1 DEF IInv, TypeInv, HostInv, VerdictInv
  <1>4. /\ receipt \in ReceiptType /\ Written(archive) /\ archive \in ArchiveType
        /\ receipt.pending = None /\ ~receipt.transport /\ Sent(receipt)
        /\ \A o \in bucket.objects : o.index \in DOMAIN receipt.parts
    BY <1>1 DEF IInv, TypeInv, HostType, ObjectInv, Written
  <1>5. CASE More(archive, n + 1) /\ n + 1 <= MaxChunks /\ PutPart(archive, n + 1)
    BY <1>1, <1>5, PutPartInv
  <1>6. CASE host' = Failed(host) /\ bucket' = bucket
    BY <1>1, <1>3, <1>4, <1>6, FailedInv
  <1>7. CASE /\ ~More(archive, n + 1) /\ bucket' = bucket
             /\ host' = [Verdict(host) EXCEPT !.pc = "collection", !.receipt.transport = TRUE]
    <2> DEFINE v == Verdict(host)
               next == [receipt EXCEPT !.transport = TRUE]
    <2>1. /\ v \in HostType /\ v.receipt = receipt
          /\ v.terminal.complete = archive.complete
          /\ v.terminal.status = "complete" => archive.complete /\ exit = 0
          /\ v.terminal.bootstrap = host.terminal.bootstrap
          /\ v.terminal.receipt = host.terminal.receipt
      BY <1>3, <1>4, VerdictOf
    <2> HIDE DEF v
    <2>2. host' = [[v EXCEPT !.pc = "collection"] EXCEPT !.receipt = next]
      BY <1>7, <2>1 DEF v, HostType
    <2>3. /\ next \in ReceiptType /\ next.parts = receipt.parts /\ next.archive = archive
          /\ next.transport
      BY <1>4 DEF ReceiptType
    <2> HIDE DEF next
    <2>4. /\ host' \in HostType /\ host'.pc = "collection" /\ host'.receipt = next
          /\ host'.terminal = v.terminal
      BY <2>1, <2>2, <2>3 DEF HostType, HostPcs
    <2>5. Sent(next)
      BY <1>4, <2>3 DEF Sent
    <2>6. Rebuilds(next)
      BY <1>1, <1>4, <1>7, <2>3, <2>5, PartsRebuild
    <2>7. Rebuilds(host.receipt)'
      BY <1>1, <1>7, <2>4, <2>6 DEF Rebuilds, Has
    <2>8. TypeInv'
      BY <1>1, <1>7, <2>4 DEF IInv, TypeInv
    <2>9. HostInv' /\ ObjectInv'
      BY <1>1, <1>3, <1>7, <2>4 DEF HostInv, ObjectInv, Early
    <2>10. Written(host.receipt.archive)'
      BY <1>1, <1>4, <2>3, <2>4 DEF Written, Sizes
    <2>11. CollectionInv'
      BY <1>1, <1>4, <1>7, <2>3, <2>4, <2>7, <2>10
      DEF CollectionInv, Rebuildable, Names, PartStudies, ObjectStudies
    <2>12. VerdictInv'
      BY <1>1, <1>3, <1>7, <2>1, <2>3, <2>4 DEF VerdictInv, Silent, Early
    <2>13. TerminalInv' /\ UploadsNamed'
      BY <1>3, <1>7, <2>4 DEF TerminalInv, UploadsNamed
    <2> QED
      BY <1>1, <1>3, <2>8, <2>9, <2>11, <2>12, <2>13, RecvWaits DEF IInv
  <1> QED
    BY <1>2, <1>5, <1>6, <1>7

LEMMA UploadObjectInv == ASSUME IInv, UploadObject PROVE IInv'
  <1> DEFINE receipt == host.receipt
             archive == receipt.archive
             bytes   == Bytes(archive)
             object  == [index |-> 1, bytes |-> bytes]
  <1>1. /\ study \in ObjectStudies /\ study \notin PartStudies /\ host.pc = "object"
        /\ UNCHANGED <<study, outputs, exit, left, recv>>
    BY DEF UploadObject, elsewhere, ObjectStudies, PartStudies
  <1>2. PICK o \in PutOutcomes(Cutoffs.object) :
          /\ bucket' = IF o.stored THEN [bucket EXCEPT !.objects = Store(1, bytes)] ELSE bucket
          /\ host' = IF o.ok THEN [host EXCEPT !.pc = "collection", !.receipt.parts = <<bytes>>,
                                               !.receipt.transport = TRUE]
                             ELSE Failed(host)
    BY DEF UploadObject
  <1>3. o.stored \in BOOLEAN /\ o.ok \in BOOLEAN /\ (o.ok => o.stored)
    BY PutOutcome DEF IInv
  <1>4. /\ study # "reasoner4" /\ bucket.collection = None /\ bucket.terminal = None
        /\ Silent(host.terminal) /\ (host.terminal.bootstrap => bucket.bootstrap)
        /\ host \in HostType /\ bucket \in BucketType
    BY <1>1 DEF IInv, TypeInv, HostInv, VerdictInv
  <1>5. /\ receipt \in ReceiptType /\ Written(archive) /\ archive \in ArchiveType
        /\ ~receipt.transport
    BY <1>1 DEF IInv, TypeInv, HostType, ObjectInv, Written
  <1>6. bytes \in Nat
    BY <1>5, BytesTyped
  <1> HIDE DEF bytes
  <1>7. /\ bucket' \in BucketType
        /\ bucket'.objects = IF o.stored THEN bucket.objects \cup {object} ELSE bucket.objects
        /\ bucket'.collection = None /\ bucket'.terminal = None
        /\ bucket'.bootstrap = bucket.bootstrap
    BY <1>2, <1>3, <1>4, <1>6 DEF BucketType, Store
  <1>8. CASE ~o.ok
    BY <1>1, <1>2, <1>4, <1>5, <1>7, <1>8, FailedInv
  <1>9. CASE o.ok
    <2> DEFINE next == [[receipt EXCEPT !.parts = <<bytes>>] EXCEPT !.transport = TRUE]
    <2>1. host' = [[host EXCEPT !.pc = "collection"] EXCEPT !.receipt = next]
      BY <1>2, <1>4, <1>9 DEF HostType
    <2>2. /\ next \in ReceiptType /\ next.parts = <<bytes>> /\ next.archive = archive
          /\ next.transport
      <3> DEFINE parts == <<bytes>>
      <3>1. parts \in Seq(Nat)
        BY <1>6
      <3> HIDE DEF parts
      <3>2. [[receipt EXCEPT !.parts = parts] EXCEPT !.transport = TRUE] \in ReceiptType
        BY <1>5, <3>1 DEF ReceiptType
      <3> QED
        BY <1>5, <3>2 DEF ReceiptType, parts
    <2> HIDE DEF next
    <2>3. /\ host' \in HostType /\ host'.pc = "collection" /\ host'.receipt = next
          /\ host'.terminal = host.terminal
      BY <1>4, <2>1, <2>2 DEF HostType, HostPcs
    <2>4. object \in bucket'.objects
      BY <1>3, <1>7, <1>9
    <2>5. Rebuilds(host.receipt)'
      <3>1. ValidObject(next)
        BY <1>5, <2>2, BytesTyped DEF ValidObject, bytes
      <3>2. Len(next.archive.files) + 1 <= MaxMembers + 1
        BY <1>5, <2>2, CloudCollectAssumption DEF Written, ArchiveType
      <3>3. \A i \in DOMAIN next.parts : i = 1 /\ next.parts[i] = bytes
        BY <2>2
      <3> QED
        BY <1>1, <2>3, <2>4, <3>1, <3>2, <3>3 DEF Rebuilds, Has
    <2>6. TypeInv'
      BY <1>1, <1>7, <2>3 DEF IInv, TypeInv
    <2>7. HostInv' /\ ObjectInv'
      BY <1>1, <1>4, <1>7, <2>3 DEF HostInv, ObjectInv, Early
    <2>8. Written(host.receipt.archive)'
      BY <1>1, <1>5, <2>2, <2>3 DEF Written, Sizes
    <2>9. CollectionInv'
      BY <1>1, <2>2, <2>3, <2>5, <2>8 DEF CollectionInv, Rebuildable
    <2>10. VerdictInv'
      BY <1>1, <1>4, <1>7, <2>3 DEF VerdictInv, Silent, Early
    <2>11. TerminalInv' /\ UploadsNamed'
      BY <1>7, <2>3 DEF TerminalInv, UploadsNamed
    <2> QED
      BY <1>1, <1>4, <2>6, <2>7, <2>9, <2>10, <2>11, RecvWaits DEF IInv
  <1> QED
    BY <1>3, <1>8, <1>9

LEMMA PutCollectionInv ==
    ASSUME IInv, PutCollection, study \in PartStudies \cup ObjectStudies
    PROVE  IInv'
  <1>1. /\ host.pc = "collection"
        /\ UNCHANGED <<study, outputs, exit, left, recv>>
    BY DEF PutCollection, elsewhere
  <1>2. PICK o \in PutOutcomes(Cutoffs.collection) :
          /\ bucket' = [bucket EXCEPT !.collection = IF o.stored THEN host.receipt ELSE None]
          /\ host' = LET h == [host EXCEPT !.pc = "terminal", !.terminal.receipt = o.ok] IN
                     IF ~o.ok THEN Unreceipted(h)
                     ELSE IF study \in ObjectStudies THEN Verdict(h) ELSE h
    BY DEF PutCollection
  <1>3. o.stored \in BOOLEAN /\ o.ok \in BOOLEAN /\ (o.ok => o.stored)
    BY PutOutcome DEF IInv
  <1>4. /\ study # "reasoner4" /\ bucket.collection = None /\ bucket.terminal = None
        /\ host \in HostType /\ bucket \in BucketType
        /\ host.receipt \in ReceiptType /\ host.terminal \in TerminalType
        /\ (host.terminal.bootstrap => bucket.bootstrap)
        /\ Rebuildable(host.receipt)
        /\ study \in PartStudies => Names(host.receipt)
        /\ study \in ObjectStudies => host.receipt.transport
        /\ host.terminal.status = "complete" => host.terminal.complete /\ exit = 0
        /\ host.terminal.complete => host.receipt.transport /\ host.receipt.archive.complete
    BY <1>1 DEF IInv, TypeInv, HostType, HostInv, CollectionInv, VerdictInv
  <1>5. /\ bucket' \in BucketType /\ bucket'.objects = bucket.objects
        /\ bucket'.collection = IF o.stored THEN host.receipt ELSE None
        /\ bucket'.terminal = None /\ bucket'.bootstrap = bucket.bootstrap
    BY <1>2, <1>3, <1>4 DEF BucketType
  <1> DEFINE t == [host.terminal EXCEPT !.receipt = o.ok]
             h == [host EXCEPT !.pc = "terminal", !.terminal.receipt = o.ok]
  <1>6. /\ t \in TerminalType /\ t.receipt = o.ok /\ t.complete = host.terminal.complete
        /\ t.status = host.terminal.status /\ t.bootstrap = host.terminal.bootstrap
    BY <1>3, <1>4 DEF TerminalType
  <1>7. h = [[host EXCEPT !.pc = "terminal"] EXCEPT !.terminal = t]
    BY <1>4 DEF HostType
  <1>8. host' = IF ~o.ok THEN Unreceipted(h)
                ELSE IF study \in ObjectStudies THEN Verdict(h) ELSE h
    BY <1>2
  <1> HIDE DEF t, h
  <1>9. /\ h \in HostType /\ h.pc = "terminal" /\ h.receipt = host.receipt /\ h.terminal = t
    BY <1>4, <1>6, <1>7 DEF HostType, HostPcs
  <1>10. host.receipt.transport =>
            host.receipt.archive \in ArchiveType /\ Rebuilds(host.receipt)
    BY <1>4 DEF Rebuildable, Written
  <1>11. /\ host' \in HostType /\ host'.pc = "terminal"
         /\ host'.terminal.receipt = o.ok
         /\ host'.terminal.bootstrap = host.terminal.bootstrap
         /\ host'.terminal.status = "complete" => host'.terminal.complete /\ exit = 0
         /\ host'.terminal.complete =>
               o.ok /\ host.receipt.transport /\ host.receipt.archive.complete
    <2>1. CASE ~o.ok
      <3> DEFINE u == [[t EXCEPT !.complete = FALSE] EXCEPT !.status = "failed"]
      <3>1. host' = [h EXCEPT !.terminal = u]
        BY <1>8, <1>9, <2>1 DEF Unreceipted, HostType
      <3>2. /\ u \in TerminalType /\ ~u.complete /\ u.status = "failed"
            /\ u.receipt = o.ok /\ u.bootstrap = host.terminal.bootstrap
        BY <1>6 DEF TerminalType
      <3> HIDE DEF u
      <3> QED
        BY <1>9, <3>1, <3>2 DEF HostType
    <2>2. CASE o.ok /\ study \in ObjectStudies
      <3>1. h.receipt.archive \in ArchiveType /\ host.receipt.transport
        BY <1>4, <1>9, <1>10, <2>2
      <3>2. host' = Verdict(h)
        BY <1>8, <2>2
      <3> QED
        BY <1>6, <1>9, <2>2, <3>1, <3>2, VerdictOf
    <2>3. CASE o.ok /\ study \notin ObjectStudies
      <3>1. host' = h
        BY <1>8, <2>3
      <3> QED
        BY <1>4, <1>6, <1>9, <2>3, <3>1
    <2> QED
      BY <1>3, <2>1, <2>2, <2>3
  <1>12. o.ok => bucket'.collection = host.receipt /\ host.receipt # None
    BY <1>3, <1>4, <1>5, NoneAssumption
  <1>13. Rebuilds(host.receipt) /\ o.ok => Rebuilds(bucket.collection)'
    BY <1>1, <1>5, <1>12 DEF Rebuilds, Has
  <1>14. o.ok => Rebuildable(bucket.collection)'
    BY <1>1, <1>4, <1>12, <1>13 DEF Rebuildable, Written, Sizes
  <1>15. host'.terminal.complete => Preserved'
    <2> SUFFICES ASSUME host'.terminal.complete PROVE Preserved'
      OBVIOUS
    <2>1. /\ bucket'.collection = host.receipt /\ host.receipt # None
          /\ host.receipt.transport /\ host.receipt.archive.complete
          /\ Rebuilds(bucket.collection)'
      BY <1>10, <1>11, <1>12, <1>13
    <2>2. host.receipt.archive.files = [i \in DOMAIN outputs |-> outputs[i].size]
      BY <1>4, <2>1 DEF Rebuildable, Written, Sizes
    <2> QED
      BY <1>1, <1>4, <2>1, <2>2 DEF Preserved
  <1>16. Describes(host.terminal)'
    BY <1>1, <1>4, <1>5, <1>11, <1>12, <1>14, <1>15 DEF Describes
  <1>17. TypeInv'
    BY <1>1, <1>5, <1>11 DEF IInv, TypeInv
  <1>18. HostInv' /\ ObjectInv' /\ CollectionInv'
    BY <1>1, <1>5, <1>11 DEF HostInv, ObjectInv, CollectionInv, Early
  <1>19. VerdictInv' /\ TerminalInv'
    BY <1>4, <1>5, <1>11, <1>16 DEF VerdictInv, TerminalInv, Early
  <1>20. UploadsNamed'
    BY <1>1, <1>4, <1>5 DEF UploadsNamed, Names
  <1> QED
    BY <1>1, <1>4, <1>17, <1>18, <1>19, <1>20, RecvWaits DEF IInv

LEMMA PutFilesInv == ASSUME IInv, PutFiles PROVE IInv'
  <1> DEFINE t == host.terminal
             i == t.files + 1
  <1>1. /\ host.pc = "files" /\ study = "reasoner4"
        /\ UNCHANGED <<study, outputs, exit, left, recv>>
    BY DEF PutFiles, elsewhere, IInv, HostInv
  <1>2. \/ /\ i <= Len(outputs)
           /\ \E o \in PutOutcomes(Cutoffs.object) :
                 /\ bucket' = IF o.stored
                              THEN [bucket EXCEPT !.objects = Store(i, outputs[i].size)]
                              ELSE bucket
                 /\ host' = [host EXCEPT !.terminal.files = i,
                                         !.terminal.uploadFailed = @ \/ ~o.ok]
        \/ /\ i > Len(outputs) /\ bucket' = bucket
           /\ host' = [host EXCEPT !.pc = "terminal",
                          !.terminal.status = IF exit = 0 /\ ~host.terminal.uploadFailed
                                              THEN "complete" ELSE "failed"]
    BY DEF PutFiles
  <1>3. /\ bucket.collection = None /\ bucket.terminal = None
        /\ host \in HostType /\ bucket \in BucketType /\ t \in TerminalType
        /\ Silent(t) /\ (t.bootstrap => bucket.bootstrap)
        /\ t.files \in Nat /\ t.files <= Len(outputs) /\ Len(outputs) \in Nat
        /\ t.uploadFailed \/ \A k \in 1 .. t.files : Has(k, outputs[k].size)
    BY <1>1 DEF IInv, TypeInv, HostType, TerminalType, HostInv, VerdictInv, Early
  <1>4. ASSUME i <= Len(outputs), NEW o \in PutOutcomes(Cutoffs.object),
               bucket' = IF o.stored
                         THEN [bucket EXCEPT !.objects = Store(i, outputs[i].size)]
                         ELSE bucket,
               host' = [host EXCEPT !.terminal.files = i,
                                    !.terminal.uploadFailed = @ \/ ~o.ok]
        PROVE  IInv'
    <2>1. o.stored \in BOOLEAN /\ o.ok \in BOOLEAN /\ (o.ok => o.stored)
      BY PutOutcome DEF IInv
    <2> DEFINE failed == t.uploadFailed \/ ~o.ok
               object == [index |-> i, bytes |-> outputs[i].size]
               u == [[t EXCEPT !.files = i] EXCEPT !.uploadFailed = failed]
    <2>2. i \in 1 .. Len(outputs) /\ outputs[i] \in FileType
      BY <1>3, <1>4 DEF IInv, TypeInv
    <2>3. object \in [index : Nat, bytes : Nat]
      BY <2>2 DEF FileType
    <2>4. /\ bucket' \in BucketType
          /\ bucket'.objects = IF o.stored THEN bucket.objects \cup {object} ELSE bucket.objects
          /\ bucket'.collection = None /\ bucket'.terminal = None
          /\ bucket'.bootstrap = bucket.bootstrap
      BY <1>3, <1>4, <2>1, <2>3 DEF BucketType, Store
    <2>5. host' = [host EXCEPT !.terminal = u]
      BY <1>3, <1>4 DEF HostType
    <2>6. failed \in BOOLEAN /\ (~failed => ~t.uploadFailed /\ o.ok)
      OBVIOUS
    <2> HIDE DEF failed
    <2>7. /\ u \in TerminalType /\ Silent(u) /\ u.files = i /\ u.uploadFailed = failed
          /\ u.bootstrap = t.bootstrap
      <3> DEFINE v == [t EXCEPT !.files = i]
      <3>1. i \in Nat /\ t.uploadFailed \in BOOLEAN
        BY <1>3 DEF TerminalType
      <3>2. v \in TerminalType /\ v.files = i /\ Silent(v) /\ v.bootstrap = t.bootstrap
        BY <1>3, <3>1 DEF TerminalType, Silent
      <3>3. u = [v EXCEPT !.uploadFailed = failed]
        OBVIOUS
      <3> HIDE DEF v, u
      <3> QED
        BY <2>6, <3>2, <3>3 DEF TerminalType, Silent
    <2> HIDE DEF u
    <2>8. /\ host' \in HostType /\ host'.pc = "files" /\ host'.terminal = u
          /\ host'.receipt = host.receipt
      BY <1>1, <1>3, <2>5, <2>7 DEF HostType
    <2>9. TypeInv'
      BY <1>1, <2>4, <2>8 DEF IInv, TypeInv
    <2>10. HostInv' /\ ObjectInv' /\ CollectionInv'
      BY <1>1, <2>4, <2>8 DEF IInv, HostInv, ObjectInv, CollectionInv, Early
    <2>11. failed \/ \A k \in 1 .. i : [index |-> k, bytes |-> outputs[k].size] \in bucket'.objects
      <3> SUFFICES ASSUME ~failed, NEW k \in 1 .. i
                   PROVE  [index |-> k, bytes |-> outputs[k].size] \in bucket'.objects
        OBVIOUS
      <3>1. CASE k = i
        BY <2>1, <2>4, <2>6, <3>1
      <3>2. CASE k \in 1 .. t.files
        BY <1>3, <2>4, <2>6, <3>2 DEF Has
      <3> QED
        BY <1>3, <3>1, <3>2
    <2>12. VerdictInv'
      BY <1>1, <1>3, <2>2, <2>4, <2>7, <2>8, <2>11 DEF VerdictInv, Silent, Early, Has
    <2>13. TerminalInv' /\ UploadsNamed'
      BY <2>4, <2>8 DEF TerminalInv, UploadsNamed
    <2> QED
      BY <1>1, <1>3, <2>9, <2>10, <2>12, <2>13, RecvWaits DEF IInv
  <1>5. CASE /\ i > Len(outputs) /\ bucket' = bucket
             /\ host' = [host EXCEPT !.pc = "terminal",
                            !.terminal.status = IF exit = 0 /\ ~host.terminal.uploadFailed
                                                THEN "complete" ELSE "failed"]
    <2> DEFINE status == IF exit = 0 /\ ~t.uploadFailed THEN "complete" ELSE "failed"
               u == [t EXCEPT !.status = status]
    <2>1. status \in {"failed", "complete"} /\ (status = "complete" => exit = 0 /\ ~t.uploadFailed)
      OBVIOUS
    <2>2. host' = [[host EXCEPT !.pc = "terminal"] EXCEPT !.terminal = u]
      BY <1>3, <1>5 DEF HostType
    <2> HIDE DEF status
    <2>3. /\ u \in TerminalType /\ u.status = status /\ ~u.complete /\ ~u.receipt
          /\ u.bootstrap = t.bootstrap /\ u.files = t.files /\ u.uploadFailed = t.uploadFailed
      BY <1>3, <2>1 DEF TerminalType, Silent
    <2> HIDE DEF u
    <2>4. host' \in HostType /\ host'.pc = "terminal" /\ host'.terminal = u
      BY <1>3, <2>2, <2>3 DEF HostType, HostPcs
    <2>5. u.files = Len(outputs)
      BY <1>3, <1>5, <2>3
    <2>6. u.status = "complete" => Preserved'
      <3> SUFFICES ASSUME u.status = "complete" PROVE Preserved'
        OBVIOUS
      <3>1. \A k \in 1 .. Len(outputs) : Has(k, outputs[k].size)
        BY <1>3, <2>1, <2>3, <2>5
      <3>2. DOMAIN outputs = 1 .. Len(outputs)
        BY DEF IInv, TypeInv
      <3> QED
        BY <1>1, <1>5, <3>1, <3>2 DEF Preserved, Has
    <2>7. Describes(host.terminal)'
      BY <1>1, <1>3, <1>5, <2>1, <2>3, <2>4, <2>5, <2>6 DEF Describes, Has
    <2>8. TypeInv'
      BY <1>1, <1>5, <2>4 DEF IInv, TypeInv
    <2>9. HostInv' /\ ObjectInv' /\ CollectionInv'
      BY <1>1, <1>3, <1>5, <2>4 DEF HostInv, ObjectInv, CollectionInv, Early
    <2>10. VerdictInv' /\ TerminalInv'
      BY <1>3, <1>5, <2>3, <2>4, <2>7 DEF VerdictInv, TerminalInv, Early
    <2> QED
      BY <1>1, <1>3, <1>5, <2>8, <2>9, <2>10, BucketSame, RecvSame DEF IInv
  <1> QED
    BY <1>2, <1>4, <1>5

LEMMA PutTerminalInv == ASSUME IInv, PutTerminal PROVE IInv'
  <1>1. /\ host.pc = "terminal" /\ host' = [host EXCEPT !.pc = "done"]
        /\ UNCHANGED <<study, outputs, exit, left, recv>>
    BY DEF PutTerminal, elsewhere
  <1>2. PICK o \in PutOutcomes(0) :
           bucket' = [bucket EXCEPT !.terminal = IF o.stored THEN host.terminal ELSE None]
    BY DEF PutTerminal
  <1>3. o.stored \in BOOLEAN
    BY PutOutcome DEF IInv
  <1>4. /\ host \in HostType /\ bucket \in BucketType /\ host.terminal \in TerminalType
        /\ bucket.terminal = None /\ Describes(host.terminal)
        /\ (host.terminal.bootstrap => bucket.bootstrap)
    BY <1>1 DEF IInv, TypeInv, HostType, HostInv, TerminalInv, VerdictInv
  <1>5. /\ host' \in HostType /\ host'.pc = "done" /\ host'.terminal = host.terminal
        /\ host'.archive = host.archive /\ host'.receipt = host.receipt
    BY <1>1, <1>4 DEF HostType, HostPcs
  <1>6. /\ bucket' \in BucketType /\ bucket'.objects = bucket.objects
        /\ bucket'.collection = bucket.collection /\ bucket'.bootstrap = bucket.bootstrap
        /\ bucket'.terminal = IF o.stored THEN host.terminal ELSE None
    BY <1>2, <1>3, <1>4 DEF BucketType
  <1>7. TypeInv'
    BY <1>1, <1>5, <1>6 DEF IInv, TypeInv
  <1>8. HostInv' /\ ObjectInv' /\ CollectionInv' /\ VerdictInv'
    BY <1>4, <1>5, <1>6 DEF HostInv, ObjectInv, CollectionInv, VerdictInv, Early
  <1>9. Preserved => Preserved'
    BY <1>1, <1>6 DEF Preserved, Has, Rebuilds
  <1>10. bucket'.terminal # None => Describes(bucket.terminal)'
    BY <1>1, <1>4, <1>6, <1>9 DEF Describes, Rebuildable, Rebuilds, Has, Written, Sizes
  <1>11. TerminalInv' /\ UploadsNamed'
    BY <1>1, <1>5, <1>6, <1>10 DEF IInv, TerminalInv, UploadsNamed
  <1> QED
    BY <1>1, <1>4, <1>7, <1>8, <1>11, RecvWaits DEF IInv

\* A shutdown, a cleanup and the clock leave the bucket as it is.
LEMMA ShutdownInv == ASSUME IInv, Shutdown PROVE IInv'
  <1>1. /\ host' = [pc |-> "off", archive |-> Empty, receipt |-> NoReceipt, terminal |-> Terminal]
        /\ UNCHANGED <<study, outputs, exit, left, bucket, recv>>
    BY DEF Shutdown
  <1>2. host' \in HostType /\ host'.pc = "off" /\ host'.terminal = Terminal
    BY <1>1, EmptyTyped DEF HostType, HostPcs
  <1>3. TypeInv'
    BY <1>1, <1>2 DEF IInv, TypeInv
  <1>4. HostInv' /\ ObjectInv' /\ CollectionInv' /\ VerdictInv'
    BY <1>2 DEF HostInv, ObjectInv, CollectionInv, VerdictInv, Early, Terminal
  <1>5. TerminalInv'
    BY <1>1, <1>2, BucketSame DEF TerminalInv
  <1> QED
    BY <1>1, <1>3, <1>4, <1>5, BucketSame, RecvSame DEF IInv

LEMMA Elsewhere ==
    ASSUME IInv, UNCHANGED <<study, outputs, exit, host, bucket, recv>>, left' \in Int
    PROVE  IInv'
  <1>1. TypeInv'
    BY DEF IInv, TypeInv
  <1>2. HostInv' /\ VerdictInv'
    BY DEF IInv, HostInv, VerdictInv, Silent, Sound, Has
  <1>3. ObjectInv' /\ CollectionInv'
    BY DEF IInv, ObjectInv, CollectionInv, Written, Sent, Names, Rebuildable, Rebuilds, Has, Sizes
  <1>4. host.pc = "terminal" => Describes(host.terminal)'
    <2>1. Preserved => Preserved'
      BY DEF Preserved, Has, Rebuilds
    <2> QED
      BY <2>1 DEF IInv, TerminalInv, Describes, Rebuildable, Rebuilds, Has, Written, Sizes
  <1>5. TerminalInv'
    BY <1>4, BucketSame DEF TerminalInv
  <1> QED
    BY <1>1, <1>2, <1>3, <1>5, BucketSame, RecvSame DEF IInv

--------------------------------------------------------------------------------
(* The receivers.                                                           *)

\* What a receiver's step must not disturb, said of the one that moves.
Consistent(x) ==
    /\ x.terminal # None => x.terminal = bucket.terminal
    /\ x.pc \in {"results", "manifest", "collected"} => x.terminal # None
    /\ study = "reasoner4" /\ x.pc \in {"instance", "cleanup", "manifest", "collected"} =>
          /\ x.terminal # None
          /\ x.results = [i \in 1 .. x.terminal.files |-> outputs[i].size]
    /\ x.why = "objects" =>
          x.terminal # None /\ study = "reasoner4" /\ x.terminal.uploadFailed
    /\ x.pc = "collected" /\ (x.terminal.complete \/ x.terminal.status = "complete") =>
          x.results = Sizes

LEMMA EachConsistent ==
    (RecvInv /\ CollectedIsWhole /\ Collectable) <=> \A r \in Receivers : Consistent(recv[r])
  BY DEF RecvInv, CollectedIsWhole, Collectable, Consistent, Sizes

LEMMA RecvStep ==
    ASSUME IInv, NEW r \in Receivers, NEW x \in RecvType, Consistent(x),
           recv' = [recv EXCEPT ![r] = x], UNCHANGED rest
    PROVE  IInv'
  <1>1. UNCHANGED <<study, outputs, exit, left, host, bucket>>
    BY DEF rest
  <1>2. recv \in [Receivers -> RecvType]
    BY DEF IInv, TypeInv
  <1>3. recv' \in [Receivers -> RecvType] /\ recv'[r] = x
        /\ \A s \in Receivers : s # r => recv'[s] = recv[s]
    BY <1>2
  <1>4. \A s \in Receivers : Consistent(recv[s])
    BY EachConsistent DEF IInv
  <1>5. \A s \in Receivers : Consistent(recv'[s])
    BY <1>3, <1>4
  <1>6. (RecvInv /\ CollectedIsWhole /\ Collectable)'
    <2>1. RecvInv'
      BY <1>1, <1>5 DEF RecvInv, Consistent
    <2>2. CollectedIsWhole'
      BY <1>1, <1>5 DEF CollectedIsWhole, Consistent, Sizes
    <2>3. Collectable'
      BY <1>1, <1>5 DEF Collectable, Consistent
    <2> QED
      BY <2>1, <2>2, <2>3
  <1>7. TypeInv'
    BY <1>1, <1>3 DEF IInv, TypeInv
  <1>8. HostInv' /\ VerdictInv'
    BY <1>1 DEF IInv, HostInv, VerdictInv, Silent, Sound, Has
  <1>9. ObjectInv' /\ CollectionInv'
    BY <1>1 DEF IInv, ObjectInv, CollectionInv, Written, Sent, Names, Rebuildable, Rebuilds,
                Has, Sizes
  <1>10. host.pc = "terminal" => Describes(host.terminal)'
    <2>1. Preserved => Preserved'
      BY <1>1 DEF Preserved, Has, Rebuilds
    <2> QED
      BY <1>1, <2>1 DEF IInv, TerminalInv, Describes, Rebuildable, Rebuilds, Has, Written, Sizes
  <1>11. TerminalInv' /\ UploadsNamed'
    BY <1>1, <1>10, BucketSame DEF TerminalInv
  <1> QED
    BY <1>6, <1>7, <1>8, <1>9, <1>11 DEF IInv

LEMMA MoveInv ==
    ASSUME IInv, NEW r \in Receivers, NEW to \in RecvPcs, UNCHANGED rest,
           recv' = [recv EXCEPT ![r].pc = to],
           to \notin {"results", "manifest", "collected"},
           study = "reasoner4" /\ to \in {"instance", "cleanup"} =>
               recv[r].pc \in {"instance", "cleanup"}
    PROVE  IInv'
  <1> DEFINE x == [recv[r] EXCEPT !.pc = to]
  <1>1. recv[r] \in RecvType /\ Consistent(recv[r])
    BY EachConsistent DEF IInv, TypeInv
  <1>2. /\ x \in RecvType /\ x.pc = to /\ x.terminal = recv[r].terminal
        /\ x.results = recv[r].results /\ x.why = recv[r].why
    BY <1>1 DEF RecvType
  <1>3. recv' = [recv EXCEPT ![r] = x]
    BY DEF IInv, TypeInv
  <1> HIDE DEF x
  <1>4. Consistent(x)
    BY <1>1, <1>2 DEF Consistent
  <1> QED
    BY <1>2, <1>3, <1>4, RecvStep

LEMMA RefuseInv ==
    ASSUME IInv, NEW r \in Receivers, NEW why \in Reasons, Refuse(r, why),
           why = "objects" => /\ recv[r].terminal # None
                              /\ study = "reasoner4" /\ recv[r].terminal.uploadFailed
    PROVE  IInv'
  <1> DEFINE x == [[recv[r] EXCEPT !.pc = "refused"] EXCEPT !.why = why]
  <1>1. recv[r] \in RecvType /\ Consistent(recv[r]) /\ recv \in [Receivers -> RecvType]
    BY EachConsistent DEF IInv, TypeInv
  <1>2. /\ x \in RecvType /\ x.pc = "refused" /\ x.terminal = recv[r].terminal
        /\ x.why = why
    BY <1>1 DEF RecvType, RecvPcs
  <1>3. recv' = [recv EXCEPT ![r] = x] /\ UNCHANGED rest
    BY <1>1 DEF Refuse
  <1> HIDE DEF x
  <1>4. Consistent(x)
    BY <1>1, <1>2 DEF Consistent
  <1> QED
    BY <1>2, <1>3, <1>4, RecvStep

LEMMA CollectedInv ==
    ASSUME IInv, NEW r \in Receivers, NEW results \in Seq(Nat) \cup {None},
           Collected(r, results), recv[r].terminal # None,
           study = "reasoner4" =>
               results = [i \in 1 .. recv[r].terminal.files |-> outputs[i].size],
           recv[r].terminal.complete \/ recv[r].terminal.status = "complete" =>
               results = Sizes
    PROVE  IInv'
  <1> DEFINE x == [[recv[r] EXCEPT !.pc = "collected"] EXCEPT !.results = results]
  <1>1. recv[r] \in RecvType /\ Consistent(recv[r]) /\ recv \in [Receivers -> RecvType]
    BY EachConsistent DEF IInv, TypeInv
  <1>2. /\ x \in RecvType /\ x.pc = "collected" /\ x.terminal = recv[r].terminal
        /\ x.results = results /\ x.why = recv[r].why
    BY <1>1 DEF RecvType, RecvPcs
  <1>3. recv' = [recv EXCEPT ![r] = x] /\ UNCHANGED rest
    BY <1>1 DEF Collected
  <1> HIDE DEF x
  <1>4. Consistent(x)
    BY <1>1, <1>2 DEF Consistent
  <1> QED
    BY <1>2, <1>3, <1>4, RecvStep

\* A receiver at work has the terminal object of the bucket.
LEMMA HasTerminal ==
    ASSUME IInv, NEW r \in Receivers, recv[r].terminal # None
    PROVE  recv[r].terminal = bucket.terminal /\ Describes(recv[r].terminal)
           /\ recv[r].terminal \in TerminalType
  BY DEF IInv, RecvInv, TerminalInv, TypeInv, BucketType

LEMMA FetchTerminalInv ==
    ASSUME IInv, NEW r \in Receivers, FetchTerminal(r)
    PROVE  IInv'
  <1>1. recv[r].pc = "terminal"
    BY DEF FetchTerminal
  <1>2. CASE bucket.terminal = None
    BY <1>2, RefuseInv DEF FetchTerminal, Reasons
  <1>3. CASE bucket.terminal # None
    <2> DEFINE x == [[recv[r] EXCEPT !.pc = "results"] EXCEPT !.terminal = bucket.terminal]
    <2>1. /\ recv[r] \in RecvType /\ Consistent(recv[r]) /\ recv \in [Receivers -> RecvType]
          /\ bucket.terminal \in TerminalType
      BY <1>3, EachConsistent DEF IInv, TypeInv, BucketType
    <2>2. /\ x \in RecvType /\ x.pc = "results" /\ x.terminal = bucket.terminal
          /\ x.why = recv[r].why
      BY <2>1 DEF RecvType, RecvPcs
    <2>3. recv' = [recv EXCEPT ![r] = x] /\ UNCHANGED rest
      BY <1>3, <2>1 DEF FetchTerminal
    <2> HIDE DEF x
    <2>4. Consistent(x)
      BY <1>3, <2>1, <2>2 DEF Consistent
    <2> QED
      BY <2>2, <2>3, <2>4, RecvStep
  <1> QED
    BY <1>2, <1>3

LEMMA FetchResultsInv ==
    ASSUME IInv, NEW r \in Receivers, FetchResults(r), study # "reasoner4"
    PROVE  IInv'
  <1> DEFINE t == recv[r].terminal
  <1>1. recv[r].pc = "results" /\ t # None
    BY DEF FetchResults, IInv, RecvInv
  <1>2. t = bucket.terminal /\ Describes(t) /\ t \in TerminalType
    BY <1>1, HasTerminal
  <1>3. t.bootstrap => bucket.bootstrap
    BY <1>2 DEF Describes
  <1>4. t.receipt => /\ bucket.collection # None
                     /\ bucket.collection.transport =>
                           Written(bucket.collection.archive) /\ Rebuilds(bucket.collection)
    BY <1>2 DEF Describes, Rebuildable
  <1>5. t.complete \/ t.status = "complete" =>
           /\ t.receipt /\ bucket.collection.transport
           /\ bucket.collection.archive.files = Sizes
    BY <1>2 DEF Describes, Preserved, Sizes
  <1>6. \/ Collected(r, None) /\ ~(t.receipt /\ bucket.collection.transport)
        \/ /\ t.receipt /\ bucket.collection.transport
           /\ Collected(r, bucket.collection.archive.files)
    BY <1>3, <1>4 DEF FetchResults
  <1>7. CASE Collected(r, None) /\ ~(t.receipt /\ bucket.collection.transport)
    BY <1>1, <1>5, <1>7, CollectedInv
  <1>8. CASE /\ t.receipt /\ bucket.collection.transport
             /\ Collected(r, bucket.collection.archive.files)
    <2>1. bucket.collection.archive.files \in Seq(Nat)
      BY <1>4, <1>8 DEF Written, ArchiveType
    <2> QED
      BY <1>1, <1>5, <1>8, <2>1, CollectedInv
  <1> QED
    BY <1>6, <1>7, <1>8

LEMMA FetchFilesInv ==
    ASSUME IInv, NEW r \in Receivers, FetchFiles(r), study = "reasoner4"
    PROVE  IInv'
  <1> DEFINE t == recv[r].terminal
             sizes == [i \in 1 .. t.files |-> outputs[i].size]
  <1>1. recv[r].pc = "results" /\ t # None
    BY DEF FetchFiles, IInv, RecvInv
  <1>2. t = bucket.terminal /\ Describes(t) /\ t \in TerminalType
    BY <1>1, HasTerminal
  <1>3. /\ t.files = Len(outputs)
        /\ t.uploadFailed \/ \A i \in 1 .. t.files : Has(i, outputs[i].size)
    BY <1>2 DEF Describes
  <1>4. CASE \A i \in 1 .. t.files : Has(i, outputs[i].size)
    <2> DEFINE x == [[recv[r] EXCEPT !.pc = "instance"] EXCEPT !.results = sizes]
    <2>1. recv[r] \in RecvType /\ Consistent(recv[r]) /\ recv \in [Receivers -> RecvType]
      BY EachConsistent DEF IInv, TypeInv
    <2>2. sizes \in Seq(Nat)
      <3>1. Len(outputs) \in Nat /\ \A i \in 1 .. Len(outputs) : outputs[i] \in FileType
        BY DEF IInv, TypeInv
      <3>2. \A i \in 1 .. Len(outputs) : outputs[i].size \in Nat
        BY <3>1 DEF FileType
      <3> QED
        BY <1>3, <3>1, <3>2
    <2>3. recv' = [recv EXCEPT ![r] = x] /\ UNCHANGED rest
      BY <1>4, <2>1 DEF FetchFiles
    <2> HIDE DEF sizes
    <2>4. /\ x \in RecvType /\ x.pc = "instance" /\ x.terminal = t /\ x.results = sizes
          /\ x.why = recv[r].why
      BY <2>1, <2>2 DEF RecvType, RecvPcs
    <2> HIDE DEF x
    <2>5. Consistent(x)
      BY <1>1, <1>2, <2>1, <2>4 DEF Consistent, sizes
    <2> QED
      BY <2>3, <2>4, <2>5, RecvStep
  <1>5. CASE ~ \A i \in 1 .. t.files : Has(i, outputs[i].size)
    BY <1>1, <1>3, <1>5, RefuseInv DEF FetchFiles, Reasons
  <1> QED
    BY <1>4, <1>5

LEMMA ManifestInv ==
    ASSUME IInv, NEW r \in Receivers, Manifest(r), study = "reasoner4"
    PROVE  IInv'
  <1> DEFINE t == recv[r].terminal
  <1>1. /\ recv[r].pc = "manifest" /\ t # None
        /\ recv[r].results = [i \in 1 .. t.files |-> outputs[i].size]
        /\ recv[r].results \in Seq(Nat) \cup {None}
    BY DEF Manifest, IInv, RecvInv, TypeInv, RecvType
  <1>2. t.files = Len(outputs) /\ DOMAIN outputs = 1 .. Len(outputs)
    BY <1>1, HasTerminal DEF Describes, IInv, TypeInv
  <1>3. recv[r].results = Sizes
    BY <1>1, <1>2 DEF Sizes
  <1>4. CASE Collected(r, recv[r].results)
    BY <1>1, <1>3, <1>4, CollectedInv
  <1>5. CASE Refuse(r, "diagnostic")
    BY <1>5, RefuseInv DEF Reasons
  <1> QED
    BY <1>4, <1>5 DEF Manifest

LEMMA BoundReceiveInv ==
    ASSUME IInv, NEW r \in Receivers, BoundReceive(r), study # "reasoner4"
    PROVE  IInv'
  <1>1. CASE Receive(r)
    BY <1>1, MoveInv DEF Receive, Move, RecvPcs
  <1>2. CASE CallFails(r)
    BY <1>2, RefuseInv DEF CallFails, Reasons
  <1>3. CASE Terminated(r, "cleanup")
    BY <1>3, MoveInv, RefuseInv DEF Terminated, Move, RecvPcs, Reasons
  <1>4. CASE CleanedUp(r, "terminal")
    BY <1>4, MoveInv, RefuseInv DEF CleanedUp, Move, RecvPcs, Reasons
  <1>5. CASE FetchTerminal(r)
    BY <1>5, FetchTerminalInv
  <1>6. CASE FetchResults(r)
    BY <1>6, FetchResultsInv
  <1> QED
    BY <1>1, <1>2, <1>3, <1>4, <1>5, <1>6 DEF BoundReceive

\* reasoner4 has its files before it looks at the machine.
LEMMA CleanedUpManifest ==
    ASSUME IInv, NEW r \in Receivers, CleanedUp(r, "manifest"), study = "reasoner4"
    PROVE  IInv'
  <1>1. CASE Move(r, "cleanup", "manifest")
    <2> DEFINE x == [recv[r] EXCEPT !.pc = "manifest"]
    <2>1. recv[r] \in RecvType /\ Consistent(recv[r]) /\ recv \in [Receivers -> RecvType]
      BY EachConsistent DEF IInv, TypeInv
    <2>2. /\ x \in RecvType /\ x.pc = "manifest" /\ x.terminal = recv[r].terminal
          /\ x.results = recv[r].results /\ x.why = recv[r].why
      BY <2>1 DEF RecvType, RecvPcs
    <2>3. recv[r].pc = "cleanup" /\ recv' = [recv EXCEPT ![r] = x] /\ UNCHANGED rest
      BY <1>1, <2>1 DEF Move
    <2> HIDE DEF x
    <2>4. Consistent(x)
      BY <2>1, <2>2, <2>3 DEF Consistent
    <2> QED
      BY <2>2, <2>3, <2>4, RecvStep
  <1>2. CASE Refuse(r, "attached")
    BY <1>2, RefuseInv DEF Reasons
  <1> QED
    BY <1>1, <1>2 DEF CleanedUp

LEMMA RoleCollectInv ==
    ASSUME IInv, NEW r \in Receivers, RoleCollect(r)
    PROVE  IInv'
  <1>1. study = "reasoner4"
    BY DEF RoleCollect
  <1>2. CASE Receive(r)
    BY <1>1, <1>2, MoveInv DEF Receive, Move, RecvPcs
  <1>3. CASE CallFails(r)
    BY <1>3, RefuseInv DEF CallFails, Reasons
  <1>4. CASE FetchTerminal(r)
    BY <1>4, FetchTerminalInv
  <1>5. CASE FetchFiles(r)
    BY <1>1, <1>5, FetchFilesInv
  <1>6. CASE Terminated(r, "cleanup")
    BY <1>6, MoveInv, RefuseInv DEF Terminated, Move, RecvPcs, Reasons
  <1>7. CASE CleanedUp(r, "manifest")
    BY <1>1, <1>7, CleanedUpManifest
  <1>8. CASE Manifest(r)
    BY <1>1, <1>8, ManifestInv
  <1> QED
    BY <1>2, <1>3, <1>4, <1>5, <1>6, <1>7, <1>8 DEF RoleCollect

--------------------------------------------------------------------------------
(* Every step.                                                              *)

LEMMA NextInv == IInv /\ [Next]_vars => IInv'
  <1> SUFFICES ASSUME IInv, [Next]_vars PROVE IInv'
    OBVIOUS
  <1>1. CASE Host
    <2>1. CASE Start
      BY <2>1, StartInv
    <2>2. CASE Zero4Host \/ StudyHost \/ CoverageHost
      <3>1. PartHost /\ study \in PartStudies
        BY <2>2 DEF Zero4Host, StudyHost, CoverageHost, PartStudies
      <3> QED
        BY <3>1, PutBootstrapInv, ArchiveFileInv, ArchiveEndsInv, ArchiveFailsInv,
           UploadPartsInv, PutCollectionInv, PutTerminalInv DEF PartHost, ArchiveOutputs
    <2>3. CASE SolomonHost \/ WeightHost
      <3>1. ObjectHost /\ study \in ObjectStudies
        BY <2>3 DEF SolomonHost, WeightHost, ObjectStudies
      <3> QED
        BY <3>1, PutBootstrapInv, ArchiveFileInv, ArchiveEndsInv, ArchiveFailsInv,
           UploadObjectInv, PutCollectionInv, PutTerminalInv DEF ObjectHost, ArchiveOutputs
    <2>4. CASE RoleHost
      BY <2>4, PutFilesInv, PutTerminalInv DEF RoleHost
    <2>5. CASE Shutdown
      BY <2>5, ShutdownInv
    <2> QED
      BY <1>1, <2>1, <2>2, <2>3, <2>4, <2>5 DEF Host
  <1>2. CASE Released
    BY <1>2, Elsewhere DEF Released, IInv, TypeInv
  <1>3. CASE Tick
    <2>1. left' \in Int /\ UNCHANGED <<study, outputs, exit, host, bucket, recv>>
      BY <1>3, CloudCollectAssumption DEF Tick, elsewhere
    <2> QED
      BY <2>1, Elsewhere
  <1>4. ASSUME NEW r \in Receivers, Collector(r) PROVE IInv'
    <2>1. CASE RoleCollect(r)
      BY <2>1, RoleCollectInv
    <2>2. CASE ~RoleCollect(r)
      <3>1. BoundReceive(r) /\ study # "reasoner4"
        BY <1>4, <2>2 DEF Collector, Zero4Receive, StudyReceive, CoverageReceive,
                          SolomonReceive, WeightReceive
      <3> QED
        BY <3>1, BoundReceiveInv
    <2> QED
      BY <2>1, <2>2
  <1>5. CASE UNCHANGED vars
    BY <1>5, Elsewhere DEF vars, IInv, TypeInv
  <1> QED
    BY <1>1, <1>2, <1>3, <1>4, <1>5 DEF Next

\* The bucket, the host and every receiver at each point of a collection.
THEOREM CollectionInductive == Spec => []IInv
  <1> QED
    BY InitInv, NextInv, PTL DEF Spec

\* A terminal object that says complete is true: the controller succeeded and
\* every byte it left is in the bucket, whatever was cut off, refused or stored
\* without an answer on the way.
THEOREM TerminalCorrect == Spec => []TerminalTruthful
  <1>1. IInv => TerminalTruthful
    BY DEF IInv, TerminalInv, Describes, TerminalTruthful
  <1> QED
    BY <1>1, CollectionInductive, PTL

\* Whatever part is stored, the stored receipt names it, as uploaded or pending.
THEOREM NamedCorrect == Spec => []UploadsNamed
  <1>1. IInv => UploadsNamed
    BY DEF IInv
  <1> QED
    BY <1>1, CollectionInductive, PTL

\* What a receiver calls complete is every output at its full length.
THEOREM CollectedCorrect == Spec => []CollectedIsWhole
  <1>1. IInv => CollectedIsWhole
    BY DEF IInv
  <1> QED
    BY <1>1, CollectionInductive, PTL

\* No receiver refuses objects that a host has described, for any outputs,
\* ceilings and part sizes.
THEOREM CollectableCorrect == Spec => []Collectable
  <1>1. IInv => Collectable
    BY DEF IInv
  <1> QED
    BY <1>1, CollectionInductive, PTL
=================================================================================
