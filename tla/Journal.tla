------------------------------ MODULE Journal ------------------------------
(***************************************************************************)
(* The transactional, journaled DurableStore of persistence.cpp: a file    *)
(* that holds one snapshot record and the journal records appended after   *)
(* it, and the copy of the document an open store keeps in memory.         *)
(*                                                                         *)
(* The process may end at any instant: before, within or after the write   *)
(* of a record, between a compaction and the append that asked for it,     *)
(* between the truncation of a torn tail and the boot record.  What the    *)
(* disk holds then is a prefix of the frames written.  When AppendMayFail, *)
(* a write or its sync may also fail with the process going on, and bytes  *)
(* of the frame, or all of them, may be in the file nevertheless; when     *)
(* ReplaceMayFail, the atomic replace of the file may fail.                *)
(*                                                                         *)
(* A caller is the runtime: it withdraws only the findings it holds, and   *)
(* commits only fences that do not go back.  Compact stands for the public *)
(* entry point and for the compaction the byte bound asks for.             *)
(***************************************************************************)
EXTENDS Document

CONSTANTS
    NoDocument,
    MaxJournalRecords,  \* limits.max_journal_records
    MaxFindings,        \* limits.max_retained_findings
    MaxBoots,           \* limits.max_boot_records
    AppendMayFail, ReplaceMayFail,
    MaxDefinition,      \* bound: topology and policy generations
    MaxFence,           \* bound: generation of the committed fence
    MaxLineage,         \* bound: lineage records
    MaxEpoch,           \* bound: epochs handed out or committed
    MaxStoreGeneration  \* bound: compactions, by hand or by the bound

ASSUME JournalAssumption ==
    /\ {MaxJournalRecords, MaxFindings, MaxBoots} \subseteq Nat \ {0}
    /\ AppendMayFail \in BOOLEAN /\ ReplaceMayFail \in BOOLEAN
    /\ {MaxDefinition, MaxFence, MaxLineage, MaxEpoch, MaxStoreGeneration} \subseteq Nat
    /\ NoDocument \notin Content

VARIABLES
    file,       \* the frames on disk; << >>: there is no file
    open,       \* the store holds the file's handle
    mem,        \* state_: the document in memory
    gen,        \* state_.store_generation
    next,       \* next_sequence_
    records,    \* journal_records_
    identity,   \* the epoch a caller last acted under (0: none)
    held        \* the findings the runtime above the store holds

vars == <<file, open, mem, gen, next, records, identity, held>>

Frame(type, sequence, generation, body) ==
    [type |-> type, seq |-> sequence, gen |-> generation, body |-> body]

\* The start of a frame whose remaining bytes never reached the disk.
Torn == Frame("Torn", 1, 1, 0)

-----------------------------------------------------------------------------
(* Reading a file.                                                         *)

\* The file up to its torn tail.
Whole(f) == IF f # << >> /\ f[Len(f)].type = "Torn"
            THEN SubSeq(f, 1, Len(f) - 1)
            ELSE f

\* The document after each frame of f.
Replays(f) ==
    LET after[i \in DOMAIN f] ==
          IF i = 1 THEN f[1].body
          ELSE Applied(after[i - 1], f[i].type, f[i].body)
    IN  after

Replay(f) == Replays(f)[Len(f)]

\* decode_store_state accepts the collections of a snapshot.
Decodes(doc) ==
    /\ Len(doc.boots) <= MaxBoots
    /\ Len(doc.findings) <= MaxFindings

\* The frames are one snapshot and the journal that continues it.
Continuous(f) ==
    /\ f[1].type = "Snapshot" /\ f[1].seq = 1
    /\ \A i \in 2..Len(f) : /\ f[i].type \in Change
                            /\ f[i].gen = f[1].gen
                            /\ f[i].seq = i

\* open_or_create accepts the frames, but for their number.
WellFormed(f) ==
    /\ Continuous(f)
    /\ Decodes(f[1].body)
    /\ \A i \in 2..Len(f) : Applicable(Replays(f)[i - 1], f[i].type, f[i].body)

-----------------------------------------------------------------------------
(* Writing a file.                                                         *)

\* Mutant: findings that were withdrawn are left out of the snapshot.
SnapshotOfLive(doc, generation) ==
    Frame("Snapshot", 1, generation,
          [doc EXCEPT !.findings = SelectSeq(@, LAMBDA e : ~ e.withdrawn)])

\* The snapshot record of the document in memory.
Snapshot(doc, generation) == Frame("Snapshot", 1, generation, doc)

\* Mutant: the bound is applied one finding early.
RememberedShort(doc, type, body) ==
    LET after == Applied(doc, type, body)
    IN  IF type = "Upsert" /\ Len(after.findings) >= MaxFindings
        THEN [after EXCEPT !.findings = Tail(@)]
        ELSE after

\* What one change makes of the document in memory: only here are findings
\* beyond the bound dropped, the oldest first.
Remembered(doc, type, body) ==
    LET after == Applied(doc, type, body)
        surplus == Len(after.findings) - MaxFindings
    IN  IF type = "Upsert" /\ surplus > 0
        THEN [after EXCEPT !.findings = SubSeq(@, surplus + 1, Len(@))]
        ELSE after

\* append_payload compacts before it appends, and only past the bound.
Compacting == records > MaxJournalRecords

\* The file, the generation and the numbers of records the next append uses.
\* Mutant: compaction goes on with the old sequence numbers.
TargetUnnumbered ==
    IF Compacting
    THEN [file |-> <<Snapshot(mem, gen + 1)>>, gen |-> gen + 1,
          next |-> next, records |-> 1]
    ELSE [file |-> file, gen |-> gen, next |-> next, records |-> records]

Target ==
    IF Compacting
    THEN [file |-> <<Snapshot(mem, gen + 1)>>, gen |-> gen + 1,
          next |-> 2, records |-> 1]
    ELSE [file |-> file, gen |-> gen, next |-> next, records |-> records]

\* What an append that does not complete can leave on disk.
Remnants(f, frame) == {f, Append(f, Torn), Append(f, frame)}

\* The process ends: its memory goes.
Ended ==
    /\ open' = FALSE
    /\ mem' = FirstContent /\ gen' = 1 /\ next' = 1 /\ records' = 0
    /\ held' = {}
    /\ UNCHANGED identity

\* append_payload, and what its caller does with the outcome: the change is
\* published in memory only when the record is durable.
AppendPayload(type, body, holding) ==
    LET target == Target
        frame == Frame(type, target.next, target.gen, body)
    IN  /\ open
        /\ target.gen <= MaxStoreGeneration
        /\ \/ /\ file' = Append(target.file, frame)
              /\ gen' = target.gen
              /\ next' = target.next + 1
              /\ records' = target.records + 1
              /\ mem' = Remembered(mem, type, body)
              /\ held' = holding
              /\ identity' = IF type = "Fence" THEN body.epoch ELSE identity
              /\ UNCHANGED open
           \/ /\ file' \in Remnants(target.file, frame)
              /\ Ended
           \/ /\ AppendMayFail
              /\ file' \in Remnants(target.file, frame)
              /\ gen' = target.gen
              /\ next' = target.next
              /\ records' = target.records
              /\ UNCHANGED <<open, mem, identity, held>>
           \/ /\ ReplaceMayFail /\ Compacting
              /\ gen' = gen + 1
              /\ UNCHANGED <<file, open, mem, next, records, identity, held>>

-----------------------------------------------------------------------------
Init ==
    /\ file = << >> /\ open = FALSE
    /\ mem = FirstContent /\ gen = 1 /\ next = 1 /\ records = 0
    /\ identity = 0 /\ held = {}

\* open_or_create without a document: the first snapshot already holds the
\* first boot, and replaces the path atomically.
Create ==
    /\ ~ open /\ file = << >>
    /\ file' = <<Snapshot(FirstContent, 1)>>
    /\ \/ /\ open' = TRUE
          /\ mem' = FirstContent /\ gen' = 1 /\ next' = 2 /\ records' = 1
          /\ identity' = 1 /\ held' = {}
       \/ Ended

\* The epoch a boot is minted under.
\* Mutant: the boot ledger is not looked at.
MintedFromFence(doc) == doc.fence.epoch + 1

Minted(doc) == HighWater(doc) + 1

\* open_or_create with one: recover, truncate the torn tail, mint a new
\* incarnation and make its boot record durable before it is used.
Open ==
    LET whole == Whole(file)
        doc == Replay(whole)
        epoch == Minted(doc)
        boot == Frame("Boot", Len(whole) + 1, whole[1].gen, epoch)
    IN  /\ ~ open /\ file # << >>
        /\ Len(whole) <= MaxJournalRecords
        /\ WellFormed(whole)
        /\ epoch <= MaxEpoch
        /\ \/ /\ file' = Append(whole, boot)
              /\ open' = TRUE
              /\ mem' = [Applied(doc, "Boot", epoch) EXCEPT !.fence.epoch = epoch]
              /\ gen' = whole[1].gen
              /\ next' = Len(whole) + 2
              /\ records' = Len(whole) + 1
              /\ identity' = epoch
              /\ held' = {doc.findings[i].key : i \in DOMAIN doc.findings}
           \/ file' \in Remnants(whole, boot) /\ Ended

SetTopology(generation) ==
    generation > mem.topology /\ AppendPayload("Topology", generation, held)

SetPolicy(generation) ==
    generation >= mem.policy /\ AppendPayload("Policy", generation, held)

AdvanceFence(fence) ==
    /\ fence.generation >= mem.fence.generation
    /\ fence.epoch >= mem.fence.epoch
    /\ AppendPayload("Fence", fence, held)

AppendLineage ==
    mem.lineage < MaxLineage /\ AppendPayload("Lineage", mem.lineage + 1, held)

UpsertFinding(key) == AppendPayload("Upsert", key, held \cup {key})

\* The record is appended whether or not the document knows the finding.
WithdrawFinding(key) == key \in held /\ AppendPayload("Withdraw", key, held)

\* compact: rewrite the document as one snapshot.
Compact ==
    /\ open /\ gen < MaxStoreGeneration
    /\ \/ /\ file' = <<Snapshot(mem, gen + 1)>>
          /\ gen' = gen + 1 /\ next' = 2 /\ records' = 1
          /\ UNCHANGED <<open, mem, identity, held>>
       \/ /\ file' = <<Snapshot(mem, gen + 1)>>
          /\ Ended
       \/ /\ ReplaceMayFail
          /\ gen' = gen + 1
          /\ UNCHANGED <<file, open, mem, next, records, identity, held>>

\* close(clean): the shutdown marker of this boot, then the handle goes,
\* whatever became of the marker.
Close ==
    LET frame == Frame("Note", Target.next, Target.gen, Len(mem.boots))
    IN  /\ open /\ Target.gen <= MaxStoreGeneration
        /\ \/ file' \in Remnants(Target.file, frame)
           \/ ReplaceMayFail /\ Compacting /\ UNCHANGED file
        /\ Ended

\* The process ends between two operations, or closes without a marker.
Crash == open /\ Ended /\ UNCHANGED file

Next ==
    \/ Create
    \/ Open
    \/ \E generation \in 1..MaxDefinition : SetTopology(generation)
    \/ \E generation \in 1..MaxDefinition : SetPolicy(generation)
    \/ \E fence \in [generation : 1..MaxFence, epoch : 1..MaxEpoch] :
          AdvanceFence(fence)
    \/ AppendLineage
    \/ \E key \in Key : UpsertFinding(key)
    \/ \E key \in Key : WithdrawFinding(key)
    \/ Compact
    \/ Close
    \/ Crash

Spec == Init /\ [][Next]_vars

-----------------------------------------------------------------------------
(* Properties.                                                             *)

\* What an open store says is what a reader of its file would find: nothing
\* is published before it is durable, nothing durable is forgotten
\* (append_payload, "Flush and sync before the mutation is published").
MemoryIsTheDocument ==
    open => /\ file[Len(file)].type # "Torn"
            /\ Seen(mem) = Seen(Replay(file))

\* Whatever operations, compactions, crashes and torn writes came before,
\* the next open accepts every record on disk (but for their number, see
\* Reopens): numbering, store generation, bounds and order all fit.
DocumentIsWellFormed == file # << >> => WellFormed(Whole(file))

\* ... and the number of records does not keep the next open out either.
Reopens ==
    ~ open /\ file # << >> =>
        /\ Len(Whole(file)) <= MaxJournalRecords
        /\ WellFormed(Whole(file))

\* No epoch a caller acted under, minted or committed, is handed out again,
\* however its holder ended: open_or_create mints above every epoch the
\* document recorded, and returns only once the new one is recorded.
IdentityIsFresh == [][~ open /\ open' => identity' > identity]_vars

\* Seen from its readers the file is one document, changed atomically.
Abstract == INSTANCE DurableDocument WITH
    doc <- IF file = << >> THEN NoDocument ELSE Seen(Replay(Whole(file)))

\* The journal implements the document the runtime relies on: each step of
\* it, a crash at any instant and a recovery included, is one change of the
\* contract or none.
ImplementsDurableDocument == Abstract!Contract

=============================================================================
