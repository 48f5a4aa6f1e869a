--------------------------- MODULE DurableDocument ---------------------------
(***************************************************************************)
(* What the durable store promises: one document that changes only by the  *)
(* changes callers ask for, one at a time and each entirely or not at all, *)
(* whose generations and epochs never go back.  Files, sequence numbers,   *)
(* compaction, torn writes and crashes cannot be told from it.             *)
(***************************************************************************)
EXTENDS Document

CONSTANT NoDocument

VARIABLE doc    \* what a reader that opened the store now would find

Create ==
    /\ doc = NoDocument
    /\ doc' = FirstContent

\* Install a newer topology, or a policy that is not older.
DefineTopology(generation) ==
    /\ generation > doc.topology
    /\ doc' = Applied(doc, "Topology", generation)

DefinePolicy(generation) ==
    /\ generation >= doc.policy
    /\ doc' = Applied(doc, "Policy", generation)

\* Commit a fence that is ahead of the committed one.
Commit(fence) ==
    /\ fence.generation >= doc.fence.generation
    /\ fence.epoch >= HighWater(doc)
    /\ doc' = Seen(Applied(doc, "Fence", fence))

Trace(sequence) ==
    /\ sequence > doc.lineage
    /\ doc' = Applied(doc, "Lineage", sequence)

Publish(key) == doc' = Applied(doc, "Upsert", key)

Retract(key) ==
    /\ Known(doc, key)
    /\ doc' = Applied(doc, "Withdraw", key)

\* A new incarnation, under an epoch no earlier one had.
Restart(epoch) ==
    /\ epoch > HighWater(doc)
    /\ doc' = Seen(Applied(doc, "Boot", epoch))

\* Only the last incarnation can report its clean end.
Shutdown == doc' = Applied(doc, "Note", Len(doc.boots))

\* The number that an implementation commits next: not bounded here.
ContractNext ==
    \/ Create
    \/ /\ doc # NoDocument
       /\ \/ DefineTopology(doc'.topology)
          \/ DefinePolicy(doc'.policy)
          \/ Commit(doc'.fence)
          \/ Trace(doc'.lineage)
          \/ \E key \in Key : Publish(key) \/ Retract(key)
          \/ Restart(doc'.fence.epoch)
          \/ Shutdown

Contract == doc = NoDocument /\ [][ContractNext]_doc

==============================================================================
