------------------------------ MODULE Document ------------------------------
(***************************************************************************)
(* The content of the durable document (StoreState) and what one journal   *)
(* record does to it.  A topology or policy definition is its generation;  *)
(* the four components of the committed fence that are not the process     *)
(* identity are one generation; a finding is its identity and whether it   *)
(* is withdrawn; the boot of a ledger entry is its position.               *)
(* Retained lineage is its last sequence number.                           *)
(***************************************************************************)
EXTENDS Naturals, Sequences, FiniteSetsExt

CONSTANT Key    \* the identities of findings

Boot == [epoch : Nat, clean : BOOLEAN]
Entry == [key : Key, withdrawn : BOOLEAN]

Content == [topology : Nat,
            policy : Nat,
            fence : [generation : Nat, epoch : Nat],
            lineage : Nat,
            findings : Seq(Entry),
            boots : Seq(Boot)]

\* The types of the records that change the document, in open_or_create's order.
Change == {"Topology", "Policy", "Lineage", "Upsert", "Withdraw", "Boot",
           "Note", "Fence"}

Known(doc, key) == \E i \in DOMAIN doc.findings : doc.findings[i].key = key

\* The largest epoch the document knows: what the next boot has to exceed.
HighWater(doc) ==
    Max({doc.fence.epoch} \cup {doc.boots[i].epoch : i \in DOMAIN doc.boots})

Upsert(findings, key) ==
    LET entry == [key |-> key, withdrawn |-> FALSE]
    IN  IF \E i \in DOMAIN findings : findings[i].key = key
        THEN [i \in DOMAIN findings |->
                IF findings[i].key = key THEN entry ELSE findings[i]]
        ELSE Append(findings, entry)

Withdraw(findings, key) ==
    [i \in DOMAIN findings |->
        IF findings[i].key = key
        THEN [findings[i] EXCEPT !.withdrawn = TRUE]
        ELSE findings[i]]

\* The replay of a record is refused otherwise.
Applicable(doc, type, body) ==
    /\ type = "Lineage" => body > doc.lineage
    /\ type = "Withdraw" => Known(doc, body)
    /\ type = "Note" => body \in DOMAIN doc.boots

\* What the replay of one record makes of the document.
Applied(doc, type, body) ==
    CASE type = "Topology" -> [doc EXCEPT !.topology = body]
      [] type = "Policy" -> [doc EXCEPT !.policy = body]
      [] type = "Lineage" -> [doc EXCEPT !.lineage = body]
      [] type = "Upsert" -> [doc EXCEPT !.findings = Upsert(@, body)]
      [] type = "Withdraw" -> [doc EXCEPT !.findings = Withdraw(@, body)]
      [] type = "Boot" ->
            [doc EXCEPT !.boots = Append(@, [epoch |-> body, clean |-> FALSE])]
      [] type = "Note" -> [doc EXCEPT !.boots[body].clean = TRUE]
      [] type = "Fence" -> [doc EXCEPT !.fence = body]

\* A fresh document: every generation 1, and its first boot inside it.
FirstContent == [topology |-> 0,
                 policy |-> 0,
                 fence |-> [generation |-> 1, epoch |-> 1],
                 lineage |-> 0,
                 findings |-> << >>,
                 boots |-> << [epoch |-> 1, clean |-> FALSE] >>]

\* The document as its readers see it: of the committed epoch they use only
\* how far epochs were handed out.
Seen(doc) == [doc EXCEPT !.fence.epoch = HighWater(doc)]

=============================================================================
