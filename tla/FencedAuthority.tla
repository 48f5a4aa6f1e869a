--------------------------- MODULE FencedAuthority ---------------------------
(***************************************************************************)
(* What the runtime promises its callers, without saying how: a finding    *)
(* carries authority only under the fence it was published at; every move  *)
(* of the fence, and every stop, revokes all of them in the same step;     *)
(* only a finding that carries authority can read as contained; and an     *)
(* incarnation is new.                                                     *)
(***************************************************************************)
EXTENDS FenceVector

CONSTANT FindingId

VARIABLES
    current,    \* the fence vector in force, or last in force while stopped
    live,       \* the findings that carry authority
    contained,  \* those of them whose containment reads as verified
    running     \* an incarnation is running

contractVars == <<current, live, contained, running>>

ContractInit ==
    current \in Fence /\ live = {} /\ contained = {} /\ running \in BOOLEAN

\* A confirmed loop becomes a finding; it is not contained yet.
Publish(id) ==
    /\ id \notin live
    /\ live' = live \cup {id}
    /\ UNCHANGED <<current, contained, running>>

\* The targets of a request were all seen to be contained.
Verify(id) ==
    /\ id \in live
    /\ contained' = contained \cup {id}
    /\ UNCHANGED <<current, live, running>>

\* A new request, or a later answer to one, reads as unverified again.
Unverify(id) ==
    /\ id \in live
    /\ contained' = contained \ {id}
    /\ UNCHANGED <<current, live, running>>

\* The owner withdraws one finding.
Withdraw(id) ==
    /\ id \in live
    /\ live' = live \ {id}
    /\ contained' = contained \ {id}
    /\ UNCHANGED <<current, running>>

\* The fence moves forward in one or more components: nothing carries
\* authority afterwards.
Revoke ==
    /\ current' \in Fence /\ Dominates(current', current)
    /\ live' = {} /\ contained' = {}
    /\ UNCHANGED running

\* The incarnation stops, and its authority with it.
Stop ==
    /\ running' = FALSE
    /\ live' = {} /\ contained' = {}
    /\ UNCHANGED current

\* Another one starts, under a boot and a coordinator epoch that none before
\* it ran under, epochs advanced without a restart included.
Start ==
    /\ ~ running /\ running' = TRUE
    /\ current' \in Fence /\ Dominates(current', current)
    /\ current'.boot > current.boot /\ current'.epoch > current.epoch
    /\ live' = {} /\ contained' = {}

ContractNext ==
    \/ \E id \in FindingId :
          Publish(id) \/ Verify(id) \/ Unverify(id) \/ Withdraw(id)
    \/ Revoke \/ Stop \/ Start

Contract == ContractInit /\ [][ContractNext]_contractVars

==============================================================================
