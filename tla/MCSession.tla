------------------------------ MODULE MCSession ------------------------------
(***************************************************************************)
(* An operator that goes through detection, publication, planning and      *)
(* authorization; one that moves the fence, after an observation or with   *)
(* --as-worker too; a worker; a stray peer that claims the session of the  *)
(* first.                                                                  *)
(***************************************************************************)
EXTENDS Session, TLC

CONSTANTS o1, o2, w, x

MCOperator == {o1, o2}
MCAsWorker == {o2}
MCWorker == {w}
MCStray == {x}
MCClaims == (o1 :> 1) @@ (o2 :> 2) @@ (w :> 3) @@ (x :> 1)
MCScripts ==
    (o1 :> {<<"DetectRequest", "FindingPublish", "PlanRequest",
              "ContainAuthorize">>, <<"SetTopology", "SetPolicy">>})
        @@ (o2 :> {<<"SubmitObservation", "FenceAdvance">>,
                   <<"FindingWithdraw">>})
        @@ (w :> {<<"SubmitObservation">>})
==============================================================================
