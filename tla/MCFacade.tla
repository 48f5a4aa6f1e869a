------------------------------ MODULE MCFacade ------------------------------
(* Two threads, each with a few calls; observers read and replace themselves. *)
EXTENDS Facade

CONSTANTS t1, t2, o1

AllCalls == Names \ {"callback"}
FromObservers == {"find", "observe"}

=============================================================================
