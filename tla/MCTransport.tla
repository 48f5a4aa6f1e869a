----------------------------- MODULE MCTransport -----------------------------
(***************************************************************************)
(* Four frames, the third longer than the kernel can hold; headers of two *)
(* units, so that a send can be given up inside one.                       *)
(***************************************************************************)
EXTENDS Transport

MCSize == <<4, 3, 6, 4>>
==============================================================================
