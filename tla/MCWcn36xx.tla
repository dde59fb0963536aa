------------------------------ MODULE MCWcn36xx ------------------------------
(* Small instances of Wcn36xx.                                              *)
EXTENDS Wcn36xx

(* All rates of a band, no 1 Mbit/s, a gap at 5.5 Mbit/s.                 *)
MCMasks == {0 .. 11, 0 .. 7, 1 .. 11, (0 .. 11) \ {2}}

(* The faults the properties withstand; the README tells of the others.     *)
MCFaults == {"start", "init_scan", "start_scan", "bmps", "offload"}
=============================================================================
