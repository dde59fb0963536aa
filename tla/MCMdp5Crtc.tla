------------------------------ MODULE MCMdp5Crtc ------------------------------
(* Small instances of Mdp5Crtc.                                            *)
EXTENDS Mdp5Crtc

(* The FLUSH register of msm8x74v2 has no TIMING bits.                     *)
MCFlushHwMask == {"PIPE", "LM", "CTL"}
==============================================================================
