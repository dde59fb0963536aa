-------------------------------- MODULE Mdp5Ctl --------------------------------
(***************************************************************************)
(* A CTL of the MDP5: the unit that makes the hardware take over registers *)
(* which software has programmed (mdp5_ctl.c).  Writing a block's bit to   *)
(* the FLUSH register lets the next vsync latch that block.  The driver    *)
(* holds bits back while a modeset is under way, and adds the bit of the   *)
(* CTL's own layer registers when a block they wait for is flushed.        *)
(***************************************************************************)
EXTENDS Naturals, FiniteSets

CONSTANT FlushHwMask   \* FLUSH bits this hardware has

(* The blocks of one half of the screen: the pipes' registers, the mixer's *)
(* and the CTL's layer registers.  TIMING is the bit of the interface.     *)
Blocks == {"PIPE", "LM", "CTL"}
Bits   == Blocks \cup {"TIMING"}

ASSUME FlushAssumption == Blocks \subseteq FlushHwMask /\ FlushHwMask \subseteq Bits

CtlState == [flush_mask : SUBSET FlushHwMask, pending_ctl_trigger : SUBSET Bits]

FreshCtl == [flush_mask |-> {}, pending_ctl_trigger |-> {}]

(* mdp5_ctl_blend(): the layer registers are to be flushed with the mixer. *)
mdp5_ctl_blend(c) == [c EXCEPT !.pending_ctl_trigger = {"LM"}]

(* Mutant: bits this hardware does not have are written too.               *)
FlushBits_Unmasked(c, mask) ==
  mask \cup {b \in {"CTL"} : c.pending_ctl_trigger \cap mask # {}}

(* The bits a commit flushes, and returns to its caller.                   *)
FlushBits(c, mask) ==
  (mask \cup {b \in {"CTL"} : c.pending_ctl_trigger \cap mask # {}}) \cap FlushHwMask

TriggerLeft(c, mask) ==
  IF c.pending_ctl_trigger \cap mask # {} THEN {} ELSE c.pending_ctl_trigger

(* What mdp5_ctl_commit() writes to FLUSH.                                 *)
Flushed(c, mask, start) ==
  IF start THEN FlushBits(c, mask) \cup c.flush_mask ELSE {}

(* Mutant: bits held back are forgotten at the next commit.                *)
mdp5_ctl_commit_Forgets(c, mask, start) ==
  [flush_mask |-> {}, pending_ctl_trigger |-> TriggerLeft(c, mask)]

(* mdp5_ctl_commit(): what it leaves in the CTL.                           *)
mdp5_ctl_commit(c, mask, start) ==
  [flush_mask |-> IF start THEN {} ELSE c.flush_mask \cup FlushBits(c, mask),
   pending_ctl_trigger |-> TriggerLeft(c, mask)]

==============================================================================
