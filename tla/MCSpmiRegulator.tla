------------------------------ MODULE MCSpmiRegulator ------------------------------
(* Small instances of SpmiRegulator.                                       *)
EXTENDS SpmiRegulator

Device(type, subtype, rev) == [type |-> type, subtype |-> subtype, rev |-> rev]

(* One device of every layout and every table with a trimmed range.        *)
MCDevices ==
  {Device(LDO, \h0b, 0), Device(LDO, \h03, 0), Device(BUCK, \h08, 0),
   Device(FTS, \h08, 0), Device(FTS, \h09, 0), Device(FTS, \h0a, 0), Device(FTS, \h0b, 0),
   Device(BUCK, \h0a, 3), Device(BUCK, \h0a, 4), Device(BOOST_BYP, \h01, 0), Device(ULT_BUCK, \h0d, 0),
   Device(ULT_BUCK, \h10, 0), Device(ULT_LDO, \h28, 0), Device(VS, \h11, 0)}

(* The low-noise and the N600/N1200 rails, as this tablet's PM8941 has.     *)
MCGaps == {Device(LDO, \h10, 0), Device(LDO, \h05, 0), Device(LDO, \h05, 1)}

(* Nothing said; a pin for each, and a limit at the end of its step; the   *)
(* rails of the CPUs.                                                      *)
MCConfigs == {[enable |-> {4}, hpm |-> {5}, soft |-> 4, ilim |-> 0, saw |-> saw] :
                saw \in {"none", "leader", "slave"}} \cup
             {[enable |-> {0}, hpm |-> {0}, soft |-> 1, ilim |-> 3500, saw |-> "none"]}

MCStepCtrls == {[step |-> 3, delay |-> 0], [step |-> 1, delay |-> 7]}
==============================================================================
