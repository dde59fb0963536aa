------------------------------ MODULE SpmiRegulator ------------------------------
(***************************************************************************)
(* One regulator of a PMIC on the SPMI bus (qcom_spmi-regulator.c): found  *)
(* by its type registers, registered, and then driven by the regulator     *)
(* core.  A rail is asked for voltages, loads, modes and bypass; a switch  *)
(* is enabled and disabled while its over-current interrupt and the        *)
(* delayed retry clear it, on other CPUs and without a lock.               *)
(***************************************************************************)
EXTENDS SpmiVoltages, FiniteSets

CONSTANTS
  Devices,      \* [type, subtype, rev]: what sits on the bus, or is said to by force_type
  StepCtrls,    \* values of STEP_CTRL: [step, delay]
  Configs,      \* what the device tree may say of a rail
  MaxRetries,   \* ocp_max_retries
  Disables,     \* switching off during a retry: idle (never) or any
  SawFaults     \* of a rail the SAW drives: "range" (boot software leaves it in
                \* any range), "late" (a change is not seen in time)

ASSUME SpmiAssumption ==
  /\ \A d \in Devices : spmi_regulator_match(d.type, d.subtype, d.rev) # << >>
  /\ StepCtrls \subseteq [step : 0 .. 3, delay : 0 .. 7]
  /\ Configs \subseteq [enable : SUBSET (0 .. 4), hpm : SUBSET (0 .. 5), soft : 0 .. 4, ilim : Nat,
                         saw : {"none", "leader", "slave"}]
  /\ SawFaults \subseteq {"range", "late"}
  /\ MaxRetries \in Nat \ {0}
  /\ Disables \in {"idle", "any"}

MaxShorts == 2 * MaxRetries + 3   \* bound: trips of the switch

VARIABLES
  phase,    \* of the driver: off, up, failed, or left alone
  row,      \* the row of supported_regulators[] it matched
  reg,      \* the registers: range, vset or millivolts, mode, bypass, steps,
            \* the pins that mode and enable follow, soft start and current limit
  slew,     \* slew_rate, and the step of the range it was computed in
  want,     \* the last granted request, the last mode asked for, the device tree
  vs,       \* the switch: on, tripped, the driver's count and clock, shorts
  isr,      \* where the over-current interrupt is, and the count it read
  work      \* the delayed retry: queued, and where it is when it runs

regulatorVars == <<phase, row, reg, slew, want, vs, isr, work>>

pts == set_points[row.points]

(* A rail of the CPUs may be driven by the SAW instead of the bus; others   *)
(* follow it.                                                              *)
Leader == want.dt.saw = "leader"

(* Where the operations put a voltage.                                     *)
Layout ==
  CASE row.ops \in {"smps", "ldo", "ln_ldo", "ftsmps"} -> "range"
    [] row.ops \in {"boost", "ult_ho_smps", "ult_ldo"} -> "single"
    [] row.ops = "ult_lo_smps" -> "split"
    [] row.ops \in {"ftsmps426", "hfs430", "hfsmps"} -> "mv"
    [] OTHER -> "none"

HasTime == row.ops \in {"smps", "ftsmps", "ult_lo_smps", "ult_ho_smps", "ftsmps426", "hfs430", "hfsmps"}
HasLoad == row.ops \in {"smps", "ldo", "ftsmps", "ult_lo_smps", "ult_ho_smps", "ult_ldo", "ftsmps426", "hfsmps"}
HasMode == HasLoad \/ row.ops \in {"vs", "hfs430"}
HasBypass == row.ops \in {"ldo", "ln_ldo", "ult_ldo"}
LowMode == row.ops \in {"ftsmps426", "hfs430", "hfsmps"}

(***************************************************************************)
(* Voltages.                                                               *)
(***************************************************************************)
ULT_SMPS_RANGE_SPLIT == \h60

(* The range the range register selects; 0 when the table has none.        *)
spmi_regulator_find_range ==
  LET known == {i \in DOMAIN pts : pts[i].range_sel = reg.range}
  IN IF known = {} THEN 0 ELSE Min(known)

(* What the rail puts out.                                                 *)
OutUV ==
  CASE Layout = "range" -> LET i == spmi_regulator_find_range
                           IN IF i = 0 THEN -1 ELSE pts[i].min + reg.vset * pts[i].step
    [] Layout = "single" -> pts[1].min + reg.vset * pts[1].step
    [] Layout = "split" -> IF reg.vset < ULT_SMPS_RANGE_SPLIT THEN pts[1].min + reg.vset * pts[1].step
                           ELSE pts[2].min + (reg.vset - ULT_SMPS_RANGE_SPLIT) * pts[2].step
    [] Layout = "mv" -> reg.vset * 1000
    [] OTHER -> 0

List(sel) == spmi_regulator_common_list_voltage(pts, sel)

MapVoltage(lo, hi) ==
  CASE Layout = "range" -> LET i == spmi_regulator_find_range
                           IN spmi_regulator_select_voltage_same_range(pts, i # 0, pts[Max({i, 1})], lo, hi)
    [] Layout \in {"single", "mv"} -> spmi_regulator_select_voltage(pts, lo, hi)
    [] OTHER -> MapIterate(pts, lo, hi)

(* get_voltage_sel() of each layout.                                       *)
GetSel ==
  LET i == spmi_regulator_find_range
      code == IF Layout = "split" /\ i # 0 /\ pts[Max({i, 1})].range_sel = 1
              THEN reg.vset - 32 * ((reg.vset \div 32) % 4) ELSE reg.vset
  IN CASE Layout \in {"range", "split"} -> IF i = 0 THEN EINVAL ELSE spmi_hw_selector_to_sw(pts, code, i)
       [] Layout = "single" -> reg.vset
       [] Layout = "mv" -> CQuot(reg.vset * 1000 - pts[1].spMin, pts[1].step)
       [] OTHER -> EINVAL

(* The newer layouts are told the voltage itself.                          *)
MilliVolts(sel) == List(sel) \div 1000

(* set_voltage_sel() of each layout.                                       *)
SetSel(sel) ==
  LET hw == spmi_sw_selector_to_hw(pts, sel)
  IN CASE Layout = "range" -> [reg EXCEPT !.range = hw.range, !.vset = hw.vset]
       [] Layout = "split" -> [reg EXCEPT !.vset = IF hw.range = 1 THEN hw.vset + ULT_SMPS_RANGE_SPLIT ELSE hw.vset]
       [] Layout = "single" -> [reg EXCEPT !.vset = sel % 256]
       [] Layout = "mv" -> [reg EXCEPT !.vset = MilliVolts(sel)]
       [] OTHER -> reg

(* spmi_saw_set_vdd(): the SAW is told a code only, and whether it arrived *)
(* in time nobody is told.                                                 *)
spmi_saw_set_vdd(code) ==
  {[reg EXCEPT !.vset = code]} \cup (IF "late" \in SawFaults THEN {reg} ELSE {})

(* The driver's operation for the selector sel; the SAW's has one range.   *)
Settable(sel) == Leader => spmi_sw_selector_to_hw(pts, sel).range = 0
SetVoltageSel(sel) ==
  IF Leader THEN spmi_saw_set_vdd(spmi_sw_selector_to_hw(pts, sel).vset) ELSE {SetSel(sel)}

(* The regulator core grants a request when the driver names a selector    *)
(* whose voltage lies in it.                                               *)
Granted(lo, hi) ==
  LET s == MapVoltage(lo, hi) IN s >= 0 /\ List(s) \in lo .. hi /\ Settable(s)

(* A rail whose changes take time has to know where it starts from: while  *)
(* the registers hold a range or a code the table lacks, the core refuses  *)
(* every request of it.                                                    *)
Readable == HasTime => GetSel >= 0

SetVoltage(lo, hi) ==
  /\ phase = "up" /\ row.points # "none"
  /\ Readable
  /\ Granted(lo, hi) /\ reg' \in SetVoltageSel(MapVoltage(lo, hi))
  /\ want' = [want EXCEPT !.lo = lo, !.hi = hi]
  /\ UNCHANGED <<phase, row, slew, vs, isr, work>>

(* Microseconds the core waits after a change.                             *)
spmi_regulator_set_voltage_time_sel(old, new) ==
  DIV_ROUND_UP(IF List(new) > List(old) THEN List(new) - List(old) ELSE List(old) - List(new), slew.rate)

(***************************************************************************)
(* Modes.  The common layout has a bit for high power and one for auto,    *)
(* the newer layouts a number in the low bits.                             *)
(***************************************************************************)
spmi_regulator_common_set_mode(m) ==
  [reg EXCEPT !.top = CASE m = "normal" -> "hpm" [] m = "fast" -> "auto" [] OTHER -> "none"]

LowModeOf(m) ==
  CASE m = "normal" -> 7
    [] m = "fast" -> 6
    [] m = "idle" -> IF row.ops # "hfsmps" THEN 5 ELSE IF row.logical = "FTSMPS3" THEN 3 ELSE 4

GetMode ==
  CASE LowMode -> IF reg.top = "none" /\ ~reg.bypass /\ reg.low = 7 THEN "normal"
                  ELSE IF reg.top = "none" /\ ~reg.bypass /\ reg.low = 6 THEN "fast" ELSE "idle"
    [] reg.top = "hpm" -> "normal"
    [] reg.top = "auto" -> "fast"
    [] OTHER -> "idle"

SetMode(m) ==
  /\ phase = "up" /\ HasMode
  /\ reg' = IF LowMode THEN [reg EXCEPT !.low = LowModeOf(m)] ELSE spmi_regulator_common_set_mode(m)
  /\ want' = [want EXCEPT !.mode = m]
  /\ UNCHANGED <<phase, row, slew, vs, isr, work>>

(* A load decides between high and low power.  Rails of the newer layouts  *)
(* use the same operation, which writes bits their mode does not have: a   *)
(* load asks no mode of them that they could hold.                         *)
spmi_regulator_common_set_load(load) ==
  /\ phase = "up" /\ HasLoad
  /\ LET m == IF load >= row.hpm THEN "normal" ELSE "idle"
     IN /\ reg' = spmi_regulator_common_set_mode(m)
        /\ want' = IF LowMode THEN want ELSE [want EXCEPT !.mode = m]
  /\ UNCHANGED <<phase, row, slew, vs, isr, work>>

(* Mutant: the whole register is written.                                  *)
spmi_regulator_common_set_bypass_Whole(enable) ==
  /\ phase = "up" /\ HasBypass
  /\ reg' = [reg EXCEPT !.bypass = enable, !.top = "none"]
  /\ UNCHANGED <<phase, row, slew, want, vs, isr, work>>

spmi_regulator_common_set_bypass(enable) ==
  /\ phase = "up" /\ HasBypass
  /\ reg' = [reg EXCEPT !.bypass = enable]
  /\ UNCHANGED <<phase, row, slew, want, vs, isr, work>>

(***************************************************************************)
(* Probe.                                                                  *)
(***************************************************************************)
OverflowsAt == 111849    \* 19200 * 111849 is the first product beyond an int

(* The ramp of a range with steps of uV in the set-up of STEP_CTRL, before *)
(* the margin the driver takes off for the oscillator.                     *)
Ramp(uV) ==
  LET s == reg.ctrl.step  d == reg.ctrl.delay
  IN CASE row.logical = "FTSMPS" -> (((19200 * uV) \div 1000) * 2^s) \div (8 * 2^d)
       [] row.logical \in {"ULT_LO_SMPS", "ULT_HO_SMPS", "SMPS"} -> (((19200 * uV) \div 1000) * 2^s) \div (20 * 2^d)
       [] row.logical = "FTSMPS426" -> (4800 * uV) \div (1000 * (2 * 2^(d % 4)))
       [] row.logical = "HFS430" -> (1600 * uV) \div (1000 * (2 * 2^(d % 4)))
       [] row.logical \in {"HFSMPS", "FTSMPS3"} -> 38400 \div 2^(d % 4)
       [] OTHER -> 0

spmi_regulator_init_slew_rate(uV) ==
  IF uV * 2^reg.ctrl.step >= OverflowsAt THEN 1 ELSE Max({1, (Ramp(uV) * 4) \div 5})
spmi_regulator_init_slew_rate_ftsmps426(uV) == Max({1, (Ramp(uV) * 10) \div 11})
spmi_regulator_init_slew_rate_hfsmps == Ramp(0)

(* of_parse(): the rate for the layouts that have one.                     *)
SlewRate(uV) ==
  CASE row.logical \in {"FTSMPS", "ULT_LO_SMPS", "ULT_HO_SMPS", "SMPS"} -> spmi_regulator_init_slew_rate(uV)
    [] row.logical \in {"FTSMPS426", "HFS430"} -> spmi_regulator_init_slew_rate_ftsmps426(uV)
    [] row.logical \in {"HFSMPS", "FTSMPS3"} -> spmi_regulator_init_slew_rate_hfsmps
    [] OTHER -> 0

(* Bits of the device tree's pin masks that leave the pins as they are.    *)
ENABLE_HW_DEFAULT == 4
HPM_HW_DEFAULT    == 5
SLEEP_B           == 4

(* init_registers(): the pins that enable and mode follow are those of the *)
(* device tree, for the types that have such pins.                         *)
spmi_regulator_init_registers ==
  LET dt == want.dt  type == row.logical IN
  [reg EXCEPT
    !.enable_pins = IF ENABLE_HW_DEFAULT \notin dt.enable /\ type \in {"SMPS", "LDO", "VS"}
                    THEN dt.enable ELSE @,
    !.mode_pins = CASE HPM_HW_DEFAULT \in dt.hpm -> @
                    [] HPM_HW_DEFAULT \notin dt.hpm /\ type \in {"SMPS", "LDO"} -> dt.hpm
                    [] HPM_HW_DEFAULT \notin dt.hpm
                       /\ type \in {"VS", "ULT_LO_SMPS", "ULT_HO_SMPS", "ULT_LDO"} ->
                         (@ \ {SLEEP_B}) \cup (dt.hpm \cap {SLEEP_B})
                    [] OTHER -> @,
    !.soft = IF type = "VS" /\ dt.soft # 4 THEN dt.soft ELSE @]

(* The regulator core sets the input limit of a boost: codes 0 .. 7 stand  *)
(* for steps of 500, and a limit beyond them is refused.                   *)
Limits == row.ops = "boost" /\ want.dt.ilim # 0
spmi_regulator_set_ilim == (want.dt.ilim - 1) \div 500

(* Registering the rail reads its registers and writes the same voltage    *)
(* back; the rate of a stepped layout needs a range the table knows, and a *)
(* rail that cannot be registered ends the probe of the whole PMIC.  One   *)
(* that follows the SAW's is left alone.                                   *)
Register ==
  LET stepped == row.logical \in {"FTSMPS", "ULT_LO_SMPS", "ULT_HO_SMPS", "SMPS"}
      i == IF stepped THEN spmi_regulator_find_range ELSE 1
  IN /\ phase = "off"
     /\ want.dt.saw # "slave"
     /\ phase' = IF i = 0 \/ (Limits /\ want.dt.ilim > 8 * 500) THEN "failed" ELSE "up"
     /\ reg' = [spmi_regulator_init_registers EXCEPT
                  !.limit = IF phase' = "up" /\ Limits THEN spmi_regulator_set_ilim ELSE @]
     /\ slew' = IF i = 0 \/ row.points = "none" THEN slew
                ELSE [rate |-> SlewRate(pts[i].step), step |-> pts[i].step]
     /\ UNCHANGED <<row, want, vs, isr, work>>

LeaveSlave ==
  /\ phase = "off" /\ want.dt.saw = "slave"
  /\ phase' = "left"
  /\ UNCHANGED <<row, reg, slew, want, vs, isr, work>>

(***************************************************************************)
(* The switch.                                                             *)
(***************************************************************************)
Switch == phase = "up" /\ row.ops = "vs"

(* vs_enable(): the count and the clock first, the register after.         *)
VsReset ==
  /\ Switch /\ vs.irq /\ vs.use = "off"
  /\ vs' = [vs EXCEPT !.count = 0, !.late = FALSE, !.use = "enabling", !.clears = 0]
  /\ UNCHANGED <<phase, row, reg, slew, want, isr, work>>

VsEnable ==
  /\ Switch /\ (vs.use = "enabling" \/ (~vs.irq /\ vs.use = "off"))
  /\ vs' = [vs EXCEPT !.on = TRUE, !.use = "on"]
  /\ UNCHANGED <<phase, row, reg, slew, want, isr, work>>

Retrying == vs.edge \/ isr.pc # "idle" \/ work.queued \/ work.pc # "idle"

(* regulator_disable_regmap(): nothing cancels a retry.                    *)
VsDisable ==
  /\ Switch /\ vs.use = "on"
  /\ Disables = "idle" => ~Retrying
  /\ vs' = [vs EXCEPT !.on = FALSE, !.tripped = FALSE, !.use = "off"]
  /\ UNCHANGED <<phase, row, reg, slew, want, isr, work>>

(* Too much current: the switch opens and its interrupt line rises.        *)
Short ==
  /\ Switch /\ vs.irq /\ vs.on /\ ~vs.tripped /\ vs.shorts < MaxShorts
  /\ vs' = [vs EXCEPT !.tripped = TRUE, !.edge = TRUE, !.shorts = @ + 1]
  /\ UNCHANGED <<phase, row, reg, slew, want, isr, work>>

(* More than 20 ms pass since the switch was closed.                       *)
Late ==
  /\ Switch /\ vs.on /\ ~vs.tripped /\ ~vs.late
  /\ vs' = [vs EXCEPT !.late = TRUE]
  /\ UNCHANGED <<phase, row, reg, slew, want, isr, work>>

(* spmi_regulator_vs_ocp_isr(): an old enable makes this the first trip;   *)
(* the count is read and stored with the settling delay before it.         *)
IsrStart ==
  /\ vs.edge /\ isr.pc = "idle"
  /\ vs' = [vs EXCEPT !.edge = FALSE, !.count = IF vs.late THEN 0 ELSE @,
                      !.clears = IF vs.late THEN 0 ELSE @]
  /\ isr' = [isr EXCEPT !.pc = "read"]
  /\ UNCHANGED <<phase, row, reg, slew, want, work>>

IsrRead ==
  /\ isr.pc = "read"
  /\ isr' = [pc |-> "count", n |-> vs.count + 1]
  /\ UNCHANGED <<phase, row, reg, slew, want, vs, work>>

(* Mutant: the last allowed retry is not made.                             *)
IsrCount_OneLess ==
  /\ isr.pc = "count"
  /\ vs' = [vs EXCEPT !.count = isr.n]
  /\ isr' = [pc |-> IF isr.n = 1 THEN "clear" ELSE "idle", n |-> 0]
  /\ work' = [work EXCEPT !.queued = @ \/ isr.n \in 2 .. MaxRetries - 1]
  /\ UNCHANGED <<phase, row, reg, slew, want>>

(* Mutant: the retries have no limit.                                      *)
IsrCount_NoLimit ==
  /\ isr.pc = "count"
  /\ vs' = [vs EXCEPT !.count = isr.n]
  /\ isr' = [pc |-> IF isr.n = 1 THEN "clear" ELSE "idle", n |-> 0]
  /\ work' = [work EXCEPT !.queued = @ \/ isr.n > 1]
  /\ UNCHANGED <<phase, row, reg, slew, want>>

(* The first trip is cleared at once, the next ones by delayed work, and   *)
(* after ocp_max_retries the switch stays open.                            *)
IsrCount ==
  /\ isr.pc = "count"
  /\ vs' = [vs EXCEPT !.count = isr.n]
  /\ isr' = [pc |-> IF isr.n = 1 THEN "clear" ELSE "idle", n |-> 0]
  /\ work' = [work EXCEPT !.queued = @ \/ isr.n \in 2 .. MaxRetries]
  /\ UNCHANGED <<phase, row, reg, slew, want>>

(* spmi_regulator_vs_clear_ocp() writes twice and sets the clock between.  *)
Cleared == [vs EXCEPT !.on = FALSE, !.tripped = FALSE, !.late = FALSE, !.clears = @ + 1]

IsrClear ==
  /\ isr.pc \in {"clear", "set"}
  /\ vs' = IF isr.pc = "clear" THEN Cleared ELSE [vs EXCEPT !.on = TRUE]
  /\ isr' = [isr EXCEPT !.pc = IF @ = "clear" THEN "set" ELSE "idle"]
  /\ UNCHANGED <<phase, row, reg, slew, want, work>>

WorkStart ==
  /\ work.queued /\ work.pc = "idle"
  /\ work' = [queued |-> FALSE, pc |-> "clear"]
  /\ UNCHANGED <<phase, row, reg, slew, want, vs, isr>>

WorkClear ==
  /\ work.pc \in {"clear", "set"}
  /\ vs' = IF work.pc = "clear" THEN Cleared ELSE [vs EXCEPT !.on = TRUE]
  /\ work' = [work EXCEPT !.pc = IF @ = "clear" THEN "set" ELSE "idle"]
  /\ UNCHANGED <<phase, row, reg, slew, want, isr>>

(***************************************************************************)
(* The specification.  Boot software may leave any range, and a voltage    *)
(* that is no set point.                                                   *)
(***************************************************************************)
(* Voltages at and around the ends of the ranges.                          *)
Marks == UNION {{pts[i].spMin - 1, pts[i].spMin, pts[i].spMin + pts[i].step + 1,
                 pts[i].spMax, pts[i].spMax + 1} :
                   i \in {j \in DOMAIN pts : pts[j].n > 0}}

BootRanges ==
  IF Leader /\ "range" \notin SawFaults THEN {0} ELSE {pts[i].range_sel : i \in DOMAIN pts} \cup {9}
BootCodes ==
  IF pts = << >> THEN {0}
  ELSE IF Layout = "mv" THEN {(pts[1].spMin \div 1000) - 4, pts[1].spMax \div 1000}
  ELSE {0, 70, ULT_SMPS_RANGE_SPLIT + 2}

(* Boot software lets a rail sleep with the system, where the mode has pins. *)
BootPins == IF LowMode THEN {} ELSE {SLEEP_B}
NoLimit == -1

RegulatorInit ==
  /\ phase = "off"
  /\ row \in {spmi_regulator_match(d.type, d.subtype, d.rev)[1] : d \in Devices}
  /\ want \in [lo : {-1}, hi : {-1}, mode : {"any"}, dt : Configs]
  /\ want.dt.saw # "none" => row.logical = "FTSMPS"      \* the rails of CPUs
  /\ reg \in [range : BootRanges, vset : BootCodes, top : {"none"}, low : {IF LowMode THEN 7 ELSE 0},
              bypass : {FALSE}, ctrl : IF HasTime THEN StepCtrls ELSE {CHOOSE c \in StepCtrls : TRUE},
              mode_pins : {BootPins}, enable_pins : {{}}, soft : {0}, limit : {NoLimit}]
  /\ slew = [rate |-> 0, step |-> 0]
  /\ vs \in [irq : IF row.ops = "vs" THEN BOOLEAN ELSE {FALSE}, use : {"off"}, on : {FALSE}, tripped : {FALSE},
             edge : {FALSE}, late : {FALSE}, count : {0}, clears : {0}, shorts : {0}]
  /\ isr = [pc |-> "idle", n |-> 0]
  /\ work = [queued |-> FALSE, pc |-> "idle"]

RegulatorNext ==
  \/ Register \/ LeaveSlave
  \/ \E lo, hi \in Marks : lo <= hi /\ SetVoltage(lo, hi)
  \/ \E m \in {"normal", "fast", "idle"} : SetMode(m)
  \/ \E load \in {row.hpm - 1, row.hpm} : spmi_regulator_common_set_load(load)
  \/ \E b \in BOOLEAN : spmi_regulator_common_set_bypass(b)
  \/ VsReset \/ VsEnable \/ VsDisable \/ Short \/ Late
  \/ IsrStart \/ IsrRead \/ IsrCount \/ IsrClear \/ WorkStart \/ WorkClear

(* The interrupt handler and the work queue make progress.                 *)
RegulatorFairness ==
  /\ WF_regulatorVars(IsrStart) /\ WF_regulatorVars(IsrRead) /\ WF_regulatorVars(IsrCount) /\ WF_regulatorVars(IsrClear)
  /\ WF_regulatorVars(WorkStart) /\ WF_regulatorVars(WorkClear)

RegulatorSpec == RegulatorInit /\ [][RegulatorNext]_regulatorVars /\ RegulatorFairness

(***************************************************************************)
(* Correctness.                                                            *)
(***************************************************************************)
MaxMillivolts == 65535      \* two registers
MaxSlewRate == 38400 * 8    \* no ramp is faster before the products overflow

RegulatorTypeOK ==
  /\ phase \in {"off", "up", "failed", "left"}
  /\ row \in Range(supported_regulators)
  /\ reg.vset \in IF Layout = "mv" THEN 0 .. MaxMillivolts ELSE 0 .. 255
  /\ reg.mode_pins \subseteq 0 .. 4 /\ reg.enable_pins \subseteq 0 .. 3 /\ reg.soft \in 0 .. 3
  /\ reg.limit \in {NoLimit} \cup 0 .. 7
  /\ reg.top \in {"none", "hpm", "auto"} /\ reg.low \in 0 .. 7 /\ reg.bypass \in BOOLEAN
  /\ slew.rate \in 0 .. MaxSlewRate
  /\ vs.use \in {"off", "enabling", "on"} /\ vs.shorts \in 0 .. MaxShorts
  /\ vs.count \in 0 .. MaxShorts
  /\ isr.pc \in {"idle", "read", "count", "clear", "set"}
  /\ work.pc \in {"idle", "clear", "set"}

(* A granted request is met by what the rail puts out: the selector, the   *)
(* range and code written and the hardware's own sum agree (a trimmed      *)
(* range starts above its code 0).                                         *)
RequestMet == want.lo >= 0 => OutUV \in want.lo .. want.hi

(* What get_voltage_sel() answers is what the rail puts out; a voltage     *)
(* that is no set point, as boot software may leave it, has no selector,   *)
(* or, where millivolts are kept, a neighbour's.                           *)
ReadBack ==
  phase = "up" /\ row.points # "none" /\ GetSel >= 0 /\ List(GetSel) # 0 =>
    LET off == List(GetSel) - OutUV
    IN IF Layout = "mv" THEN off > -pts[1].step /\ off < pts[1].step ELSE off = 0

(* A set point lies in the request.                                        *)
SetPointIn(lo, hi) ==
  \E i \in DOMAIN pts :
    LET r == pts[i]
        up == Max({0, DIV_ROUND_UP(lo - r.spMin, r.step)}) * r.step + r.spMin
    IN r.n > 0 /\ up <= hi /\ up <= r.spMax /\ (Leader => r.range_sel = 0)

(* For a request that some set point meets a selector is found, whatever   *)
(* range the rail is in (select_voltage() and the search in the present    *)
(* range), so that it is granted where the rail can be read; and a rail    *)
(* that was granted one can be read from then on.  One that boot software  *)
(* left where it cannot be read is granted nothing.                        *)
AlwaysGranted ==
  phase = "up" /\ row.points # "none" =>
    /\ \A lo \in Marks : \A hi \in {h \in Marks : lo <= h} : SetPointIn(lo, hi) => Granted(lo, hi)
    /\ want.lo >= 0 => Readable

(* The core waits until the ramp is over.  The rate is computed once, for  *)
(* the range the rail was registered in, so this is claimed of ranges with *)
(* steps at least as large.                                                *)
SettleCovered ==
  phase = "up" /\ HasTime /\ GetSel >= 0 =>
    \A s \in {MapVoltage(v, v) : v \in {u \in Marks : Granted(u, u)}} :
      LET i == Min({j \in DOMAIN pts : s < Before(pts, j + 1)} \cup {Len(pts)})
          diff == IF List(s) > List(GetSel) THEN List(s) - List(GetSel) ELSE List(GetSel) - List(s)
      IN pts[i].step >= slew.step =>
           spmi_regulator_set_voltage_time_sel(GetSel, s) >= DIV_ROUND_UP(diff, Max({1, Ramp(pts[i].step)}))

(* The mode asked for last, by load or by name, is the mode the registers  *)
(* hold and report, whatever voltages and bypasses were set in between.    *)
(* On the newer layouts it is the one asked for by name; a load above the  *)
(* limit sets a bit beside it, and then it is held but not reported.       *)
ModeHeld ==
  phase = "up" /\ want.mode # "any" =>
    IF LowMode THEN reg.low = LowModeOf(want.mode) /\ (reg.top = "none" => GetMode = want.mode)
    ELSE GetMode = want.mode

(* Modes, bypass and enables leave the pins that the device tree named,    *)
(* and the pins nobody named stay as boot software had them.               *)
PinsKept ==
  phase = "up" =>
    LET dt == want.dt
        all == row.logical \in {"SMPS", "LDO"}
        sleeps == row.logical \in {"VS", "ULT_LO_SMPS", "ULT_HO_SMPS", "ULT_LDO"}
        named == IF HPM_HW_DEFAULT \in dt.hpm THEN {} ELSE IF all THEN 0 .. 4 ELSE IF sleeps THEN {SLEEP_B} ELSE {}
    IN \A pin \in 0 .. 4 : pin \in reg.mode_pins <=> pin \in IF pin \in named THEN dt.hpm ELSE BootPins

(* The input limit programmed is the lowest one that lets the limit of the *)
(* device tree through; no boost runs without one that was asked for.      *)
LimitMet ==
  phase = "up" /\ Limits =>
    reg.limit # NoLimit /\ want.dt.ilim \in reg.limit * 500 + 1 .. (reg.limit + 1) * 500

(* Between an enable (or a trip long after one) and giving up, the switch  *)
(* is closed again at most ocp_max_retries times.                          *)
RetriesBounded == vs.clears <= MaxRetries

(* A switch that trips is closed again, unless its retries are used up or  *)
(* it was switched off (vs_ocp_isr() and the delayed work).                *)
Retried == vs.tripped ~> (~vs.tripped \/ vs.count > MaxRetries)

(* A request within reach of the table is granted by a rail that can be    *)
(* read, which it then remains; what is granted is what it puts out and    *)
(* reports, and the core waits until it is there.                          *)
RequestsServed == RegulatorTypeOK /\ RequestMet /\ ReadBack /\ AlwaysGranted /\ SettleCovered

(* What was set stays set, whatever is asked of the rail afterwards: its   *)
(* mode, the pins it follows, its input limit.                             *)
SettingsHeld == ModeHeld /\ PinsKept /\ LimitMet
==============================================================================
