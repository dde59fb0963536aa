------------------------------ MODULE SpmiVoltages ------------------------------
(***************************************************************************)
(* The set points of the PMIC regulators (qcom_spmi-regulator.c) and the   *)
(* arithmetic between a request in microvolts, the selector the regulator  *)
(* core keeps and the registers.  Integers here are C's: a quotient is     *)
(* rounded towards zero.                                                   *)
(***************************************************************************)
EXTENDS Integers, Sequences, Functions, FiniteSetsExt, SequencesExt

EINVAL == -22
INF == 255              \* any digital major revision

CQuot(n, d) == IF n >= 0 THEN n \div d ELSE -((-n) \div d)
DIV_ROUND_UP(n, d) == CQuot(n + d - 1, d)

Volts(sel, min, spMin, spMax, max, step) ==
  [range_sel |-> sel, min |-> min, max |-> max, step |-> step,
   spMin |-> spMin, spMax |-> spMax,
   n |-> IF spMax # 0 THEN (spMax - spMin) \div step + 1 ELSE 0]

set_points ==
  [pldo        |-> << Volts(2, 750000, 750000, 1537500, 1537500, 12500),
                      Volts(3, 1500000, 1550000, 3075000, 3075000, 25000),
                      Volts(4, 1750000, 3100000, 4900000, 4900000, 50000) >>,
   nldo1       |-> << Volts(2, 750000, 750000, 1537500, 1537500, 12500) >>,
   nldo2       |-> << Volts(0, 375000, 0, 0, 1537500, 12500),
                      Volts(1, 375000, 375000, 768750, 768750, 6250),
                      Volts(2, 750000, 775000, 1537500, 1537500, 12500) >>,
   nldo3       |-> << Volts(0, 375000, 375000, 1537500, 1537500, 12500),
                      Volts(1, 375000, 0, 0, 1537500, 12500),
                      Volts(2, 750000, 0, 0, 1537500, 12500) >>,
   ln_ldo      |-> << Volts(1, 690000, 690000, 1110000, 1110000, 60000),
                      Volts(0, 1380000, 1380000, 2220000, 2220000, 120000) >>,
   smps        |-> << Volts(0, 375000, 375000, 1562500, 1562500, 12500),
                      Volts(1, 1550000, 1575000, 3125000, 3125000, 25000) >>,
   ftsmps      |-> << Volts(0, 0, 350000, 1275000, 1275000, 5000),
                      Volts(1, 0, 1280000, 2040000, 2040000, 10000) >>,
   ftsmps2p5   |-> << Volts(0, 80000, 350000, 1355000, 1355000, 5000),
                      Volts(1, 160000, 1360000, 2200000, 2200000, 10000) >>,
   ftsmps426   |-> << Volts(0, 0, 320000, 1352000, 1352000, 4000) >>,
   boost       |-> << Volts(0, 4000000, 4000000, 5550000, 5550000, 50000) >>,
   boost_byp   |-> << Volts(0, 2500000, 2500000, 5200000, 5650000, 50000) >>,
   ult_lo_smps |-> << Volts(0, 375000, 375000, 1562500, 1562500, 12500),
                      Volts(1, 750000, 0, 0, 1525000, 25000) >>,
   ult_ho_smps |-> << Volts(0, 1550000, 1550000, 2325000, 2325000, 25000) >>,
   ult_nldo    |-> << Volts(0, 375000, 375000, 1537500, 1537500, 12500) >>,
   ult_pldo    |-> << Volts(0, 1750000, 1750000, 3337500, 3337500, 12500) >>,
   pldo660     |-> << Volts(0, 1504000, 1504000, 3544000, 3544000, 8000) >>,
   nldo660     |-> << Volts(0, 320000, 320000, 1304000, 1304000, 8000) >>,
   ht_lvpldo   |-> << Volts(0, 1504000, 1504000, 2000000, 2000000, 8000) >>,
   ht_nldo     |-> << Volts(0, 312000, 312000, 1304000, 1304000, 8000) >>,
   hfs430      |-> << Volts(0, 320000, 320000, 2040000, 2040000, 8000) >>,
   ht_p150     |-> << Volts(0, 1616000, 1616000, 3304000, 3304000, 8000) >>,
   ht_p600     |-> << Volts(0, 1704000, 1704000, 1896000, 1896000, 8000) >>,
   nldo_510    |-> << Volts(0, 320000, 320000, 1304000, 1304000, 8000) >>,
   ftsmps510   |-> << Volts(0, 300000, 300000, 1372000, 1372000, 4000) >>,
   none        |-> << >>]

(* How many set points the ranges before the i-th have, and all of them.   *)
Before(pts, i) == FoldLeft(LAMBDA sum, r : sum + r.n, 0, SubSeq(pts, 1, i - 1))
spmi_calculate_num_voltages(pts) == Before(pts, Len(pts) + 1)

(* The regulator types of supported_regulators[]: the subtypes that share  *)
(* a row's revisions, layout, operations, set points and limit.            *)
Vreg(type, subtypes, lo, hi, logical, ops, points, hpm) ==
  [type |-> type, subtypes |-> subtypes, lo |-> lo, hi |-> hi, logical |-> logical,
   ops |-> ops, points |-> points, hpm |-> hpm]

BUCK == \h03
LDO == \h04
VS == \h05
BOOST == \h1b
FTS == \h1c
BOOST_BYP == \h1f
ULT_LDO == \h21
ULT_BUCK == \h22

supported_regulators ==
  << Vreg(LDO, {\h3d}, 0, INF, "HFS430", "hfs430", "ht_p600", 10000),
     Vreg(LDO, {\h35}, 0, INF, "HFS430", "hfs430", "ht_p150", 10000),
     Vreg(BUCK, {\h08}, 0, INF, "SMPS", "smps", "smps", 100000),
     Vreg(BUCK, {\h0a}, 0, 3, "HFS430", "hfs430", "hfs430", 10000),
     Vreg(BUCK, {\h0a}, 4, INF, "HFSMPS", "hfsmps", "hfs430", 100000),
     Vreg(LDO, {\h03}, 0, INF, "LDO", "ldo", "nldo1", 10000),
     Vreg(LDO, {\h04, \h05, \h06, \h07}, 0, 0, "LDO", "ldo", "nldo2", 10000),
     Vreg(LDO, {\h04, \h05, \h06, \h07}, 1, INF, "LDO", "ldo", "nldo3", 10000),
     Vreg(LDO, {\h08, \h28}, 0, INF, "LDO", "ldo", "pldo", 5000),
     Vreg(LDO, {\h09, \h0a, \h0b, \h0c, \h29, \h2a, \h2b, \h2c}, 0, INF, "LDO", "ldo", "pldo", 10000),
     Vreg(LDO, {\h10}, 0, INF, "LN_LDO", "ln_ldo", "ln_ldo", 0),
     Vreg(LDO, {\h30, \h31, \h32}, 0, INF, "FTSMPS426", "ftsmps426", "ht_nldo", 30000),
     Vreg(LDO, {\h3b, \h3c, \h4d, \h4f}, 0, INF, "FTSMPS426", "ftsmps426", "ht_lvpldo", 10000),
     Vreg(LDO, {\h42, \h43}, 0, INF, "FTSMPS426", "ftsmps426", "nldo660", 10000),
     Vreg(LDO, {\h46, \h47, \h49}, 0, INF, "FTSMPS426", "ftsmps426", "pldo660", 10000),
     Vreg(VS, {\h01, \h02, \h08, \h09, \h10, \h11}, 0, INF, "VS", "vs", "none", 0),
     Vreg(BOOST, {\h01}, 0, INF, "BOOST", "boost", "boost", 0),
     Vreg(FTS, {\h08}, 0, INF, "FTSMPS", "ftsmps", "ftsmps", 100000),
     Vreg(FTS, {\h09}, 0, INF, "FTSMPS", "ftsmps", "ftsmps2p5", 100000),
     Vreg(FTS, {\h0a}, 0, INF, "FTSMPS426", "ftsmps426", "ftsmps426", 100000),
     Vreg(BOOST_BYP, {\h01}, 0, INF, "BOOST_BYP", "boost", "boost_byp", 0),
     Vreg(ULT_BUCK, {\h0d, \h0e, \h0f}, 0, INF, "ULT_LO_SMPS", "ult_lo_smps", "ult_lo_smps", 100000),
     Vreg(ULT_BUCK, {\h10}, 0, INF, "ULT_HO_SMPS", "ult_ho_smps", "ult_ho_smps", 100000),
     Vreg(ULT_LDO, {\h15, \h06, \h14, \h07}, 0, INF, "ULT_LDO", "ult_ldo", "ult_nldo", 10000),
     Vreg(ULT_LDO, {\h28, \h29, \h2a, \h2d, \h0b, \h0a, \h09}, 0, INF, "ULT_LDO", "ult_ldo", "ult_pldo", 10000),
     Vreg(ULT_LDO, {\h08}, 0, INF, "ULT_LDO", "ult_ldo", "ult_pldo", 5000),
     Vreg(LDO, {\h71, \h72, \h73}, 0, INF, "LDO_510", "hfsmps", "ht_lvpldo", 10000),
     Vreg(LDO, {\h7a, \h7b, \h7d}, 0, INF, "LDO_510", "hfsmps", "pldo660", 10000),
     Vreg(LDO, {\h6a, \h6b, \h6c}, 0, INF, "LDO_510", "hfsmps", "nldo_510", 10000),
     Vreg(FTS, {\h0b}, 0, INF, "FTSMPS3", "hfsmps", "ftsmps510", 100000) >>

(* The first row of a type, subtype and revision; none when unsupported.   *)
spmi_regulator_match(type, subtype, rev) ==
  LET rows == {i \in DOMAIN supported_regulators :
                 LET m == supported_regulators[i]
                 IN m.type = type /\ subtype \in m.subtypes /\ rev \in m.lo .. m.hi}
  IN IF rows = {} THEN << >> ELSE << supported_regulators[Min(rows)] >>

(* The voltage of a selector; 0 beyond the last.                           *)
spmi_regulator_common_list_voltage(pts, sel) ==
  LET in == {i \in DOMAIN pts : sel >= Before(pts, i) /\ sel - Before(pts, i) < pts[i].n}
  IN IF sel < 0 \/ in = {} THEN 0
     ELSE LET i == Min(in) IN (sel - Before(pts, i)) * pts[i].step + pts[i].spMin

(* The smallest set point of the request in the range its minimum falls    *)
(* into; the selector of a set point is its place among all of them.       *)
spmi_regulator_select_voltage(pts, lo, hi) ==
  LET limMin == pts[1].spMin
      limMax == pts[Len(pts)].spMax
      uV == IF lo < limMin /\ hi >= limMin THEN limMin ELSE lo
      above == {i \in 2 .. Len(pts) : uV > pts[i - 1].spMax /\ pts[i - 1].spMax > 0}
      id == Max({1} \cup above)
      r == pts[id]
      ceil == DIV_ROUND_UP(uV - r.min, r.step) * r.step + r.min
  IN IF uV < limMin \/ uV > limMax \/ ceil > hi THEN EINVAL
     ELSE Before(pts, id) + CQuot(ceil - r.spMin, r.step)

(* The same on the grid of the present range, when that can give it.       *)
spmi_regulator_select_voltage_same_range(pts, known, r, lo, hi) ==
  LET uV == IF lo < r.min /\ hi >= r.min THEN r.min ELSE lo
      ceil == DIV_ROUND_UP(uV - r.min, r.step) * r.step + r.min
      home == {i \in DOMAIN pts : ceil \in pts[i].spMin .. pts[i].spMax}
      i == Min(home)
  IN IF known /\ uV \in r.min .. r.max /\ ceil <= hi /\ home # {}
     THEN Before(pts, i) + (ceil - pts[i].spMin) \div pts[i].step
     ELSE spmi_regulator_select_voltage(pts, lo, hi)

(* Without .map_voltage the core takes the lowest listed voltage that fits. *)
MapIterate(pts, lo, hi) ==
  LET fits == {s \in 0 .. spmi_calculate_num_voltages(pts) - 1 :
                 spmi_regulator_common_list_voltage(pts, s) \in lo .. hi}
  IN IF fits = {} THEN EINVAL ELSE Min(fits)

(* Mutant: the invalid codes below the first set point are not skipped.    *)
spmi_sw_selector_to_hw_NoOffset(pts, sel) ==
  LET i == Max({j \in DOMAIN pts : sel >= Before(pts, j)})
  IN [range |-> pts[i].range_sel, vset |-> (sel - Before(pts, i)) % 256]

(* The registers of a valid selector: the hardware counts from the range's *)
(* minimum, and a byte is written.                                         *)
spmi_sw_selector_to_hw(pts, sel) ==
  LET i == Min({j \in DOMAIN pts : sel < Before(pts, j + 1)})
  IN [range |-> pts[i].range_sel,
      vset |-> (sel - Before(pts, i) + (pts[i].spMin - pts[i].min) \div pts[i].step) % 256]

(* The selector of a code of the id-th range; codes that are not set       *)
(* points have none.                                                       *)
spmi_hw_selector_to_sw(pts, hwSel, id) ==
  LET r == pts[id]
      off == (r.spMin - r.min) \div r.step
  IN IF r.n = 0 \/ hwSel < off \/ hwSel > (r.spMax - r.min) \div r.step THEN EINVAL
     ELSE Before(pts, id) + hwSel - off

==============================================================================
