---------------------------- MODULE Wcn36xx_proofs ----------------------------
(***************************************************************************)
(* Proofs about Wcn36xx, for any channels, rate masks and faults but those *)
(* a theorem excludes: the driver's books of an offloaded scan are         *)
(* mac80211's, software scans and data take turns on the radio, keys,      *)
(* aggregation and rates agree on all sides, and what start, probe and     *)
(* suspend take is given back.                                             *)
(***************************************************************************)
EXTENDS Wcn36xx, FiniteSetTheorems, TLAPS

HwSet == [req : BOOLEAN, aborted : BOOLEAN, fw : {"idle", "scan", "stop"}]

SwSet == [scan : BOOLEAN, chan : {0} \cup ScanChannels, op : {0} \cup ScanChannels,
          init : BOOLEAN, fw : {"none", "init", "chan", "bad"}, lost : BOOLEAN]

MacSet == [scan : {"none", "hw", "sw"}, done : BOOLEAN, chan : ScanChannels, ps : BOOLEAN,
           idle : BOOLEAN, phase : {"none", "begin", "away", "paused", "end"},
           home : ScanChannels]

RadioSet == [bmps : BOOLEAN, imps : BOOLEAN,
             offloads : SUBSET {"arp", "ns", "gtk", "power", "host"}]

LinkSet == [vif : BOOLEAN, step : {"none", "joined", "sta", "assoc", "left"}, sta_assoc : BOOLEAN,
            is_joining : BOOLEAN, bss : BOOLEAN, encrypt : {"none", "wep", "ccmp"}, aid : BOOLEAN,
            encrypted : BOOLEAN, stakey : {"none", "wep", "ccmp"}, bsskey : BOOLEAN,
            pairwise : BOOLEAN, group : BOOLEAN]

RatesSet == [five : BOOLEAN, mask : Masks \cup {{}},
             dsss : SUBSET RatesOf(Rates2G, 0 .. 3), ofdm : SUBSET RatesOf(Rates5G, 0 .. 7)]

AggSet == [drv : {"none", "start", "oper"}, mac : {"none", "start", "oper"}, fw : BOOLEAN,
           rx : BOOLEAN]

(* What the error labels of start and probe are about.                     *)
Started == {"smd", "pools", "ctl", "fw", "dxe"}
Probed  == {"hw", "hal_buf", "ept", "tx_enable", "tx_rings", "mmio", "ccu", "dxe",
            "registered", "nv"}
Kept    == {"tx_enable", "tx_rings"}

DevShape ==
  /\ DOMAIN dev = {"five", "bound", "probed", "started", "up", "stopping", "caps"}
  /\ dev.five \in BOOLEAN
  /\ dev.bound \in BOOLEAN /\ dev.up \in BOOLEAN /\ dev.stopping \in BOOLEAN /\ dev.caps \in BOOLEAN
  /\ dev.probed \subseteq Probed
  /\ dev.started \subseteq Started

(* The interrupts are off at least once while the host sleeps.             *)
PmSet == [asleep : BOOLEAN, irq : 0 .. MaxIrqDepth, failed : BOOLEAN]

PmShape == pm \in PmSet /\ (pm.asleep => pm.irq > 0)

(* The driver's books of a software scan say what the firmware's session   *)
(* is at, and the commands have come in its order.                         *)
Books(s) ==
  /\ s \in SwSet
  /\ s.fw # "bad"
  /\ s.init <=> s.fw \in {"init", "chan"}
  /\ s.chan # 0 <=> s.fw = "chan"

(* The driver knows of mac80211's scan, which is over before a stop.       *)
Turns == (sw.scan <=> mac.scan = "sw") /\ (dev.stopping => ~sw.scan)

Shape ==
  /\ DevShape /\ PmShape /\ sw \in SwSet /\ Turns
  /\ scan_offload \in BOOLEAN
  /\ hw \in HwSet /\ mac \in MacSet /\ radio \in RadioSet /\ link \in LinkSet
  /\ rates \in RatesSet /\ agg \in AggSet
  /\ channel \in {0} \cup ScanChannels

(* mac80211's scan is in one of its phases, away from home in one of them. *)
Phases ==
  /\ mac.scan = "sw" <=> mac.phase # "none"
  /\ mac.phase # "away" => mac.chan = mac.home

(* Outside a scan there is no session.  In one that began on an access     *)
(* point's channel, there is one exactly on other channels, as long as all *)
(* of its commands are done.                                               *)
Sessions ==
  /\ ~sw.scan => sw.op = 0 /\ sw.fw = "none"
  /\ sw.scan => link.step \in {"none", "assoc", "left"} /\ sw.op \in {0, mac.home}
  /\ sw.scan /\ link.step = "assoc" => sw.op # 0
  /\ sw.scan /\ sw.op # 0 /\ ~sw.lost =>
       IF mac.chan = mac.home THEN sw.fw = "none" ELSE sw.chan = mac.chan
  /\ link.step = "assoc" => link.sta_assoc

(* The radio is tuned to the channel that scans return to.                 *)
TunedHome == channel # 0 => channel = mac.home /\ Tuned(channel)

Awake == radio.bmps => mac.ps /\ mac.phase \in {"none", "begin", "end"}

ScanInv == Books(sw) /\ Phases /\ Sessions /\ TunedHome /\ Awake

RatesInv ==
  rates = NoRates \/ \E mask \in Masks, five \in BOOLEAN :
                       (five => mask \subseteq 0 .. 7) /\ rates = AllowedRates(mask, five)

(* The keys mac80211 has are those of an association.                      *)
KeysInv ==
  /\ link.step # "none" => link.bss
  /\ link.step = "assoc" => link.aid
  /\ link.pairwise \/ link.group => link.step = "assoc"

LinkInv == KeysAgree /\ KeysInv /\ AggAgrees /\ RatesInv

UnwindInv ==
  /\ dev.up => dev.bound
  /\ pm.asleep => dev.up /\ ~dev.stopping
  /\ ~link.sta_assoc => radio.offloads \subseteq (IF pm.failed THEN {"arp", "ns", "gtk"} ELSE {})
  /\ DeviceUnwinds

-------------------------------------------------------------------------------
(* What the steps of start and probe take.                                 *)
LEMMA StartTakes ==
  /\ Before(StartSteps, 7) \ {"nv"} = Started
  /\ \A k \in 1 .. 7 : Before(StartSteps, k) \subseteq Started \cup {"nv"}
  /\ \A k \in 1 .. 6 : Before(StartSteps, k) \ StartUndo(k) \subseteq {"nv"}
<1>1. \A k \in 1 .. 7 : Before(StartSteps, k) =
        {s \in {"smd", "pools", "ctl", "nv", "fw", "dxe"} :
           \E i \in 1 .. k - 1 : s = StartSteps[i]}
  BY DEF Before, StartSteps
<1>2. \A k \in 1 .. 7 : Before(StartSteps, k) \subseteq Started \cup {"nv"}
  BY <1>1 DEF Started
<1>3. Before(StartSteps, 7) = Started \cup {"nv"}
  BY <1>1 DEF Started, StartSteps
<1>4. \A k \in 1 .. 6 : Before(StartSteps, k) \ StartUndo(k) \subseteq {"nv"}
  <2> SUFFICES ASSUME NEW k \in 1 .. 6
               PROVE  Before(StartSteps, k) \ StartUndo(k) \subseteq {"nv"}
    OBVIOUS
  <2>1. CASE k \in 1 .. 3
    BY <2>1 DEF Before, StartSteps, StartUndo
  <2>2. CASE k \in 4 .. 6
    BY <2>2 DEF Before, StartSteps, StartUndo
  <2> QED BY <2>1, <2>2
<1> QED BY <1>2, <1>3, <1>4 DEF Started

LEMMA ProbeTakes ==
  /\ \A k \in 1 .. 10 : Before(ProbeSteps, k) \subseteq Probed
  /\ \A k \in 1 .. 9 : Before(ProbeSteps, k) \ ((IF k >= 9 THEN {"mmio"} ELSE {}) \cup ProbeUndo(k))
                         \subseteq Kept
<1>1. \A k \in 1 .. 10 : Before(ProbeSteps, k) \subseteq Probed
  BY DEF Before, ProbeSteps, Probed
<1>2. ASSUME NEW k \in 1 .. 9
      PROVE  Before(ProbeSteps, k) \ ((IF k >= 9 THEN {"mmio"} ELSE {}) \cup ProbeUndo(k))
               \subseteq Kept
  <2>1. CASE k = 1
    BY <2>1 DEF Before, ProbeSteps, ProbeUndo, Kept
  <2>2. CASE k \in 2 .. 3
    BY <2>2 DEF Before, ProbeSteps, ProbeUndo, Kept
  <2>3. CASE k \in 4 .. 6
    BY <2>3 DEF Before, ProbeSteps, ProbeUndo, Kept
  <2>4. CASE k = 7
    BY <2>4 DEF Before, ProbeSteps, ProbeUndo, Kept
  <2>5. CASE k = 8
    BY <2>5 DEF Before, ProbeSteps, ProbeUndo, Kept
  <2>6. CASE k = 9
    BY <2>6 DEF Before, ProbeSteps, ProbeUndo, Kept
  <2> QED BY <2>1, <2>2, <2>3, <2>4, <2>5, <2>6
<1> QED BY <1>1, <1>2

(* The sleeping host's offloads.                                           *)
LEMMA OffloadsTaken ==
  \A k \in 1 .. 6 : Before(OffloadSteps, k) \subseteq {"arp", "ns", "gtk", "power", "host"}
  BY DEF Before, OffloadSteps

LEMMA OffloadsEarly ==
  \A k \in 1 .. 4 : Before(OffloadSteps, k) \subseteq {"arp", "ns", "gtk"}
  BY DEF Before, OffloadSteps

-------------------------------------------------------------------------------
(* The firmware's session through the commands of smd.c.                   *)
LEMMA EndTypes ==
  ASSUME NEW s \in SwSet, NEW e \in EndScans(s)
  PROVE  e \in SwSet /\ e.scan = s.scan /\ e.op = s.op
  BY DEF EndScans, Command, SwSet

LEMMA InitTypes ==
  ASSUME NEW s \in SwSet, NEW i \in InitScans(s)
  PROVE  i \in SwSet /\ i.scan = s.scan /\ i.op = s.op
  BY DEF InitScans, Command, SwSet

LEMMA StartTypes ==
  ASSUME NEW s \in SwSet, NEW c \in ScanChannels, NEW t \in StartScans(s, c)
  PROVE  t \in SwSet /\ t.scan = s.scan /\ t.op = s.op
  BY DEF StartScans, Command, SwSet

LEMMA FinishTypes ==
  ASSUME NEW s \in SwSet, NEW f \in FinishScans(s)
  PROVE  f \in SwSet /\ f.scan = s.scan /\ f.op = s.op
  BY DEF FinishScans, Command, SwSet

LEMMA CloseTypes ==
  ASSUME NEW s \in SwSet, NEW f \in CloseScans(s)
  PROVE  f \in SwSet /\ f.scan = s.scan /\ f.op = s.op
<1>1. PICK e \in EndScans(s) : f \in FinishScans(e)
  BY DEF CloseScans
<1> QED BY <1>1, EndTypes, FinishTypes

LEMMA MoveForm ==
  ASSUME NEW s, NEW c, NEW t \in ScanMoves(s, c)
  PROVE  \E e \in EndScans(s) : \E i \in InitScans(e) :
           IF i.init THEN t \in StartScans(i, c) ELSE t = i
<1>1. PICK i \in UNION {InitScans(e) : e \in EndScans(s)} :
        t \in (IF i.init THEN StartScans(i, c) ELSE {i})
  BY DEF ScanMoves
<1> QED BY <1>1

LEMMA ConfigTypes ==
  ASSUME sw \in SwSet, channel \in {0} \cup ScanChannels, NEW c \in ScanChannels, ConfigChannel(c)
  PROVE  sw' \in SwSet /\ sw'.scan = sw.scan /\ sw'.op = sw.op /\ channel' \in {0} \cup ScanChannels
<1>1. CASE sw' \in CloseScans(sw) /\ channel' = channel
  BY <1>1, CloseTypes
<1>2. CASE sw' \in ScanMoves(sw, c) /\ channel' = channel
  <2>1. PICK e \in EndScans(sw) : \E i \in InitScans(e) :
          IF i.init THEN sw' \in StartScans(i, c) ELSE sw' = i
    BY <1>2, MoveForm
  <2>2. PICK i \in InitScans(e) : IF i.init THEN sw' \in StartScans(i, c) ELSE sw' = i
    BY <2>1
  <2>3. e \in SwSet /\ e.scan = sw.scan /\ e.op = sw.op
    BY EndTypes
  <2>4. i \in SwSet /\ i.scan = sw.scan /\ i.op = sw.op
    BY <2>3, InitTypes
  <2> QED BY <1>2, <2>2, <2>4, StartTypes
<1>3. CASE sw' = sw /\ channel' \in {c, channel}
  BY <1>3
<1> QED BY <1>1, <1>2, <1>3 DEF ConfigChannel

(* When the commands that end a session do not fail, the books stay true.  *)
Closing == {"end_scan", "finish_scan"} \cap Faults = {}

LEMMA EndBooks ==
  ASSUME Closing, NEW s, Books(s), NEW e \in EndScans(s)
  PROVE  Books(e) /\ e.chan = 0 /\ e.lost = s.lost
<1>1. CASE s.chan = 0
  BY <1>1 DEF EndScans, Books
<1>2. CASE s.chan # 0
  <2>1. e = [s EXCEPT !.chan = 0, !.fw = "init"]
    BY <1>2 DEF EndScans, Command, Closing, Books, SwSet
  <2> QED BY <1>2, <2>1 DEF Books, SwSet
<1> QED BY <1>1, <1>2

LEMMA CloseBooks ==
  ASSUME Closing, NEW s, Books(s), NEW f \in CloseScans(s)
  PROVE  Books(f) /\ f.fw = "none" /\ f.lost = s.lost
<1>1. PICK e \in EndScans(s) : f \in FinishScans(e)
  BY DEF CloseScans
<1>2. Books(e) /\ e.chan = 0 /\ e.lost = s.lost
  BY EndBooks
<1>3. CASE ~e.init
  <2>1. f = e
    BY <1>1, <1>3 DEF FinishScans
  <2> QED BY <1>2, <1>3, <2>1 DEF Books, SwSet
<1>4. CASE e.init
  <2>1. f = [e EXCEPT !.init = FALSE, !.fw = "none"]
    BY <1>1, <1>2, <1>4 DEF FinishScans, Command, Closing, Books, SwSet
  <2> QED BY <1>2, <2>1 DEF Books, SwSet
<1> QED BY <1>3, <1>4

(* A move that loses no command ends in a session on the channel.          *)
LEMMA MoveBooks ==
  ASSUME Closing, NEW s, Books(s), NEW c \in ScanChannels, NEW t \in ScanMoves(s, c)
  PROVE  Books(t) /\ (s.lost => t.lost) /\ (~t.lost => t.chan = c)
<1>1. PICK e \in EndScans(s) : \E i \in InitScans(e) :
        IF i.init THEN t \in StartScans(i, c) ELSE t = i
  BY MoveForm
<1>2. PICK i \in InitScans(e) : IF i.init THEN t \in StartScans(i, c) ELSE t = i
  BY <1>1
<1>3. Books(e) /\ e.chan = 0 /\ e.lost = s.lost
  BY EndBooks
<1>4. Books(i) /\ i.chan = 0 /\ (s.lost => i.lost) /\ (~i.init => i.lost)
  <2>1. CASE i = e /\ e.init
    BY <1>3, <2>1
  <2>2. CASE ~e.init /\ i = [e EXCEPT !.lost = TRUE]
    BY <1>3, <2>2 DEF Books, SwSet
  <2>3. CASE ~e.init /\ i = [e EXCEPT !.init = TRUE, !.fw = "init"]
    BY <1>3, <2>3 DEF Books, SwSet
  <2> QED BY <1>3, <2>1, <2>2, <2>3 DEF InitScans, Command, Books, SwSet
<1>5. c # 0
  BY WcnAssumption
<1>6. CASE ~i.init
  BY <1>2, <1>4, <1>6
<1>7. CASE i.init
  <2>1. CASE t = [i EXCEPT !.lost = TRUE]
    BY <1>4, <2>1 DEF Books, SwSet
  <2>2. CASE t = [i EXCEPT !.chan = c, !.fw = "chan"]
    BY <1>4, <1>5, <1>7, <2>2 DEF Books, SwSet
  <2>3. i.fw = "init"
    BY <1>4, <1>7 DEF Books
  <2> QED BY <1>2, <1>7, <2>1, <2>2, <2>3 DEF StartScans, Command
<1> QED BY <1>6, <1>7

(* A change of channel keeps the books, and is made by the session in a    *)
(* scan, by the radio outside.                                             *)
LEMMA ConfigBooks ==
  ASSUME Closing, Books(sw), NEW c \in ScanChannels, ConfigChannel(c)
  PROVE  /\ Books(sw') /\ (sw.lost => sw'.lost)
         /\ sw.op = c /\ sw.chan # 0 => sw'.fw = "none"
         /\ sw.op # c /\ sw.scan /\ ~sw'.lost => sw'.chan = c
         /\ sw.scan => channel' = channel
         /\ ~sw.scan /\ sw.chan = 0 => sw' = sw
<1>1. CASE sw.op = c /\ sw.chan # 0
  <2>1. sw' \in CloseScans(sw) /\ channel' = channel
    BY <1>1 DEF ConfigChannel
  <2> QED BY <1>1, <2>1, CloseBooks
<1>2. CASE ~(sw.op = c /\ sw.chan # 0) /\ sw.scan
  <2>1. sw' \in ScanMoves(sw, c) /\ channel' = channel
    BY <1>2 DEF ConfigChannel
  <2> QED BY <1>2, <2>1, MoveBooks
<1>3. CASE ~(sw.op = c /\ sw.chan # 0) /\ ~sw.scan
  <2>1. sw' = sw
    BY <1>3 DEF ConfigChannel
  <2> QED BY <1>3, <2>1
<1> QED BY <1>1, <1>2, <1>3

-------------------------------------------------------------------------------
(* Types.                                                                  *)
LEMMA InitShape == Init => Shape
<1> SUFFICES ASSUME Init PROVE Shape
  OBVIOUS
<1>1. DevShape
  BY DEF Init, DevShape
<1>2. PmShape
  BY DEF Init, PmShape, PmSet, MaxIrqDepth
<1>3. sw \in SwSet
  BY DEF Init, SwSet
<1>t. Turns
  BY DEF Init, Turns, Idle
<1>4. mac \in MacSet
  <2>1. PICK c \in ScanChannels : c <= 14 /\ mac = Idle(c)
    <3>1. \E c \in ScanChannels : c <= 14
      BY WcnAssumption
    <3> QED BY <3>1 DEF Init
  <2> QED BY <2>1 DEF Idle, MacSet
<1>5. rates \in RatesSet
  BY DEF Init, NoRates, RatesSet
<1>6. link \in LinkSet /\ hw \in HwSet /\ agg \in AggSet /\ radio \in RadioSet
  BY DEF Init, NoLink, LinkSet, HwSet, AggSet, RadioSet
<1> QED BY <1>1, <1>2, <1>3, <1>t, <1>4, <1>5, <1>6 DEF Init, Shape

(* What probe and start leave of the device, and suspend of the sleep.     *)
LEMMA ProbeForm ==
  ASSUME Shape, Probe
  PROVE  /\ DevShape' /\ dev'.five = dev.five /\ dev'.up = dev.up /\ dev'.started = dev.started
         /\ dev'.stopping = dev.stopping /\ ~dev.bound
         /\ ~dev'.bound => dev'.probed \subseteq dev.probed \cup Kept
<1>1. PICK k \in IF "start" \in Faults THEN 1 .. 10 ELSE {10} :
        LET got  == Before(ProbeSteps, k) \ (IF k >= 9 THEN {"mmio"} ELSE {})
            kept == IF k = 10 THEN got ELSE got \ ProbeUndo(k)
        IN  dev' = [dev EXCEPT !.bound = (k = 10), !.probed = @ \cup kept]
  BY Zenon DEF Probe
<1>2. k \in 1 .. 10
  OBVIOUS
<1> DEFINE got  == Before(ProbeSteps, k) \ (IF k >= 9 THEN {"mmio"} ELSE {})
           kept == IF k = 10 THEN got ELSE got \ ProbeUndo(k)
           b    == (k = 10)
<1>3. dev' = [dev EXCEPT !.bound = b, !.probed = @ \cup kept]
  BY <1>1, Zenon
<1>4. kept \subseteq Probed /\ (~b => kept \subseteq Kept)
  BY <1>2, ProbeTakes
<1>5. b \in BOOLEAN
  OBVIOUS
<1> HIDE DEF kept, b
<1>6. ~dev.bound
  BY DEF Probe
<1> QED BY <1>3, <1>4, <1>5, <1>6 DEF Shape, DevShape

LEMMA StartForm ==
  ASSUME Shape, Start
  PROVE  /\ DevShape' /\ dev'.five = dev.five /\ dev'.bound = dev.bound
         /\ dev'.stopping = dev.stopping /\ ~dev.up /\ dev.bound
         /\ IF dev'.up THEN dev'.started = Started ELSE dev'.started = {}
<1>1. PICK k \in IF "start" \in Faults THEN 1 .. 7 ELSE {7}, caps \in BOOLEAN :
        LET got  == Before(StartSteps, k)
            kept == IF k = 7 THEN got ELSE got \ StartUndo(k)
        IN  dev' = [dev EXCEPT !.up = (k = 7), !.started = kept \ {"nv"}, !.caps = caps,
                               !.probed = @ \cup (got \cap {"nv"})]
  BY Zenon DEF Start
<1>2. k \in 1 .. 7
  OBVIOUS
<1> DEFINE got  == Before(StartSteps, k)
           kept == IF k = 7 THEN got ELSE got \ StartUndo(k)
           s    == kept \ {"nv"}
           b    == (k = 7)
           nv   == got \cap {"nv"}
<1>3. dev' = [dev EXCEPT !.up = b, !.started = s, !.caps = caps, !.probed = @ \cup nv]
  BY <1>1, Zenon
<1>4. s \subseteq Started /\ nv \subseteq Probed /\ (IF b THEN s = Started ELSE s = {})
  BY <1>2, StartTakes DEF Probed
<1>5. b \in BOOLEAN
  OBVIOUS
<1> HIDE DEF s, b, nv
<1>6. dev.bound /\ ~dev.up
  BY DEF Start
<1> QED BY <1>3, <1>4, <1>5, <1>6 DEF Shape, DevShape

LEMMA SuspendForm ==
  ASSUME Shape, Suspend
  PROVE  /\ Up /\ UNCHANGED <<dev, scan_offload, hw, sw, mac, channel, link, rates, agg>>
         /\ PmShape' /\ radio' \in RadioSet /\ radio'.bmps = radio.bmps
         /\ \/ /\ link.sta_assoc /\ pm' = [pm EXCEPT !.failed = TRUE]
               /\ radio'.offloads \subseteq radio.offloads \cup {"arp", "ns", "gtk"}
            \/ pm'.irq = pm.irq + 1 /\ ~pm'.asleep /\ "suspend_ind" \in Faults
            \/ /\ pm'.irq = pm.irq + 1 /\ pm'.asleep /\ pm'.failed = pm.failed
               /\ IF link.sta_assoc THEN Before(OffloadSteps, 6) \subseteq radio'.offloads
                                    ELSE radio' = radio
<1>1. PICK k \in IF link.sta_assoc
                 THEN {6} \cup (IF "offload" \in Faults THEN 1 .. 4 ELSE {})
                          \cup (IF "suspend_ind" \in Faults THEN {5} ELSE {})
                 ELSE {6} :
        /\ radio' = IF link.sta_assoc
                    THEN [radio EXCEPT !.offloads = @ \cup Before(OffloadSteps, k)] ELSE radio
        /\ pm' = IF k < 5 THEN [pm EXCEPT !.failed = TRUE]
                 ELSE [DisableIrq(pm) EXCEPT !.asleep = (k = 6), !.failed = @ \/ k = 5]
  BY Zenon DEF Suspend
<1>2. k \in 1 .. 6 /\ (k = 5 => "suspend_ind" \in Faults) /\ (k # 6 => link.sta_assoc)
  OBVIOUS
<1>3. /\ Up /\ UNCHANGED <<dev, scan_offload, hw, sw, mac, channel, link, rates, agg>>
      /\ pm.irq < MaxIrqDepth
  BY DEF Suspend
<1> DEFINE t == Before(OffloadSteps, k)
<1>4. t \subseteq {"arp", "ns", "gtk", "power", "host"}
  BY <1>2, OffloadsTaken
<1>5. IF link.sta_assoc THEN radio' = [radio EXCEPT !.offloads = @ \cup t] ELSE radio' = radio
  BY <1>1
<1> HIDE DEF t
<1>6. /\ radio' \in RadioSet /\ radio'.bmps = radio.bmps
      /\ link.sta_assoc => t \subseteq radio'.offloads
  BY <1>4, <1>5 DEF Shape, RadioSet
<1>7. CASE k < 5
  <2>1. pm' = [pm EXCEPT !.failed = TRUE]
    BY <1>1, <1>7, Zenon
  <2>5. link.sta_assoc
    BY <1>2, <1>7
  <2>2. PmShape'
    BY <2>1 DEF Shape, PmShape, PmSet, MaxIrqDepth
  <2>3. t \subseteq {"arp", "ns", "gtk"}
    BY <1>2, <1>7, OffloadsEarly DEF t
  <2>4. radio'.offloads = radio.offloads \cup t
    BY <1>5, <2>5 DEF Shape, RadioSet
  <2> QED BY <1>3, <1>6, <2>1, <2>2, <2>3, <2>4, <2>5
<1>8. CASE k \in 5 .. 6
  <2> DEFINE b == (k = 6)
             m == pm.irq + 1
             f == (pm.failed \/ k = 5)
  <2>1. pm' = [pm EXCEPT !.irq = m, !.asleep = b, !.failed = f]
    <3>1. ~(k < 5)
      BY <1>8
    <3>2. pm' = [DisableIrq(pm) EXCEPT !.asleep = b, !.failed = @ \/ k = 5]
      BY <1>1, <3>1, Zenon DEF b
    <3>3. pm \in PmSet
      BY DEF Shape, PmShape
    <3> QED BY <3>2, <3>3 DEF DisableIrq, PmSet
  <2>2. m \in 1 .. MaxIrqDepth /\ m = pm.irq + 1
    BY <1>3 DEF Shape, PmShape, PmSet, MaxIrqDepth
  <2>3. b \in BOOLEAN /\ f \in BOOLEAN /\ (k = 6 => b) /\ (k = 5 => ~b)
    BY <1>8 DEF Shape, PmShape, PmSet
  <2>7. k = 6 => f = pm.failed
    <3>1. k = 6 => ~(k = 5)
      OBVIOUS
    <3>2. pm.failed \in BOOLEAN
      BY DEF Shape, PmShape, PmSet
    <3> QED BY <3>1, <3>2, Zenon DEF f
  <2> HIDE DEF b, m, f
  <2>8. pm \in PmSet /\ m \in 0 .. MaxIrqDepth /\ m > 0
    BY <2>2 DEF Shape, PmShape, MaxIrqDepth
  <2>9. pm' \in PmSet /\ pm'.irq = m /\ pm'.asleep = b /\ pm'.failed = f
    BY <2>1, <2>3, <2>8 DEF PmSet
  <2>4. pm'.irq = m /\ (pm'.asleep <=> b) /\ pm'.failed = f /\ PmShape'
    BY <2>8, <2>9 DEF PmShape
  <2>5. CASE k = 5
    BY <1>2, <1>3, <1>6, <2>2, <2>3, <2>4, <2>5
  <2>6. CASE k = 6
    <3>1. t = Before(OffloadSteps, 6)
      BY <2>6 DEF t
    <3> QED BY <1>3, <1>5, <1>6, <2>2, <2>3, <2>4, <2>6, <2>7, <3>1
  <2> QED BY <1>8, <2>5, <2>6
<1> QED BY <1>2, <1>7, <1>8

LEMMA DeviceShape ==
  ASSUME Shape, Probe \/ Remove \/ Start \/ StopScan \/ Stop
  PROVE  Shape'
<1>1. CASE Probe
  BY <1>1, ProbeForm DEF Probe, Shape, PmShape, Turns
<1>2. CASE Remove
  <2>1. DevShape'
    BY <1>2 DEF Remove, Shape, DevShape
  <2> QED BY <1>2, <2>1 DEF Remove, Shape, PmShape, Turns
<1>3. CASE Start
  BY <1>3, StartForm DEF Start, Shape, PmShape, Turns
<1>4. CASE StopScan
  <2>1. DevShape'
    BY <1>4 DEF StopScan, Shape, DevShape
  <2>2. mac' \in MacSet /\ hw' \in HwSet
    BY <1>4 DEF StopScan, Shape, ScanCompleted, MacSet, HwSet
  <2>3. mac'.scan = mac.scan
    BY <1>4 DEF StopScan, Shape, ScanCompleted, MacSet
  <2> QED BY <1>4, <2>1, <2>2, <2>3 DEF StopScan, Shape, PmShape, Turns
<1>5. CASE Stop
  <2>1. DevShape'
    BY <1>5 DEF Stop, Shape, DevShape
  <2>2. radio' \in RadioSet /\ hw' \in HwSet /\ sw' \in SwSet /\ sw'.scan = sw.scan /\ PmShape'
    BY <1>5 DEF Stop, Shape, RadioSet, HwSet, SwSet, PmShape, PmSet, MaxIrqDepth
  <2> QED BY <1>5, <2>1, <2>2 DEF Stop, Shape, PmShape, Turns
<1> QED BY <1>1, <1>2, <1>3, <1>4, <1>5

LEMMA ScanShape ==
  ASSUME Shape, Toggle \/ HwScan \/ CancelHwScan \/ Indicate \/ MacDone \/ MacReturn
                  \/ SwScanComplete
                  \/ \E c \in ScanChannels : MacTune(c) \/ MacScanChannel(c)
  PROVE  Shape'
<1> USE DEF DevShape, PmShape
<1>1. CASE Toggle
  BY <1>1 DEF Toggle, Shape, Turns
<1>2. CASE HwScan
  <2>1. /\ UNCHANGED <<dev, scan_offload, channel, radio, link, rates, agg, pm>>
        /\ mac.scan = "none"
        /\ \/ UNCHANGED <<mac, sw, hw>>
           \/ /\ mac' = [mac EXCEPT !.scan = "sw", !.phase = "begin", !.home = mac.chan]
              /\ sw' = SwScanStart(sw) /\ hw' = hw
           \/ /\ hw' = [req |-> TRUE, aborted |-> FALSE, fw |-> "scan"]
              /\ mac' = [mac EXCEPT !.scan = "hw"] /\ sw' = sw
           \/ hw' = [hw EXCEPT !.req = TRUE, !.aborted = FALSE] /\ mac' = mac /\ sw' = sw
    BY <1>2 DEF HwScan
  <2>2. SwScanStart(sw) \in SwSet /\ SwScanStart(sw).scan
    <3> DEFINE op == IF link.sta_assoc THEN mac.chan ELSE 0
    <3>1. op \in {0} \cup ScanChannels
      BY DEF Shape, MacSet
    <3>2. SwScanStart(sw) = [sw EXCEPT !.scan = TRUE, !.chan = 0, !.op = op]
      BY DEF SwScanStart
    <3> HIDE DEF op
    <3> QED BY <3>1, <3>2 DEF Shape, SwSet
  <2>3. hw' \in HwSet /\ mac' \in MacSet
    <3>4. hw \in HwSet
      BY DEF Shape
    <3>1. hw' \in HwSet
      <4>1. CASE hw' = [hw EXCEPT !.req = TRUE, !.aborted = FALSE]
        BY <3>4, <4>1 DEF HwSet
      <4>2. CASE hw' = [req |-> TRUE, aborted |-> FALSE, fw |-> "scan"]
        BY <4>2 DEF HwSet
      <4> QED BY <2>1, <3>4, <4>1, <4>2
    <3>2. mac \in MacSet
      BY DEF Shape
    <3>3. mac' \in MacSet
      BY <2>1, <3>2 DEF MacSet
    <3> QED BY <3>1, <3>3
  <2>4. sw' \in SwSet /\ Turns'
    <3>1. ~dev.stopping
      BY <1>2 DEF HwScan, Up
    <3> QED BY <2>1, <2>2, <3>1 DEF Shape, Turns, MacSet
  <2> QED BY <2>1, <2>3, <2>4 DEF Shape
<1>3. CASE CancelHwScan
  <2>1. hw' \in HwSet
    BY <1>3 DEF CancelHwScan, Shape, HwSet
  <2> QED BY <1>3, <2>1 DEF CancelHwScan, Shape, Turns
<1>4. CASE Indicate
  <2>1. hw' \in HwSet /\ mac' \in MacSet /\ mac'.scan = mac.scan
    BY <1>4 DEF Indicate, Shape, HwSet, MacSet, ScanCompleted
  <2> QED BY <1>4, <2>1 DEF Indicate, Shape, Turns
<1>5. CASE MacDone
  <2>1. mac' \in MacSet /\ (mac'.scan = "sw" <=> mac.scan = "sw")
    BY <1>5 DEF MacDone, Shape, MacSet
  <2> QED BY <1>5, <2>1 DEF MacDone, Shape, Turns
<1>6. CASE MacReturn
  <2>1. mac' \in MacSet /\ mac'.scan = mac.scan
    BY <1>6 DEF MacReturn, Shape, MacSet
  <2>2. mac.home \in ScanChannels
    BY DEF Shape, MacSet
  <2>3. /\ sw' \in SwSet /\ sw'.scan = sw.scan
        /\ channel' \in {0} \cup ScanChannels
    BY <1>6, <2>2, ConfigTypes DEF MacReturn, Shape
  <2>4. mac.scan = "sw"
    BY <1>6 DEF MacReturn
  <2> QED BY <1>6, <2>1, <2>3, <2>4 DEF MacReturn, Shape, Turns
<1>7. CASE SwScanComplete
  <2>1. PICK e \in CloseScans([sw EXCEPT !.lost = FALSE]) : sw' = [e EXCEPT !.scan = FALSE, !.op = 0]
    BY <1>7 DEF SwScanComplete
  <2>2. e \in SwSet
    <3>1. [sw EXCEPT !.lost = FALSE] \in SwSet
      BY DEF Shape, SwSet
    <3> QED BY <3>1, CloseTypes
  <2>3. sw' \in SwSet /\ ~sw'.scan
    BY <2>1, <2>2 DEF SwSet
  <2>4. mac' \in MacSet /\ mac'.scan = "none"
    BY <1>7 DEF SwScanComplete, Shape, MacSet
  <2> QED BY <1>7, <2>3, <2>4 DEF SwScanComplete, Shape, Turns
<1>8. ASSUME NEW c \in ScanChannels, MacTune(c)
      PROVE  Shape'
  <2>1. mac' \in MacSet /\ mac'.scan = mac.scan
    BY <1>8 DEF MacTune, Shape, MacSet
  <2>2. sw' \in SwSet /\ sw'.scan = sw.scan /\ channel' \in {0} \cup ScanChannels
    BY <1>8, ConfigTypes DEF MacTune, Shape
  <2> QED BY <1>8, <2>1, <2>2 DEF MacTune, Shape, Turns
<1>9. ASSUME NEW c \in ScanChannels, MacScanChannel(c)
      PROVE  Shape'
  <2>1. mac' \in MacSet /\ mac'.scan = mac.scan /\ mac.scan = "sw"
    BY <1>9 DEF MacScanChannel, Shape, MacSet
  <2>2. sw' \in SwSet /\ sw'.scan = sw.scan /\ channel' \in {0} \cup ScanChannels
    BY <1>9, ConfigTypes DEF MacScanChannel, Shape
  <2> QED BY <1>9, <2>1, <2>2 DEF MacScanChannel, Shape, Turns
<1> QED BY <1>1, <1>2, <1>3, <1>4, <1>5, <1>6, <1>7, <1>8, <1>9

LEMMA PowerShape ==
  ASSUME Shape, Suspend \/ Resume \/ \E on \in BOOLEAN : ConfigPs(on) \/ ConfigIdle(on)
  PROVE  Shape'
<1>1. ASSUME NEW on \in BOOLEAN, ConfigPs(on)
      PROVE  Shape'
  <2>1. mac' \in MacSet /\ mac'.scan = mac.scan /\ radio' \in RadioSet
    BY <1>1 DEF ConfigPs, Shape, MacSet, RadioSet
  <2> QED BY <1>1, <2>1 DEF ConfigPs, Shape, Turns, DevShape, PmShape
<1>2. ASSUME NEW on \in BOOLEAN, ConfigIdle(on)
      PROVE  Shape'
  <2>1. mac' \in MacSet /\ mac'.scan = mac.scan /\ radio' \in RadioSet
    BY <1>2 DEF ConfigIdle, Shape, MacSet, RadioSet
  <2> QED BY <1>2, <2>1 DEF ConfigIdle, Shape, Turns, DevShape, PmShape
<1>3. CASE Suspend
  BY <1>3, SuspendForm DEF Shape, Turns, DevShape
<1>4. CASE Resume
  <2>1. PmShape'
    BY <1>4 DEF Resume, Shape, PmShape, PmSet, MaxIrqDepth
  <2>2. radio' \in RadioSet
    BY <1>4 DEF Resume, Shape, RadioSet
  <2> QED BY <1>4, <2>1, <2>2 DEF Resume, Shape, Turns, DevShape
<1> QED BY <1>1, <1>2, <1>3, <1>4

(* The tables hold rates of the bands.                                     *)
LEMMA AllowedTypes ==
  ASSUME NEW mask \in Masks, NEW five \in BOOLEAN
  PROVE  AllowedRates(mask, five) \in RatesSet
<1> DEFINE d == IF five THEN {} ELSE Run(mask, 0, 4)
           r == Run(mask, Cardinality(d), 8)
<1>1. d \subseteq 0 .. 3 /\ r \subseteq 0 .. 7
  BY DEF Run
<1>2. AllowedRates(mask, five) = [five |-> five, mask |-> mask, dsss |-> RatesOf(Rates2G, d),
                                  ofdm |-> RatesOf(Rates5G, r)]
  BY DEF AllowedRates
<1> HIDE DEF d, r
<1>3. RatesOf(Rates2G, d) \subseteq RatesOf(Rates2G, 0 .. 3)
      /\ RatesOf(Rates5G, r) \subseteq RatesOf(Rates5G, 0 .. 7)
  BY <1>1 DEF RatesOf
<1> QED BY <1>2, <1>3 DEF RatesSet

LEMMA LinkShape ==
  ASSUME Shape,
         \/ AddInterface \/ RemoveInterface \/ BssJoin \/ StaAdd \/ Assoc \/ StaRemove \/ BssLeave
         \/ TxStart \/ TxOperational \/ TxStop
         \/ \E on \in BOOLEAN : RxBlockAck(on) \/ DisableKey(on)
         \/ \E pairwise \in BOOLEAN, cipher \in {"wep", "ccmp"} : SetKey(pairwise, cipher)
  PROVE  Shape'
<1>1. UNCHANGED <<dev, scan_offload, hw, sw, mac, channel, radio, pm>>
  BY DEF AddInterface, RemoveInterface, BssJoin, StaAdd, Assoc, StaRemove, BssLeave, TxStart,
         TxOperational, TxStop, RxBlockAck, DisableKey, SetKey
<1>2. link' \in LinkSet
  <2>1. CASE AddInterface \/ RemoveInterface
    BY <2>1 DEF AddInterface, RemoveInterface, Shape, LinkSet, NoLink
  <2>2. CASE BssJoin \/ BssLeave
    <3>1. CASE BssJoin
      <4>1. link' = [link EXCEPT !.step = "joined", !.is_joining = TRUE, !.bss = TRUE]
        BY <3>1 DEF BssJoin
      <4> QED BY <4>1 DEF Shape, LinkSet
    <3>2. CASE BssLeave
      <4>1. link' = [link EXCEPT !.step = "none", !.is_joining = FALSE, !.bss = FALSE,
                                 !.sta_assoc = FALSE, !.encrypt = "none", !.bsskey = FALSE]
        BY <3>2 DEF BssLeave
      <4> QED BY <4>1 DEF Shape, LinkSet
    <3> QED BY <2>2, <3>1, <3>2
  <2>7. CASE Assoc
    <3>1. link' = [link EXCEPT !.step = "assoc", !.is_joining = FALSE, !.sta_assoc = TRUE, !.aid = TRUE]
      BY <2>7 DEF Assoc
    <3> QED BY <3>1 DEF Shape, LinkSet
  <2>6. CASE StaAdd \/ StaRemove
    <3>1. NoSta(link) \in LinkSet
      BY DEF NoSta, Shape, LinkSet
    <3> QED BY <2>6, <3>1 DEF StaAdd, StaRemove, LinkSet
  <2>3. ASSUME NEW on \in BOOLEAN, DisableKey(on)
        PROVE  link' \in LinkSet
    <3> DEFINE s == IF link.aid THEN "none" ELSE link.stakey
               b == link.bsskey /\ ~link.bss
    <3>1. \/ link' = [link EXCEPT !.encrypt = "ccmp", !.encrypted = FALSE, !.pairwise = FALSE,
                                 !.stakey = s]
          \/ link' = [link EXCEPT !.encrypt = "none", !.group = FALSE, !.bsskey = b]
      BY <2>3, Zenon DEF DisableKey
    <3>2. s \in {"none", "wep", "ccmp"} /\ b \in BOOLEAN
      BY DEF Shape, LinkSet
    <3> HIDE DEF s, b
    <3> QED BY <3>1, <3>2 DEF Shape, LinkSet
  <2>4. ASSUME NEW pairwise \in BOOLEAN, NEW cipher \in {"wep", "ccmp"}, SetKey(pairwise, cipher)
        PROVE  link' \in LinkSet
    BY <2>4 DEF SetKey, Shape, LinkSet
  <2>5. CASE link' = link
    BY <2>5 DEF Shape
  <2> QED BY <2>1, <2>2, <2>3, <2>4, <2>5, <2>6, <2>7 DEF TxStart, TxOperational, TxStop, RxBlockAck
<1>3. agg' \in AggSet
  BY DEF Shape, AggSet, AddInterface, RemoveInterface, BssJoin, StaAdd, Assoc, StaRemove, BssLeave,
         TxStart, TxOperational, TxStop, RxBlockAck, DisableKey, SetKey
<1>4. rates' \in RatesSet
  <2>1. CASE Assoc
    <3>1. PICK mask \in Masks : rates' = AllowedRates(mask, mac.chan > 14)
      BY <2>1 DEF Assoc
    <3> DEFINE five == mac.chan > 14
    <3>2. five \in BOOLEAN /\ rates' = AllowedRates(mask, five)
      BY <3>1
    <3> HIDE DEF five
    <3> QED BY <3>2, AllowedTypes
  <2>2. CASE StaRemove
    BY <2>2 DEF StaRemove, NoRates, RatesSet
  <2>3. CASE rates' = rates
    BY <2>3 DEF Shape
  <2> QED BY <2>1, <2>2, <2>3
        DEF AddInterface, RemoveInterface, BssJoin, StaAdd, BssLeave, TxStart, TxOperational,
            TxStop, RxBlockAck, DisableKey, SetKey
<1> QED BY <1>1, <1>2, <1>3, <1>4 DEF Shape, DevShape, PmShape, Turns

LEMMA NextShape ==
  ASSUME Shape, [Next]_vars
  PROVE  Shape'
<1>1. CASE UNCHANGED vars
  BY <1>1 DEF vars, Shape, DevShape, PmShape, Turns
<1>2. CASE Next
  BY <1>2, DeviceShape, ScanShape, PowerShape, LinkShape DEF Next
<1> QED BY <1>1, <1>2

LEMMA ShapeTypes == Shape => TypeOK
<1> SUFFICES ASSUME Shape PROVE TypeOK
  OBVIOUS
<1>1. Before(ProbeSteps, 10) \cup {"nv"} = Probed
  BY DEF Before, ProbeSteps, Probed
<1> QED BY <1>1, StartTakes DEF Shape, DevShape, PmShape, TypeOK, HwSet, SwSet, MacSet, RadioSet,
           LinkSet, RatesSet, AggSet, PmSet

-------------------------------------------------------------------------------
(* Offloaded scans.                                                        *)
LEMMA NextBooks ==
  ASSUME "hw_scan" \notin Faults, Shape, ScanBooksAgree, [Next]_vars
  PROVE  ScanBooksAgree'
<1> USE DEF ScanBooksAgree
<1>1. hw \in HwSet /\ mac \in MacSet /\ DevShape
  BY DEF Shape
<1>2. ASSUME UNCHANGED <<hw, mac>>, dev'.stopping = dev.stopping
      PROVE  ScanBooksAgree'
  BY <1>2
<1>3. CASE StopScan
  <2>1. /\ dev'.stopping = TRUE /\ hw'.req = FALSE /\ hw'.fw = hw.fw /\ mac'.scan = mac.scan
        /\ IF hw.req THEN mac'.done = TRUE ELSE mac'.done = mac.done
    BY <1>1, <1>3 DEF StopScan, ScanCompleted, HwSet, MacSet, DevShape
  <2> QED BY <1>1, <2>1 DEF HwSet, MacSet
<1>4. CASE Stop
  <2>1. hw'.req = hw.req /\ hw'.fw = "idle" /\ mac' = mac
    BY <1>1, <1>4 DEF Stop, HwSet
  <2> QED BY <2>1
<1>5. CASE HwScan
  <2>1. /\ ~hw.req /\ mac.scan = "none" /\ ~mac.done /\ dev' = dev
        /\ \/ UNCHANGED <<hw, mac>>
           \/ mac' = [mac EXCEPT !.scan = "sw", !.phase = "begin", !.home = mac.chan] /\ hw' = hw
           \/ /\ hw' = [req |-> TRUE, aborted |-> FALSE, fw |-> "scan"]
              /\ mac' = [mac EXCEPT !.scan = "hw"]
    BY <1>5 DEF HwScan
  <2>2. CASE UNCHANGED <<hw, mac>>
    BY <2>1, <2>2
  <2>3. CASE mac' = [mac EXCEPT !.scan = "sw", !.phase = "begin", !.home = mac.chan] /\ hw' = hw
    <3>1. mac'.scan = "sw" /\ mac'.done = mac.done
      BY <1>1, <2>3 DEF MacSet
    <3> QED BY <2>1, <2>3, <3>1
  <2>4. CASE /\ hw' = [req |-> TRUE, aborted |-> FALSE, fw |-> "scan"]
             /\ mac' = [mac EXCEPT !.scan = "hw"]
    <3>1. hw'.req = TRUE
      BY <2>4
    <3>2. mac'.scan = "hw" /\ mac'.done = mac.done
      BY <1>1, <2>4 DEF MacSet
    <3> QED BY <2>1, <3>1, <3>2
  <2> QED BY <2>1, <2>2, <2>3, <2>4
<1>6. CASE CancelHwScan
  <2>1. /\ hw'.req = hw.req /\ (hw'.fw # "idle" => hw.fw # "idle") /\ mac' = mac /\ dev' = dev
    BY <1>1, <1>6 DEF CancelHwScan, HwSet
  <2> QED BY <2>1
<1>7. CASE Indicate
  <2>1. hw'.req = FALSE /\ hw'.fw = "idle" /\ mac'.done = TRUE
    BY <1>1, <1>7 DEF Indicate, ScanCompleted, HwSet, MacSet
  <2> QED BY <2>1
<1>8. CASE MacDone
  <2>1. /\ hw' = hw /\ mac.done /\ ~dev.stopping /\ mac'.scan # "hw" /\ ~mac'.done
    BY <1>1, <1>8 DEF MacDone, MacSet
  <2> QED BY <2>1
<1>9. CASE MacReturn
  BY <1>1, <1>9 DEF MacReturn, MacSet
<1>10. CASE SwScanComplete
  BY <1>1, <1>10 DEF SwScanComplete, MacSet
<1>11. ASSUME NEW c \in ScanChannels, MacTune(c) \/ MacScanChannel(c)
       PROVE  ScanBooksAgree'
  BY <1>1, <1>11 DEF MacTune, MacScanChannel, MacSet
<1>12. ASSUME NEW on \in BOOLEAN, ConfigPs(on) \/ ConfigIdle(on)
       PROVE  ScanBooksAgree'
  BY <1>1, <1>12 DEF ConfigPs, ConfigIdle, MacSet
<1>16. CASE Probe \/ Remove \/ Start
  <2>1. dev'.stopping = dev.stopping
    BY <1>1, <1>16, ProbeForm, StartForm DEF Remove, DevShape
  <2> QED BY <1>2, <1>16, <2>1 DEF Probe, Remove, Start
<1>13. AddInterface \/ RemoveInterface \/ Toggle \/ BssJoin \/ StaAdd
         \/ Assoc \/ StaRemove \/ BssLeave \/ TxStart \/ TxOperational \/ TxStop \/ Suspend \/ Resume
         \/ UNCHANGED vars => UNCHANGED <<dev, hw, mac>>
  BY DEF AddInterface, RemoveInterface, Toggle, BssJoin, StaAdd, Assoc,
         StaRemove, BssLeave, TxStart, TxOperational, TxStop, Suspend, Resume, vars
<1>14. ASSUME NEW on \in BOOLEAN, RxBlockAck(on) \/ DisableKey(on)
       PROVE  UNCHANGED <<dev, hw, mac>>
  BY <1>14 DEF RxBlockAck, DisableKey
<1>15. ASSUME NEW pairwise \in BOOLEAN, NEW cipher \in {"wep", "ccmp"}, SetKey(pairwise, cipher)
       PROVE  UNCHANGED <<dev, hw, mac>>
  BY <1>15 DEF SetKey
<1> QED
  BY <1>2, <1>3, <1>4, <1>5, <1>6, <1>7, <1>8, <1>9, <1>10, <1>11, <1>12, <1>13, <1>14, <1>15, <1>16
    DEF Next

(* As long as the firmware takes the scans it is asked for, the driver     *)
(* holds a scan request exactly while mac80211 waits for its completion,   *)
(* the firmware scans for mac80211 or not at all, and a scan is reported   *)
(* once, or again by an indication that falls into stop(), however cancel, *)
(* stop and the firmware's late answer interleave.                         *)
THEOREM OffloadedScansTrue ==
  ASSUME "hw_scan" \notin Faults
  PROVE  Spec => []ScanBooksAgree
<1>1. Init => ScanBooksAgree
  BY DEF Init, ScanBooksAgree, Idle
<1>2. Shape /\ ScanBooksAgree /\ [Next]_vars => Shape' /\ ScanBooksAgree'
  BY NextShape, NextBooks
<1> QED BY <1>1, <1>2, InitShape, PTL DEF Spec

-------------------------------------------------------------------------------
(* Start, probe and sleep.                                                 *)
LEMMA NextUnwind ==
  ASSUME "suspend_ind" \notin Faults, Shape, UnwindInv, [Next]_vars
  PROVE  UnwindInv'
<1> USE DEF UnwindInv, DeviceUnwinds
<1>0. Before(StartSteps, 7) \ {"nv"} = Started
  BY StartTakes
<1>1. CASE Probe
  <2>1. BootUnwinds' /\ ~dev.up
    BY <1>1, ProbeForm DEF BootUnwinds, Kept, Shape, DevShape
  <2> QED BY <1>1, <2>1, ProbeForm DEF Probe, IrqBalanced, SleepComplete, AwakeAnswers
<1>2. CASE Remove
  <2>1. /\ ~dev.up /\ dev'.bound = FALSE /\ dev'.probed = {} /\ dev'.up = dev.up
        /\ dev'.started = dev.started /\ dev'.stopping = dev.stopping
    BY <1>2 DEF Remove, Shape, DevShape
  <2> QED BY <1>2, <2>1 DEF Remove, BootUnwinds, IrqBalanced, SleepComplete, AwakeAnswers
<1>3. CASE Start
  <2>1. BootUnwinds'
    BY <1>0, <1>3, StartForm DEF BootUnwinds
  <2> QED BY <1>3, <2>1, StartForm DEF Start, IrqBalanced, SleepComplete, AwakeAnswers
<1>4. CASE StopScan
  <2>1. /\ dev'.bound = dev.bound /\ dev'.probed = dev.probed /\ dev'.up = dev.up
        /\ dev'.started = dev.started
    BY <1>4 DEF StopScan, Shape, DevShape
  <2>2. ~pm.asleep
    BY <1>4 DEF StopScan, Up
  <2> QED BY <1>4, <2>1, <2>2 DEF StopScan, BootUnwinds, IrqBalanced, SleepComplete, AwakeAnswers
<1>5. CASE Stop
  <2>1. /\ dev'.bound = dev.bound /\ dev'.probed = dev.probed /\ dev'.up = FALSE
        /\ dev'.started = {} /\ ~pm.asleep
    BY <1>5 DEF Stop, Shape, DevShape, Started
  <2>2. pm'.irq = pm.irq /\ ~pm'.asleep /\ radio'.offloads = {}
    BY <1>5, <2>1 DEF Stop, Shape, PmShape, PmSet
  <2> QED BY <2>1, <2>2 DEF BootUnwinds, IrqBalanced, SleepComplete, AwakeAnswers
<1>6. CASE Suspend
  <2>1. /\ UNCHANGED <<dev, link>> /\ Up /\ pm.irq = 0
        /\ \/ /\ link.sta_assoc /\ pm' = [pm EXCEPT !.failed = TRUE]
              /\ radio'.offloads \subseteq radio.offloads \cup {"arp", "ns", "gtk"}
           \/ /\ pm'.irq = pm.irq + 1 /\ pm'.asleep /\ pm'.failed = pm.failed
              /\ IF link.sta_assoc THEN Before(OffloadSteps, 6) \subseteq radio'.offloads
                                   ELSE radio' = radio
    BY <1>6, SuspendForm DEF Up, IrqBalanced
  <2>2. CASE /\ pm'.irq = pm.irq + 1 /\ pm'.asleep /\ pm'.failed = pm.failed
             /\ IF link.sta_assoc THEN Before(OffloadSteps, 6) \subseteq radio'.offloads
                                  ELSE radio' = radio
    BY <2>1, <2>2 DEF BootUnwinds, IrqBalanced, SleepComplete, AwakeAnswers, Up
  <2>3. CASE /\ link.sta_assoc /\ pm' = [pm EXCEPT !.failed = TRUE]
             /\ radio'.offloads \subseteq radio.offloads \cup {"arp", "ns", "gtk"}
    <3>1. pm'.irq = pm.irq /\ pm'.asleep = pm.asleep /\ pm'.failed = TRUE /\ ~pm.asleep
      BY <2>1, <2>3 DEF Shape, PmShape, PmSet, Up
    <3> QED BY <2>1, <2>3, <3>1 DEF BootUnwinds, IrqBalanced, SleepComplete, AwakeAnswers
  <2> QED BY <2>1, <2>2, <2>3
<1>7. CASE Resume
  <2>1. pm'.irq = 0 /\ ~pm'.asleep /\ dev' = dev /\ link' = link
        /\ pm'.failed = (pm.failed /\ ~link.sta_assoc)
    BY <1>7 DEF Resume, Shape, PmShape, PmSet, IrqBalanced
  <2>2. IF link.sta_assoc THEN radio'.offloads = {} ELSE radio' = radio
    BY <1>7 DEF Resume, Shape, RadioSet
  <2> QED BY <2>1, <2>2 DEF BootUnwinds, IrqBalanced, SleepComplete, AwakeAnswers
<1>8. ASSUME NEW on \in BOOLEAN, ConfigPs(on) \/ ConfigIdle(on)
      PROVE  UnwindInv'
  <2>1. ~pm.asleep /\ UNCHANGED <<dev, pm, link>> /\ radio'.offloads = radio.offloads
    BY <1>8 DEF ConfigPs, ConfigIdle, Up, Shape, RadioSet
  <2> QED BY <2>1 DEF BootUnwinds, IrqBalanced, SleepComplete, AwakeAnswers
<1>9. ASSUME UNCHANGED <<dev, pm, radio>>, pm.asleep => link' = link
      PROVE  UnwindInv'
  BY <1>9 DEF BootUnwinds, IrqBalanced, SleepComplete, AwakeAnswers
<1>10. Toggle \/ HwScan \/ CancelHwScan \/ Indicate \/ MacDone \/ MacReturn \/ SwScanComplete
         \/ TxStart \/ TxOperational \/ TxStop \/ UNCHANGED vars
         => UNCHANGED <<dev, pm, radio, link>>
  BY DEF Toggle, HwScan, CancelHwScan, Indicate, MacDone, MacReturn, SwScanComplete, TxStart,
         TxOperational, TxStop, vars
<1>11. ASSUME NEW c \in ScanChannels, MacTune(c) \/ MacScanChannel(c)
       PROVE  UNCHANGED <<dev, pm, radio, link>>
  BY <1>11 DEF MacTune, MacScanChannel
<1>12. AddInterface \/ RemoveInterface \/ BssJoin \/ StaAdd \/ Assoc \/ StaRemove \/ BssLeave
         => UNCHANGED <<dev, pm, radio>> /\ ~pm.asleep
  BY DEF AddInterface, RemoveInterface, BssJoin, StaAdd, Assoc, StaRemove, BssLeave, Up
<1>13. ASSUME NEW on \in BOOLEAN, RxBlockAck(on) \/ DisableKey(on)
       PROVE  UNCHANGED <<dev, pm, radio>> /\ ~pm.asleep
  <2>1. CASE RxBlockAck(on)
    BY <2>1 DEF RxBlockAck, Up
  <2>2. CASE DisableKey(on)
    BY <2>2 DEF DisableKey, Up
  <2> QED BY <1>13, <2>1, <2>2
<1>14. ASSUME NEW pairwise \in BOOLEAN, NEW cipher \in {"wep", "ccmp"}, SetKey(pairwise, cipher)
       PROVE  UNCHANGED <<dev, pm, radio>> /\ ~pm.asleep
  BY <1>14 DEF SetKey, Up
<1> QED
  BY <1>1, <1>2, <1>3, <1>4, <1>5, <1>6, <1>7, <1>8, <1>9, <1>10, <1>11, <1>12, <1>13, <1>14
    DEF Next

(* As long as the firmware answers for the host that goes to sleep, what   *)
(* start, probe and suspend took is given back in full by stop, remove and *)
(* resume, in any order mac80211 calls them; by start's failures too, but  *)
(* for two state bits by probe's, and but for the ARP, NS and GTK offloads *)
(* by suspend's.                                                           *)
THEOREM DeviceAlwaysUnwinds ==
  ASSUME "suspend_ind" \notin Faults
  PROVE  Spec => []DeviceUnwinds
<1>1. Init => UnwindInv
  <2> SUFFICES ASSUME Init PROVE UnwindInv
    OBVIOUS
  <2>1. /\ ~dev.up /\ ~dev.bound /\ dev.started = {} /\ dev.probed = {}
        /\ ~pm.asleep /\ pm.irq = 0 /\ radio.offloads = {}
    BY DEF Init
  <2> QED BY <2>1 DEF UnwindInv, DeviceUnwinds, BootUnwinds, IrqBalanced, SleepComplete, AwakeAnswers
<1>2. Shape /\ UnwindInv /\ [Next]_vars => Shape' /\ UnwindInv'
  BY NextShape, NextUnwind
<1>3. UnwindInv => DeviceUnwinds
  BY DEF UnwindInv
<1> QED BY <1>1, <1>2, <1>3, InitShape, PTL DEF Spec

-------------------------------------------------------------------------------
(* The access point.                                                       *)

(* A run of rates from the first is an interval.                           *)
LEMMA RunIsInterval ==
  ASSUME NEW mask \in SUBSET (0 .. 11)
  PROVE  \E m \in 0 .. 4 : /\ Run(mask, 0, 4) = 0 .. m - 1
                           /\ m = 4 \/ m \notin mask
<1> DEFINE R == Run(mask, 0, 4)
<1>0. R = {i \in 0 .. 3 : \A k \in 0 .. i : k \in mask}
  BY DEF Run
<1> SUFFICES \E m \in 0 .. 4 : R = 0 .. m - 1 /\ (m = 4 \/ m \notin mask)
  OBVIOUS
<1> HIDE DEF R
<1>1. CASE 0 \notin mask
  <2>1. R = 0 .. 0 - 1
    BY <1>0, <1>1
  <2> QED BY <1>1, <2>1
<1>2. CASE 0 \in mask /\ 1 \notin mask
  <2>1. R = 0 .. 1 - 1
    BY <1>0, <1>2
  <2> QED BY <1>2, <2>1
<1>3. CASE 0 \in mask /\ 1 \in mask /\ 2 \notin mask
  <2>1. R = 0 .. 2 - 1
    BY <1>0, <1>3
  <2> QED BY <1>3, <2>1
<1>4. CASE 0 \in mask /\ 1 \in mask /\ 2 \in mask /\ 3 \notin mask
  <2>1. R = 0 .. 3 - 1
    BY <1>0, <1>4
  <2> QED BY <1>4, <2>1
<1>5. CASE 0 \in mask /\ 1 \in mask /\ 2 \in mask /\ 3 \in mask
  <2>1. R = 0 .. 4 - 1
    BY <1>0, <1>5
  <2> QED BY <1>5, <2>1
<1> QED BY <1>1, <1>2, <1>3, <1>4, <1>5

(* What the tables hold: on 2.4 GHz the rates of the mask up to the first  *)
(* it lacks, as the OFDM rates are the same in both tables.                *)
LEMMA AllowedKept ==
  ASSUME NEW mask \in SUBSET (0 .. 11), NEW five \in BOOLEAN, five => mask \subseteq 0 .. 7,
         rates = AllowedRates(mask, five)
  PROVE  RatesKept
<1> DEFINE d == IF five THEN {} ELSE Run(mask, 0, 4)
<1>1. /\ rates.dsss = RatesOf(Rates2G, d) /\ rates.ofdm = RatesOf(Rates5G, Run(mask, Cardinality(d), 8))
      /\ rates.five = five /\ rates.mask = mask
  BY DEF AllowedRates
<1>2. CASE five
  <2>1. d = {} /\ Cardinality(d) = 0
    BY <1>2, FS_EmptySet
  <2>2. rates.dsss = {} /\ rates.ofdm = RatesOf(Rates5G, Run(mask, 0, 8))
    BY <1>1, <2>1 DEF RatesOf
  <2>3. Run(mask, 0, 8) \subseteq mask
    BY DEF Run
  <2>4. ASSUME NEW n \in 0 .. 12, mask = 0 .. n - 1
        PROVE  Run(mask, 0, 8) = mask
    BY <1>2, <2>4 DEF Run
  <2>5. RatesOf(Rates5G, Run(mask, 0, 8)) \subseteq RatesOf(Rates5G, mask)
    BY <2>3 DEF RatesOf
  <2>6. rates.five = TRUE
    BY <1>1, <1>2
  <2> QED BY <1>1, <2>2, <2>4, <2>5, <2>6 DEF RatesKept
<1>3. CASE ~five
  <2>1. PICK m \in 0 .. 4 : d = 0 .. m - 1 /\ (m = 4 \/ m \notin mask)
    BY <1>3, RunIsInterval
  <2>2. d \subseteq mask
    BY <1>3 DEF Run
  <2> HIDE DEF d
  <2>3. Cardinality(d) = m
    <3>1. Cardinality(0 .. m - 1) = IF 0 > m - 1 THEN 0 ELSE (m - 1) - 0 + 1
      BY FS_Interval
    <3> QED BY <2>1, <3>1
  <2>4. rates.ofdm = RatesOf(Rates5G, Run(mask, m, 8))
    BY <1>1, <2>3
  <2>5. CASE m # 4
    <3>1. Run(mask, m, 8) = {}
      BY <2>1, <2>5 DEF Run
    <3>2. rates.ofdm = {}
      BY <2>4, <3>1 DEF RatesOf
    <3>3. ASSUME NEW n \in 0 .. 12, mask = 0 .. n - 1
          PROVE  d = mask
      BY <2>1, <2>2, <2>5, <3>3
    <3> QED BY <1>1, <1>3, <2>2, <3>2, <3>3 DEF RatesOf, RatesKept
  <2>6. CASE m = 4
    <3> DEFINE f == Run(mask, 4, 8)
    <3>1. \A i \in f : i \in 0 .. 7 /\ i + 4 \in mask
      BY DEF Run
    <3>2. \A i \in 0 .. 7 : Rates5G[i + 1] = Rates2G[i + 4 + 1]
      BY DEF Rates5G, Rates2G
    <3>3. rates.ofdm = {Rates5G[i + 1] : i \in f}
      BY <2>4, <2>6 DEF RatesOf
    <3>4. ASSUME NEW n \in 0 .. 12, mask = 0 .. n - 1
          PROVE  \A j \in mask : j \in d \/ (j - 4 \in f /\ j - 4 \in 0 .. 7)
      BY <2>1, <2>6, <3>4 DEF Run
    <3> HIDE DEF f
    <3>5. rates.ofdm \subseteq RatesOf(Rates2G, mask)
      BY <3>1, <3>2, <3>3 DEF RatesOf
    <3>6. ASSUME NEW n \in 0 .. 12, mask = 0 .. n - 1
          PROVE  RatesOf(Rates2G, mask) \subseteq rates.dsss \cup rates.ofdm
      <4> SUFFICES ASSUME NEW j \in mask
                   PROVE  Rates2G[j + 1] \in rates.dsss \cup rates.ofdm
        BY DEF RatesOf
      <4>1. CASE j \in d
        BY <1>1, <4>1 DEF RatesOf
      <4>2. CASE j - 4 \in f /\ j - 4 \in 0 .. 7
        <5>1. Rates5G[(j - 4) + 1] \in rates.ofdm
          BY <3>3, <4>2
        <5>2. Rates5G[(j - 4) + 1] = Rates2G[(j - 4) + 4 + 1]
          BY <3>2, <4>2
        <5>3. (j - 4) + 4 + 1 = j + 1
          OBVIOUS
        <5> QED BY <5>1, <5>2, <5>3
      <4> QED BY <3>4, <3>6, <4>1, <4>2
    <3>7. rates.dsss \subseteq RatesOf(Rates2G, mask)
      BY <1>1, <2>2 DEF RatesOf
    <3> QED BY <1>1, <1>3, <3>5, <3>6, <3>7 DEF RatesKept
  <2> QED BY <2>5, <2>6
<1> QED BY <1>2, <1>3

LEMMA RatesFromInv ==
  ASSUME RatesInv
  PROVE  RatesKept
<1>1. CASE rates = NoRates
  BY <1>1 DEF NoRates, RatesKept, RatesOf
<1>2. CASE rates # NoRates
  <2>1. PICK mask \in Masks, five \in BOOLEAN :
          (five => mask \subseteq 0 .. 7) /\ rates = AllowedRates(mask, five)
    BY <1>2 DEF RatesInv
  <2>2. mask \in SUBSET (0 .. 11)
    BY WcnAssumption
  <2> QED BY <2>1, <2>2, AllowedKept, Zenon
<1> QED BY <1>1, <1>2

LEMMA NextLink ==
  ASSUME "add_ba" \notin Faults, Shape, LinkInv, [Next]_vars
  PROVE  LinkInv'
<1>1. CASE UNCHANGED <<link, agg, rates>>
  BY <1>1 DEF LinkInv, KeysAgree, KeysInv, AggAgrees, RatesInv
<1>2. link \in LinkSet /\ agg \in AggSet /\ KeysAgree /\ KeysInv /\ AggAgrees /\ RatesInv
  BY DEF Shape, LinkInv
<1>3. CASE TxStart \/ TxOperational \/ TxStop
  <2>1. AggAgrees' /\ UNCHANGED <<link, rates>>
    BY <1>2, <1>3 DEF TxStart, TxOperational, TxStop, AggSet, AggAgrees
  <2> QED BY <1>2, <2>1 DEF LinkInv, KeysAgree, KeysInv, RatesInv
<1>4. CASE Assoc
  <2>1. KeysAgree' /\ KeysInv' /\ UNCHANGED agg
    BY <1>2, <1>4 DEF Assoc, LinkSet, KeysAgree, KeysInv
  <2>2. RatesInv'
    <3>1. PICK mask \in Masks : /\ mac.chan > 14 => mask \subseteq 0 .. 7
                                /\ rates' = AllowedRates(mask, mac.chan > 14)
      BY <1>4 DEF Assoc
    <3> DEFINE five == mac.chan > 14
    <3>2. five \in BOOLEAN /\ (five => mask \subseteq 0 .. 7) /\ rates' = AllowedRates(mask, five)
      BY <3>1
    <3> HIDE DEF five
    <3> QED BY <3>2 DEF RatesInv
  <2> QED BY <1>2, <2>1, <2>2 DEF LinkInv, AggAgrees
<1>5. CASE StaRemove
  <2>1. KeysAgree' /\ KeysInv' /\ AggAgrees'
    BY <1>2, <1>5 DEF StaRemove, NoSta, LinkSet, AggSet, KeysAgree, KeysInv, AggAgrees
  <2> QED BY <1>5, <2>1 DEF StaRemove, LinkInv, RatesInv
<1>6. CASE AddInterface \/ RemoveInterface \/ BssJoin \/ StaAdd \/ BssLeave
  <2>1. KeysAgree' /\ KeysInv'
    <3>1. CASE AddInterface
      BY <3>1 DEF AddInterface, NoLink, KeysAgree, KeysInv
    <3>2. CASE RemoveInterface
      BY <1>2, <3>2 DEF RemoveInterface, LinkSet, KeysAgree, KeysInv
    <3>3. CASE BssJoin
      BY <1>2, <3>3 DEF BssJoin, LinkSet, KeysAgree, KeysInv
    <3>4. CASE StaAdd
      BY <1>2, <3>4 DEF StaAdd, NoSta, LinkSet, KeysAgree, KeysInv
    <3>5. CASE BssLeave
      BY <1>2, <3>5 DEF BssLeave, LinkSet, KeysAgree, KeysInv
    <3> QED BY <1>6, <3>1, <3>2, <3>3, <3>4, <3>5
  <2>2. UNCHANGED <<agg, rates>>
    BY <1>6 DEF AddInterface, RemoveInterface, BssJoin, StaAdd, BssLeave
  <2> QED BY <1>2, <2>1, <2>2 DEF LinkInv, AggAgrees, RatesInv
<1>7. ASSUME NEW on \in BOOLEAN, RxBlockAck(on)
      PROVE  LinkInv'
  <2>1. AggAgrees' /\ UNCHANGED <<link, rates>>
    BY <1>2, <1>7 DEF RxBlockAck, AggSet, AggAgrees
  <2> QED BY <1>2, <2>1 DEF LinkInv, KeysAgree, KeysInv, RatesInv
<1>8. ASSUME NEW on \in BOOLEAN, DisableKey(on)
      PROVE  LinkInv'
  <2>1. KeysAgree' /\ KeysInv' /\ UNCHANGED <<agg, rates>>
    BY <1>2, <1>8 DEF DisableKey, LinkSet, KeysAgree, KeysInv
  <2> QED BY <1>2, <2>1 DEF LinkInv, AggAgrees, RatesInv
<1>9. ASSUME NEW pairwise \in BOOLEAN, NEW cipher \in {"wep", "ccmp"}, SetKey(pairwise, cipher)
      PROVE  LinkInv'
  <2>1. KeysAgree' /\ KeysInv' /\ UNCHANGED <<agg, rates>>
    BY <1>2, <1>9 DEF SetKey, LinkSet, KeysAgree, KeysInv
  <2> QED BY <1>2, <2>1 DEF LinkInv, AggAgrees, RatesInv
<1>10. Probe \/ Remove \/ Start \/ StopScan \/ Stop \/ Toggle \/ HwScan \/ CancelHwScan \/ Indicate
         \/ MacDone \/ MacReturn \/ SwScanComplete \/ Suspend \/ Resume \/ UNCHANGED vars
         => UNCHANGED <<link, agg, rates>>
  BY DEF Probe, Remove, Start, StopScan, Stop, Toggle, HwScan, CancelHwScan, Indicate, MacDone,
         MacReturn, SwScanComplete, Suspend, Resume, vars
<1>11. ASSUME NEW c \in ScanChannels, MacTune(c) \/ MacScanChannel(c)
       PROVE  UNCHANGED <<link, agg, rates>>
  BY <1>11 DEF MacTune, MacScanChannel
<1>12. ASSUME NEW on \in BOOLEAN, ConfigPs(on) \/ ConfigIdle(on)
       PROVE  UNCHANGED <<link, agg, rates>>
  BY <1>12 DEF ConfigPs, ConfigIdle
<1> QED
  BY <1>1, <1>3, <1>4, <1>5, <1>6, <1>7, <1>8, <1>9, <1>10, <1>11, <1>12 DEF Next

(* As long as the firmware takes the aggregation sessions it is asked for, *)
(* it holds a key for all that is sent encrypted, the pairwise and group   *)
(* keys of mac80211 as long as these exist and none of a station that is   *)
(* gone (its copy of a WEP key stays until then), both sides agree on the  *)
(* aggregation session, and the tables of rates hold none the access point *)
(* lacks.                                                                  *)
THEOREM LinkStaysTrue ==
  ASSUME "add_ba" \notin Faults
  PROVE  Spec => []LinkAgrees
<1>1. Init => LinkInv
  BY DEF Init, LinkInv, KeysAgree, KeysInv, AggAgrees, RatesInv, NoLink
<1>2. Shape /\ LinkInv /\ [Next]_vars => Shape' /\ LinkInv'
  BY NextShape, NextLink
<1>3. LinkInv => LinkAgrees
  BY RatesFromInv DEF LinkInv, LinkAgrees
<1> QED BY <1>1, <1>2, <1>3, InitShape, PTL DEF Spec

-------------------------------------------------------------------------------
(* Software scans.                                                         *)

(* A scan moves to another channel, or returns from one.                   *)
LEMMA MoveSessions ==
  ASSUME Closing, Shape, ScanInv, NEW c \in ScanChannels, sw.scan,
         mac' = [mac EXCEPT !.chan = c, !.phase = mac'.phase],
         IF c # mac.chan THEN ConfigChannel(c) ELSE UNCHANGED <<sw, channel>>,
         UNCHANGED <<link, dev>>
  PROVE  Books(sw') /\ Sessions' /\ TunedHome' /\ mac'.chan = c /\ mac'.home = mac.home
<1>1. mac'.chan = c /\ mac'.home = mac.home
  BY DEF Shape, MacSet
<1>2. CASE c = mac.chan
  <2>1. UNCHANGED <<sw, channel>>
    BY <1>2
  <2> QED BY <1>1, <1>2, <2>1 DEF ScanInv, Sessions, TunedHome, Tuned, Bands
<1>3. CASE c # mac.chan
  <2>1. /\ Books(sw') /\ sw'.scan = sw.scan /\ sw'.op = sw.op /\ channel' = channel
        /\ sw.lost => sw'.lost
        /\ sw.op = c /\ sw.chan # 0 => sw'.fw = "none"
        /\ sw.op # c /\ ~sw'.lost => sw'.chan = c
    BY <1>3, ConfigBooks, ConfigTypes DEF Shape, ScanInv
  <2>2. ASSUME sw.op # 0, ~sw'.lost
        PROVE  IF c = mac.home THEN sw'.fw = "none" ELSE sw'.chan = c
    <3>1. sw.op = mac.home /\ ~sw.lost
      BY <2>1, <2>2 DEF ScanInv, Sessions
    <3>2. mac.chan # 0 /\ (c = mac.home => sw.chan # 0)
      <4>1. mac.chan # 0
        BY WcnAssumption DEF Shape, MacSet
      <4> QED BY <1>3, <2>2, <3>1, <4>1 DEF ScanInv, Sessions
    <3> QED BY <2>1, <2>2, <3>1, <3>2
  <2>3. Sessions'
    BY <1>1, <2>1, <2>2 DEF ScanInv, Sessions
  <2>4. TunedHome'
    BY <1>1, <2>1 DEF ScanInv, TunedHome, Tuned, Bands
  <2> QED BY <1>1, <2>1, <2>3, <2>4
<1> QED BY <1>2, <1>3

LEMMA NextScan ==
  ASSUME Closing, Shape, Shape', ScanInv, [Next]_vars
  PROVE  ScanInv'
<1>1. mac \in MacSet /\ Books(sw) /\ Turns /\ radio \in RadioSet /\ link \in LinkSet /\ mac' \in MacSet
  BY DEF Shape, ScanInv
<1>d. DevShape
  BY DEF Shape
<1> USE DEF ScanInv
<1>2. CASE UNCHANGED <<dev, sw, mac, channel, radio, link>>
  BY <1>2 DEF Phases, Sessions, TunedHome, Awake, Tuned, Bands
<1>3. ASSUME UNCHANGED <<sw, mac, channel, radio>>, dev'.five = dev.five,
             link'.step = "assoc" => link'.sta_assoc,
             sw.scan => /\ link'.step \in {"none", "assoc", "left"}
                        /\ link'.step = "assoc" => link.step = "assoc"
      PROVE  ScanInv'
  BY <1>3 DEF Phases, Sessions, TunedHome, Awake, Tuned, Bands
<1>4. CASE Probe \/ Remove \/ Start
  <2>1. dev'.five = dev.five
    BY <1>4, <1>d DEF Probe, Remove, Start, DevShape
  <2> QED BY <1>3, <1>4, <2>1 DEF Probe, Remove, Start, Sessions
<1>5. CASE StopScan
  <2>1. dev'.five = dev.five /\ UNCHANGED <<sw, channel, radio, link>>
    BY <1>5, <1>d DEF StopScan, DevShape
  <2>2. /\ mac'.scan = mac.scan /\ mac'.phase = mac.phase /\ mac'.chan = mac.chan
        /\ mac'.home = mac.home /\ mac'.ps = mac.ps
    BY <1>1, <1>5 DEF StopScan, ScanCompleted, MacSet
  <2> QED BY <2>1, <2>2 DEF Phases, Sessions, TunedHome, Awake, Tuned, Bands
<1>6. CASE Stop
  <2>0. ~sw.scan
    BY <1>6, <1>1 DEF Stop, Turns
  <2>3. sw' = sw
    BY <1>1, <1>6, <2>0 DEF Stop, Sessions, Books, SwSet
  <2>1. dev'.five = dev.five /\ UNCHANGED <<sw, mac, channel, link>> /\ ~radio'.bmps
    BY <1>6, <1>d, <2>3 DEF Stop, DevShape
  <2> QED BY <2>1 DEF Phases, Sessions, TunedHome, Awake, Tuned, Bands
<1>7. CASE AddInterface \/ RemoveInterface \/ BssJoin \/ StaAdd \/ Assoc \/ StaRemove \/ BssLeave
  <2>1. UNCHANGED <<dev, sw, mac, channel, radio>>
    BY <1>7 DEF AddInterface, RemoveInterface, BssJoin, StaAdd, Assoc, StaRemove, BssLeave
  <2>2. /\ link'.step = "assoc" => link'.sta_assoc
        /\ sw.scan => /\ link'.step \in {"none", "assoc", "left"}
                      /\ link'.step = "assoc" => link.step = "assoc"
    BY <1>1, <1>7 DEF AddInterface, RemoveInterface, BssJoin, StaAdd, Assoc, StaRemove, BssLeave,
                      NoLink, NoSta, LinkSet, Sessions, Turns
  <2> QED BY <1>3, <2>1, <2>2
<1>8. ASSUME NEW on \in BOOLEAN, DisableKey(on)
      PROVE  ScanInv'
  <2>1. link'.step = link.step /\ link'.sta_assoc = link.sta_assoc
    BY <1>1, <1>8 DEF DisableKey, LinkSet
  <2> QED BY <1>3, <1>8, <2>1 DEF DisableKey, Sessions
<1>9. ASSUME NEW pairwise \in BOOLEAN, NEW cipher \in {"wep", "ccmp"}, SetKey(pairwise, cipher)
      PROVE  ScanInv'
  <2>1. link'.step = link.step /\ link'.sta_assoc = link.sta_assoc
    BY <1>1, <1>9 DEF SetKey, LinkSet
  <2> QED BY <1>3, <1>9, <2>1 DEF SetKey, Sessions
<1>10. Toggle \/ CancelHwScan \/ TxStart \/ TxOperational \/ TxStop \/ UNCHANGED vars
         => UNCHANGED <<dev, sw, mac, channel, radio, link>>
  BY DEF Toggle, CancelHwScan, TxStart, TxOperational, TxStop, vars
<1>11. ASSUME NEW on \in BOOLEAN, RxBlockAck(on)
       PROVE  UNCHANGED <<dev, sw, mac, channel, radio, link>>
  BY <1>11 DEF RxBlockAck
<1>12. CASE Indicate \/ MacDone
  <2>1. UNCHANGED <<dev, sw, channel, radio, link>>
    BY <1>12 DEF Indicate, MacDone
  <2>2. /\ mac'.scan = "sw" <=> mac.scan = "sw"
        /\ mac'.phase = mac.phase /\ mac'.chan = mac.chan
        /\ mac'.home = mac.home /\ mac'.ps = mac.ps
    BY <1>1, <1>12 DEF Indicate, MacDone, ScanCompleted, MacSet
  <2> QED BY <2>1, <2>2 DEF Phases, Sessions, TunedHome, Awake, Tuned, Bands
<1>13. CASE HwScan
  <2>1. /\ UNCHANGED <<dev, channel, radio, link>>
        /\ mac.scan = "none" /\ link.step \in {"none", "assoc"}
        /\ \/ UNCHANGED <<mac, sw>>
           \/ /\ mac' = [mac EXCEPT !.scan = "sw", !.phase = "begin", !.home = mac.chan]
              /\ sw' = SwScanStart(sw)
           \/ mac' = [mac EXCEPT !.scan = "hw"] /\ sw' = sw
    BY <1>13 DEF HwScan
  <2>2. CASE UNCHANGED <<mac, sw>>
    BY <1>2, <2>1, <2>2
  <2>3. CASE mac' = [mac EXCEPT !.scan = "hw"] /\ sw' = sw
    <3>1. /\ mac'.scan = "hw" /\ mac'.phase = mac.phase /\ mac'.chan = mac.chan
          /\ mac'.home = mac.home /\ mac'.ps = mac.ps
      BY <1>1, <2>3 DEF MacSet
    <3> QED BY <2>1, <2>3, <3>1 DEF Phases, Sessions, TunedHome, Awake, Tuned, Bands
  <2>4. CASE /\ mac' = [mac EXCEPT !.scan = "sw", !.phase = "begin", !.home = mac.chan]
             /\ sw' = SwScanStart(sw)
    <3>1. /\ mac'.scan = "sw" /\ mac'.phase = "begin" /\ mac'.chan = mac.chan
          /\ mac'.home = mac.chan /\ mac'.ps = mac.ps /\ mac.chan = mac.home /\ mac.chan # 0
          /\ mac.phase = "none"
      BY <1>1, <2>1, <2>4, WcnAssumption DEF MacSet, Phases
    <3> DEFINE op == IF link.sta_assoc THEN mac.chan ELSE 0
    <3>2. sw' = [sw EXCEPT !.scan = TRUE, !.chan = 0, !.op = op]
      BY <2>4 DEF SwScanStart
    <3>3. op \in {0, mac.chan} /\ (link.sta_assoc => op # 0)
      BY <3>1
    <3> HIDE DEF op
    <3>4. sw'.scan /\ sw'.op = op /\ sw'.fw = "none" /\ Books(sw')
      <4>1. sw.fw = "none" /\ op \in {0} \cup ScanChannels
        BY <1>1, <2>1, <3>3 DEF Sessions, Turns, MacSet
      <4> QED BY <1>1, <3>2, <4>1 DEF Books, SwSet
    <3> QED BY <2>1, <3>1, <3>3, <3>4 DEF Phases, Sessions, TunedHome, Awake, Tuned, Bands
  <2> QED BY <2>1, <2>2, <2>3, <2>4
<1>14. ASSUME NEW c \in ScanChannels, MacTune(c)
       PROVE  ScanInv'
  <2>1. /\ mac'.scan = mac.scan /\ mac'.phase = mac.phase /\ mac'.chan = c
        /\ mac'.home = c /\ mac'.ps = mac.ps
    BY <1>1, <1>14 DEF MacTune, MacSet
  <2>2. ~sw.scan /\ sw.chan = 0
    BY <1>1, <1>14 DEF MacTune, Turns, Books, Sessions
  <2>3. sw' = sw /\ channel' = c
    BY <1>14, <2>2 DEF MacTune, ConfigChannel
  <2>4. UNCHANGED <<dev, radio, link>> /\ Tuned(c)
    BY <1>14 DEF MacTune
  <2> QED BY <2>1, <2>2, <2>3, <2>4 DEF Phases, Sessions, TunedHome, Awake, Tuned, Bands
<1>15. ASSUME NEW c \in ScanChannels, MacScanChannel(c)
       PROVE  ScanInv'
  <2>1. /\ mac'.scan = mac.scan /\ mac'.phase = "away" /\ mac'.ps = mac.ps /\ ~mac.ps
        /\ sw.scan /\ mac.scan = "sw"
    BY <1>1, <1>15 DEF MacScanChannel, MacSet, Turns
  <2>2. mac' = [mac EXCEPT !.chan = c, !.phase = mac'.phase]
    BY <1>1, <1>15 DEF MacScanChannel, MacSet
  <2>3. UNCHANGED <<dev, radio, link>>
        /\ IF c # mac.chan THEN ConfigChannel(c) ELSE UNCHANGED <<sw, channel>>
    BY <1>15 DEF MacScanChannel
  <2>4. Books(sw') /\ Sessions' /\ TunedHome'
    BY <2>1, <2>2, <2>3, MoveSessions
  <2> QED BY <2>1, <2>3, <2>4 DEF Phases, Awake
<1>16. CASE MacReturn
  <2>1. /\ mac'.scan = mac.scan /\ mac'.phase \in {"paused", "end"} /\ mac'.ps = mac.ps
        /\ mac'.phase = "paused" => mac.phase = "away"
        /\ mac'.chan = mac.home /\ sw.scan /\ mac.scan = "sw" /\ mac.phase # "none"
    BY <1>1, <1>16 DEF MacReturn, MacSet, Turns
  <2>2. mac' = [mac EXCEPT !.chan = mac.home, !.phase = mac'.phase]
    BY <1>1, <1>16 DEF MacReturn, MacSet
  <2>3. UNCHANGED <<dev, radio, link>> /\ mac.home \in ScanChannels
        /\ IF mac.home # mac.chan THEN ConfigChannel(mac.home) ELSE UNCHANGED <<sw, channel>>
    BY <1>1, <1>16 DEF MacReturn, MacSet
  <2>4. Books(sw') /\ Sessions' /\ TunedHome' /\ mac'.home = mac.home
    BY <2>1, <2>2, <2>3, MoveSessions
  <2> QED BY <2>1, <2>3, <2>4 DEF Phases, Awake
<1>17. CASE SwScanComplete
  <2>1. PICK e \in CloseScans([sw EXCEPT !.lost = FALSE]) : sw' = [e EXCEPT !.scan = FALSE, !.op = 0]
    BY <1>17 DEF SwScanComplete
  <2>2. Books(e) /\ e.fw = "none"
    <3>1. Books([sw EXCEPT !.lost = FALSE])
      BY <1>1 DEF Books, SwSet
    <3> QED BY <3>1, CloseBooks
  <2>3. Books(sw') /\ sw'.fw = "none" /\ ~sw'.scan /\ sw'.op = 0
    BY <2>1, <2>2 DEF Books, SwSet
  <2>4. /\ mac'.scan = "none" /\ mac'.phase = "none" /\ mac'.chan = mac.chan /\ mac.phase = "end"
        /\ mac'.home = mac.home /\ mac'.ps = mac.ps
    BY <1>1, <1>17 DEF SwScanComplete, MacSet
  <2>5. UNCHANGED <<dev, channel, radio, link>>
    BY <1>17 DEF SwScanComplete
  <2> QED BY <2>3, <2>4, <2>5 DEF Phases, Sessions, TunedHome, Awake, Tuned, Bands
<1>18. ASSUME NEW on \in BOOLEAN, ConfigPs(on)
       PROVE  ScanInv'
  <2>1. /\ mac'.scan = mac.scan /\ mac'.phase = mac.phase /\ mac'.chan = mac.chan
        /\ mac'.home = mac.home /\ mac'.ps = on
    BY <1>1, <1>18 DEF ConfigPs, MacSet
  <2>2. UNCHANGED <<dev, sw, channel, link>>
    BY <1>18 DEF ConfigPs
  <2>3. radio'.bmps => on /\ mac.phase = "none"
    <3>1. radio'.bmps => on /\ ~sw.scan
      BY <1>1, <1>18 DEF ConfigPs, RadioSet
    <3> QED BY <1>1, <3>1 DEF Turns, Phases
  <2> QED BY <2>1, <2>2, <2>3 DEF Phases, Sessions, TunedHome, Awake, Tuned, Bands
<1>19. ASSUME NEW on \in BOOLEAN, ConfigIdle(on)
       PROVE  ScanInv'
  <2>1. /\ mac'.scan = mac.scan /\ mac'.phase = mac.phase /\ mac'.chan = mac.chan
        /\ mac'.home = mac.home /\ mac'.ps = mac.ps
    BY <1>1, <1>19 DEF ConfigIdle, MacSet
  <2>2. UNCHANGED <<dev, sw, channel, link>> /\ radio'.bmps = radio.bmps
    BY <1>1, <1>19 DEF ConfigIdle, RadioSet
  <2> QED BY <2>1, <2>2 DEF Phases, Sessions, TunedHome, Awake, Tuned, Bands
<1>20. CASE Suspend \/ Resume
  <2>1. UNCHANGED <<dev, sw, mac, channel, link>>
    BY <1>20 DEF Suspend, Resume
  <2>2. radio'.bmps = radio.bmps
    BY <1>1, <1>20 DEF Suspend, Resume, RadioSet
  <2> QED BY <2>1, <2>2 DEF Phases, Sessions, TunedHome, Awake, Tuned, Bands
<1> QED
  BY <1>2, <1>4, <1>5, <1>6, <1>7, <1>8, <1>9, <1>10, <1>11, <1>12, <1>13, <1>14, <1>15, <1>16,
     <1>17, <1>18, <1>19, <1>20
    DEF Next

(* The channels of the bands, in the order of the survey.                  *)
LEMMA FiveDistinct ==
  \A i, j \in 1 .. 25 : Channels5G[i] > 14 /\ (Channels5G[i] = Channels5G[j] => i = j)
<1>1. \A i \in 1 .. 24 : Channels5G[i] < Channels5G[i + 1]
  BY DEF Channels5G
<1>2. \A i \in 1 .. 25 : Channels5G[i] \in 15 .. 165
  BY DEF Channels5G
<1> QED BY <1>2 DEF Channels5G

LEMMA SurveyFromTuned ==
  ASSUME TunedHome, dev.five \in BOOLEAN
  PROVE  SurveyTrue
<1> SUFFICES ASSUME channel # 0
             PROVE  \E i \in 0 .. 38 : \A j \in 0 .. 38 : InUse(j) <=> j = i
  BY DEF SurveyTrue
<1>1. Len(Channels2G) = 14 /\ DOMAIN Channels2G = 1 .. 14
  BY DEF Channels2G
<1>2. Len(Channels5G) = 25 /\ DOMAIN Channels5G = 1 .. 25 /\ Channels5G # Channels2G
  BY DEF Channels5G, Channels2G
<1>3. \A j \in 0 .. 38 : SurveyChannel(j) =
        IF j < 14 THEN j + 1 ELSE IF dev.five THEN Channels5G[j - 13] ELSE 0
  <2> SUFFICES ASSUME NEW j \in 0 .. 38
               PROVE  SurveyChannel(j) =
                        IF j < 14 THEN j + 1 ELSE IF dev.five THEN Channels5G[j - 13] ELSE 0
    OBVIOUS
  <2>1. CASE j < 14
    BY <1>1, <2>1 DEF SurveyChannel, SurveyBand, Bands, Channels2G
  <2>2. CASE j >= 14
    <3>1. SurveyBand(j) = Channels5G
      BY <1>1, <2>2 DEF SurveyBand
    <3>2. Channels5G \in Bands <=> dev.five
      BY <1>2 DEF Bands
    <3>3. SurveyChannel(j) =
            IF Channels5G \in Bands /\ j - 14 < 25 THEN Channels5G[j - 14 + 1] ELSE 0
      BY <1>1, <1>2, <2>2, <3>1 DEF SurveyChannel
    <3>4. j - 14 < 25 /\ j - 14 + 1 = j - 13
      BY <2>2
    <3> QED BY <2>2, <3>2, <3>3, <3>4
  <2> QED BY <2>1, <2>2
<1>4. \/ channel \in 1 .. 14
      \/ dev.five /\ \E b \in 1 .. 25 : Channels5G[b] = channel
  BY <1>1, <1>2 DEF TunedHome, Tuned, Bands, Channels2G
<1>5. CASE channel \in 1 .. 14
  <2>1. \A j \in 0 .. 38 : InUse(j) <=> j = channel - 1
    BY <1>3, <1>5, FiveDistinct DEF InUse
  <2> QED BY <1>5, <2>1
<1>6. ASSUME dev.five, NEW b \in 1 .. 25, Channels5G[b] = channel
      PROVE  \E i \in 0 .. 38 : \A j \in 0 .. 38 : InUse(j) <=> j = i
  <2>1. \A j \in 0 .. 38 : InUse(j) <=> j = b + 13
    BY <1>3, <1>6, FiveDistinct DEF InUse
  <2> QED BY <2>1
<1> QED BY <1>4, <1>5, <1>6

LEMMA SoundFromScanInv ==
  ASSUME Shape, ScanInv
  PROVE  ScanSound
<1>1. TypeOK
  BY ShapeTypes
<1>2. ScanProtocol
  BY DEF ScanInv, Books, ScanProtocol
<1>3. DataOnChannel
  BY DEF Shape, ScanInv, Phases, Sessions, Turns, DataOnChannel, MacSet
<1>4. BackOnChannel
  BY DEF Shape, ScanInv, Phases, Sessions, Turns, TunedHome, Books, BackOnChannel
<1>5. AwakeInScan
  BY DEF Shape, ScanInv, Phases, Awake, AwakeInScan
<1>6. SurveyTrue
  BY SurveyFromTuned DEF Shape, DevShape, ScanInv
<1> QED BY <1>1, <1>2, <1>3, <1>4, <1>5, <1>6 DEF ScanSound

(* As long as the firmware takes the commands that end a scan session,     *)
(* whether or not it takes those that open one, the commands come in its   *)
(* order, no session outlives its scan, and after it the radio is on the   *)
(* channel that mac80211 and the survey say, awake whenever it scans; and  *)
(* data is sent outside a session until a command of the scan fails.       *)
THEOREM SoftwareScansSound ==
  ASSUME {"end_scan", "finish_scan"} \cap Faults = {}
  PROVE  Spec => []ScanSound
<1>1. Init => ScanInv
  <2> SUFFICES ASSUME Init PROVE ScanInv
    OBVIOUS
  <2>1. \E c \in ScanChannels : mac = Idle(c)
    <3>1. \E c \in ScanChannels : c <= 14
      BY WcnAssumption
    <3> QED BY <3>1 DEF Init
  <2> QED BY <2>1 DEF Init, ScanInv, Books, SwSet, Phases, Sessions, TunedHome, Awake, Idle, NoLink
<1>2. Shape /\ ScanInv /\ [Next]_vars => Shape' /\ ScanInv'
  BY NextShape, NextScan DEF Closing
<1>3. Shape /\ ScanInv => ScanSound
  BY SoundFromScanInv
<1> QED BY <1>1, <1>2, <1>3, InitShape, PTL DEF Spec
===============================================================================
