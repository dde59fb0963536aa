------------------------------- MODULE Wcn36xx -------------------------------
(***************************************************************************)
(* The Wi-Fi driver (wcn36xx/main.c): the operations mac80211 calls, on a  *)
(* station interface, and the firmware's answers.  mac80211 holds the      *)
(* wiphy mutex through every operation, so operations do not overlap; the  *)
(* firmware's scan indication runs on a work queue of its own and takes    *)
(* scan_lock only.  smd.c and the firmware, which are not in this          *)
(* repository, are modelled from how main.c uses them.                     *)
(***************************************************************************)
EXTENDS Integers, Sequences, FiniteSets

CONSTANTS
  ScanChannels,  \* channels mac80211 tunes to: part of those the radios have
  Masks,         \* sets of rate numbers an access point may support
  Faults         \* what may go wrong, see AllFaults

AllFaults == {"start", "init_scan", "start_scan", "end_scan", "finish_scan", "hw_scan", "bmps",
              "offload", "suspend_ind", "toggle", "add_ba"}

Channels2G == [i \in 1 .. 14 |-> i]

Channels5G == <<36, 40, 44, 48, 52, 56, 60, 64, 100, 104, 108, 112, 116, 120, 124,
                128, 132, 136, 140, 144, 149, 153, 157, 161, 165>>

(* Bit rates, in units of 100 kbit/s, in the order of the masks' bits.      *)
Rates2G == <<10, 20, 55, 110, 60, 90, 120, 180, 240, 360, 480, 540>>

Rates5G == <<60, 90, 120, 180, 240, 360, 480, 540>>

RatesOf(table, bits) == {table[i + 1] : i \in bits}

ASSUME WcnAssumption ==
  /\ ScanChannels \subseteq 1 .. 165 /\ ScanChannels \cap 1 .. 14 # {}
  /\ Masks \subseteq SUBSET (0 .. 11)
  /\ Faults \subseteq AllFaults

MaxIrqDepth == 2        \* bound: nested disables of the interrupts

VARIABLES
  dev,           \* five (5 GHz), bound, what probe and start hold, started, stopping, caps
  scan_offload,  \* the module parameter
  hw,            \* offloaded scan: scan_req, scan_aborted, the firmware's scan
  sw,            \* software scan: sw_scan, _channel, _opchannel, _init, the firmware's
                 \* session, and whether a command of this scan failed
  mac,           \* mac80211: its scan, where it is tuned, power save, idle
  channel,       \* wcn->channel
  radio,         \* the firmware: bmps, imps, offloads of the sleeping host
  link,          \* the interface and its access point
  rates,         \* supported_rates of the access point, and its mask
  agg,           \* block acknowledgement of one traffic class
  pm             \* asleep, how often the interrupts are disabled, and whether a suspend
                 \* failed since the offloads were last taken back

vars == <<dev, scan_offload, hw, sw, mac, channel, radio, link, rates, agg, pm>>

ProbeSteps == <<"hw", "hal_buf", "ept", "tx_enable", "tx_rings", "mmio", "ccu", "dxe", "registered">>

StartSteps == <<"smd", "pools", "ctl", "nv", "fw", "dxe">>

Before(steps, k) == {steps[i] : i \in 1 .. k - 1}

TypeOK ==
  /\ dev.five \in BOOLEAN
  /\ dev.bound \in BOOLEAN /\ dev.up \in BOOLEAN /\ dev.stopping \in BOOLEAN /\ dev.caps \in BOOLEAN
  /\ dev.probed \subseteq Before(ProbeSteps, 10) \cup {"nv"}
  /\ dev.started \subseteq Before(StartSteps, 7) \ {"nv"}
  /\ scan_offload \in BOOLEAN
  /\ hw \in [req : BOOLEAN, aborted : BOOLEAN, fw : {"idle", "scan", "stop"}]
  /\ sw \in [scan : BOOLEAN, chan : {0} \cup ScanChannels, op : {0} \cup ScanChannels,
             init : BOOLEAN, fw : {"none", "init", "chan", "bad"}, lost : BOOLEAN]
  /\ mac \in [scan : {"none", "hw", "sw"}, done : BOOLEAN, chan : ScanChannels, ps : BOOLEAN,
              idle : BOOLEAN, phase : {"none", "begin", "away", "paused", "end"},
              home : ScanChannels]
  /\ channel \in {0} \cup ScanChannels
  /\ radio \in [bmps : BOOLEAN, imps : BOOLEAN, offloads : SUBSET {"arp", "ns", "gtk", "power", "host"}]
  /\ link \in [vif : BOOLEAN, step : {"none", "joined", "sta", "assoc", "left"}, sta_assoc : BOOLEAN,
               is_joining : BOOLEAN, bss : BOOLEAN, encrypt : {"none", "wep", "ccmp"}, aid : BOOLEAN,
               encrypted : BOOLEAN, stakey : {"none", "wep", "ccmp"}, bsskey : BOOLEAN, pairwise : BOOLEAN, group : BOOLEAN]
  /\ rates \in [five : BOOLEAN, mask : Masks \cup {{}}, 
                dsss : SUBSET RatesOf(Rates2G, 0 .. 3), ofdm : SUBSET RatesOf(Rates5G, 0 .. 7)]
  /\ agg \in [drv : {"none", "start", "oper"}, mac : {"none", "start", "oper"}, fw : BOOLEAN, rx : BOOLEAN]
  /\ pm \in [asleep : BOOLEAN, irq : 0 .. MaxIrqDepth, failed : BOOLEAN]

Idle(c) == [scan |-> "none", done |-> FALSE, chan |-> c, ps |-> FALSE, idle |-> TRUE,
            phase |-> "none", home |-> c]

NoRates == [five |-> FALSE, mask |-> {}, dsss |-> {}, ofdm |-> {}]

NoLink == [vif |-> FALSE, step |-> "none", sta_assoc |-> FALSE, is_joining |-> FALSE, bss |-> FALSE,
           encrypt |-> "none", aid |-> FALSE, encrypted |-> FALSE, stakey |-> "none", bsskey |-> FALSE,
           pairwise |-> FALSE, group |-> FALSE]

NoSta(l) == [l EXCEPT !.aid = FALSE, !.encrypted = FALSE, !.stakey = "none", !.pairwise = FALSE]

Init ==
  /\ dev \in [five : BOOLEAN, bound : {FALSE}, probed : {{}}, started : {{}},
              up : {FALSE}, stopping : {FALSE}, caps : {FALSE}]
  /\ scan_offload = TRUE
  /\ hw = [req |-> FALSE, aborted |-> FALSE, fw |-> "idle"]
  /\ sw = [scan |-> FALSE, chan |-> 0, op |-> 0, init |-> FALSE, fw |-> "none", lost |-> FALSE]
  /\ mac = Idle(CHOOSE c \in ScanChannels : c <= 14)
  /\ channel = 0
  /\ radio = [bmps |-> FALSE, imps |-> FALSE, offloads |-> {}]
  /\ link = NoLink
  /\ rates = NoRates
  /\ agg = [drv |-> "none", mac |-> "none", fw |-> FALSE, rx |-> FALSE]
  /\ pm = [asleep |-> FALSE, irq |-> 0, failed |-> FALSE]

-----------------------------------------------------------------------------
(* Binding, starting and stopping the device                                *)

(* What the error labels of probe, and of the function it gets the memory  *)
(* and interrupts from, give back when step k fails.  The two state bits   *)
(* of shared memory are not among it.                                      *)
ProbeUndo(k) ==
  CASE k = 1 -> {}
    [] k \in 2 .. 3 -> {"hw", "hal_buf"}
    [] k \in 4 .. 6 -> {"hw", "hal_buf", "ept"}
    [] k = 7 -> {"hw", "hal_buf", "ept", "mmio"}
    [] k = 8 -> {"hw", "hal_buf", "ept", "mmio", "ccu"}
    [] k = 9 -> {"hw", "hal_buf", "ept", "ccu", "dxe"}

Probe ==
  /\ ~dev.bound
  /\ \E k \in IF "start" \in Faults THEN 1 .. 10 ELSE {10} :
       LET got  == Before(ProbeSteps, k) \ (IF k >= 9 THEN {"mmio"} ELSE {})
           kept == IF k = 10 THEN got ELSE got \ ProbeUndo(k)
       IN  dev' = [dev EXCEPT !.bound = (k = 10), !.probed = @ \cup kept]
  /\ UNCHANGED <<scan_offload, hw, sw, mac, channel, radio, link, rates, agg, pm>>

Remove ==
  /\ dev.bound /\ ~dev.up
  /\ dev' = [dev EXCEPT !.bound = FALSE, !.probed = {}]
  /\ UNCHANGED <<scan_offload, hw, sw, mac, channel, radio, link, rates, agg, pm>>

StartUndo(k) ==
  CASE k = 1 -> {}
    [] k = 2 -> {"smd"}
    [] k = 3 -> {"smd", "pools"}
    [] k \in 4 .. 5 -> {"smd", "pools", "ctl"}
    [] k = 6 -> {"smd", "pools", "ctl", "fw"}

(* The calibration data, once loaded, is kept until the driver goes.  The  *)
(* exchange of capabilities may fail, and offloaded scans are then off.    *)
Start ==
  /\ dev.bound /\ ~dev.up
  /\ \E k \in IF "start" \in Faults THEN 1 .. 7 ELSE {7}, caps \in BOOLEAN :
       LET got  == Before(StartSteps, k)
           kept == IF k = 7 THEN got ELSE got \ StartUndo(k)
       IN  dev' = [dev EXCEPT !.up = (k = 7), !.started = kept \ {"nv"}, !.caps = caps,
                              !.probed = @ \cup (got \cap {"nv"})]
  /\ UNCHANGED <<scan_offload, hw, sw, mac, channel, radio, link, rates, agg, pm>>

(* mac80211 may call the driver.                                            *)
Up == dev.up /\ ~dev.stopping /\ ~pm.asleep

ScanCompleted(m) == [m EXCEPT !.done = TRUE]

(* The last interface is gone.  A pending scan is completed under          *)
(* scan_lock; the rest of the stop follows once the lock is free.          *)
StopScan ==
  /\ Up /\ ~link.vif /\ mac.scan # "sw"
  /\ dev' = [dev EXCEPT !.stopping = TRUE]
  /\ mac' = IF hw.req THEN ScanCompleted(mac) ELSE mac
  /\ hw' = [hw EXCEPT !.req = FALSE]
  /\ UNCHANGED <<scan_offload, sw, channel, radio, link, rates, agg, pm>>

Stop ==
  /\ dev.stopping
  /\ dev' = [dev EXCEPT !.stopping = FALSE, !.up = FALSE,
                        !.started = @ \ {"fw", "dxe", "smd", "pools", "ctl"}]
  /\ hw' = [hw EXCEPT !.fw = "idle"]
  /\ sw' = [sw EXCEPT !.fw = "none"]
  /\ radio' = [bmps |-> FALSE, imps |-> FALSE, offloads |-> {}]
  /\ pm' = [pm EXCEPT !.failed = FALSE]
  /\ UNCHANGED <<scan_offload, mac, channel, link, rates, agg>>

AddInterface ==
  /\ Up /\ ~link.vif
  /\ link' = [NoLink EXCEPT !.vif = TRUE]
  /\ UNCHANGED <<dev, scan_offload, hw, sw, mac, channel, radio, rates, agg, pm>>

RemoveInterface ==
  /\ Up /\ link.vif /\ link.step = "none" /\ mac.scan # "sw"
  /\ mac.scan = "hw" => hw.aborted \/ mac.done
  /\ link' = [link EXCEPT !.vif = FALSE]
  /\ UNCHANGED <<dev, scan_offload, hw, sw, mac, channel, radio, rates, agg, pm>>

-----------------------------------------------------------------------------
(* Scans                                                                    *)

(* root writes the parameter (0644).                                        *)
Toggle ==
  /\ "toggle" \in Faults \/ mac.scan # "hw"
  /\ scan_offload' = ~scan_offload
  /\ UNCHANGED <<dev, hw, sw, mac, channel, radio, link, rates, agg, pm>>

Offloads == scan_offload /\ dev.caps

SwScanStart(s) ==
  [s EXCEPT !.scan = TRUE, !.chan = 0, !.op = IF link.sta_assoc THEN mac.chan ELSE 0]

(* mac80211 asks for a scan, of more than 48 channels or not.  It falls    *)
(* back to its own scan when the driver says so.                           *)
HwScan ==
  /\ Up /\ link.vif /\ link.step \in {"none", "assoc"} /\ mac.scan = "none" /\ ~mac.done
  /\ ~mac.idle
  /\ \E many \in BOOLEAN :
       \/ /\ ~Offloads \/ many
          /\ mac' = [mac EXCEPT !.scan = "sw", !.phase = "begin", !.home = mac.chan]
          /\ sw' = SwScanStart(sw)
          /\ UNCHANGED hw
       \/ /\ Offloads /\ ~many /\ hw.req            \* -EBUSY
          /\ UNCHANGED <<mac, sw, hw>>
       \/ /\ Offloads /\ ~many /\ ~hw.req
          /\ \/ /\ hw' = [req |-> TRUE, aborted |-> FALSE, fw |-> "scan"]
                /\ mac' = [mac EXCEPT !.scan = "hw"]
             \/ /\ "hw_scan" \in Faults             \* start_hw_scan() fails
                /\ hw' = [hw EXCEPT !.req = TRUE, !.aborted = FALSE]
                /\ mac' = mac
          /\ UNCHANGED sw
  /\ UNCHANGED <<dev, scan_offload, channel, radio, link, rates, agg, pm>>

(* Mutant: the firmware is not told. *)
CancelHwScan_FlagOnly ==
  /\ Up /\ mac.scan = "hw" /\ ~mac.done
  /\ hw' = [hw EXCEPT !.aborted = TRUE, !.fw = @]
  /\ UNCHANGED <<dev, scan_offload, sw, mac, channel, radio, link, rates, agg, pm>>

CancelHwScan ==
  /\ Up /\ mac.scan = "hw" /\ ~mac.done
  /\ hw' = [hw EXCEPT !.aborted = TRUE, !.fw = IF Offloads /\ @ = "scan" THEN "stop" ELSE @]
  /\ UNCHANGED <<dev, scan_offload, sw, mac, channel, radio, link, rates, agg, pm>>

(* Mutant: the indication leaves scan_req set. *)
Indicate_KeepsReq ==
  /\ dev.up /\ hw.fw # "idle"
  /\ hw' = [hw EXCEPT !.fw = "idle"]
  /\ mac' = ScanCompleted(mac)
  /\ UNCHANGED <<dev, scan_offload, sw, channel, radio, link, rates, agg, pm>>

(* The firmware's word that the scan is over, stopped or failed.  It may   *)
(* never come for a scan nobody stopped.                                   *)
Indicate ==
  /\ dev.up /\ hw.fw # "idle"
  /\ hw' = [hw EXCEPT !.req = FALSE, !.fw = "idle"]
  /\ mac' = ScanCompleted(mac)
  /\ UNCHANGED <<dev, scan_offload, sw, channel, radio, link, rates, agg, pm>>

(* mac80211's scan work takes note of the completion.                       *)
MacDone ==
  /\ mac.done /\ ~dev.stopping /\ ~pm.asleep
  /\ mac' = [mac EXCEPT !.done = FALSE, !.scan = IF @ = "hw" THEN "none" ELSE @]
  /\ UNCHANGED <<dev, scan_offload, hw, sw, channel, radio, link, rates, agg, pm>>

(* The firmware's scan session, as smd.c keeps it: what a command can      *)
(* leave.  One that fails moves neither side, and main.c looks at the      *)
(* result of init_scan() only.                                             *)
Command(name, s, done) == {done} \cup (IF name \in Faults THEN {[s EXCEPT !.lost = TRUE]} ELSE {})

InitScans(s) ==
  IF s.init THEN {s}
  ELSE Command("init_scan", s, [s EXCEPT !.init = TRUE, !.fw = IF @ = "none" THEN "init" ELSE "bad"])

StartScans(s, c) ==
  Command("start_scan", s, [s EXCEPT !.chan = c, !.fw = IF @ = "init" THEN "chan" ELSE "bad"])

EndScans(s) ==
  IF s.chan = 0 THEN {s}
  ELSE Command("end_scan", s, [s EXCEPT !.chan = 0, !.fw = IF @ = "chan" THEN "init" ELSE "bad"])

FinishScans(s) ==
  IF ~s.init THEN {s}
  ELSE Command("finish_scan", s, [s EXCEPT !.init = FALSE, !.fw = IF @ = "init" THEN "none" ELSE "bad"])

CloseScans(s) == UNION {FinishScans(e) : e \in EndScans(s)}

(* A move to channel c during a scan: -EIO when init_scan() fails.         *)
ScanMoves(s, c) ==
  UNION {IF i.init THEN StartScans(i, c) ELSE {i} : i \in UNION {InitScans(e) : e \in EndScans(s)}}

(* The WCN3620 has no 5 GHz band.                                           *)
Bands == IF dev.five THEN {Channels2G, Channels5G} ELSE {Channels2G}

Tuned(c) == \E band \in Bands : \E i \in DOMAIN band : band[i] = c

(* Mutant: the return to the operating channel is a move like any. *)
ConfigChannel_NeverCloses(c) ==
  \/ /\ sw.op = c /\ sw.chan # 0 /\ ~sw.scan
     /\ sw' \in CloseScans(sw)
     /\ UNCHANGED channel
  \/ /\ ~(sw.op = c /\ sw.chan # 0 /\ ~sw.scan) /\ sw.scan
     /\ sw' \in ScanMoves(sw, c)
     /\ UNCHANGED channel
  \/ /\ ~(sw.op = c /\ sw.chan # 0 /\ ~sw.scan) /\ ~sw.scan
     /\ channel' = IF Tuned(c) THEN c ELSE channel
     /\ UNCHANGED sw

ConfigChannel(c) ==
  \/ /\ sw.op = c /\ sw.chan # 0
     /\ sw' \in CloseScans(sw)
     /\ UNCHANGED channel
  \/ /\ ~(sw.op = c /\ sw.chan # 0) /\ sw.scan
     /\ sw' \in ScanMoves(sw, c)
     /\ UNCHANGED channel
  \/ /\ ~(sw.op = c /\ sw.chan # 0) /\ ~sw.scan
     /\ channel' = IF Tuned(c) THEN c ELSE channel
     /\ UNCHANGED sw

(* mac80211 tunes outside a scan, before it joins an access point.          *)
MacTune(c) ==
  /\ Up /\ mac.scan # "sw" /\ link.step = "none" /\ ~mac.idle
  /\ c # mac.chan \/ channel = 0
  /\ Tuned(c)
  /\ ConfigChannel(c)
  /\ mac' = [mac EXCEPT !.chan = c, !.home = c]
  /\ UNCHANGED <<dev, scan_offload, hw, radio, link, rates, agg, pm>>

(* A software scan moves to channel c.  Power save is off by then.          *)
MacScanChannel(c) ==
  /\ Up /\ mac.scan = "sw" /\ ~mac.ps /\ Tuned(c)
  /\ mac.phase \in {"begin", "away", "paused"}
  /\ mac' = [mac EXCEPT !.phase = "away", !.chan = c]
  /\ IF c # mac.chan THEN ConfigChannel(c) ELSE UNCHANGED <<sw, channel>>
  /\ UNCHANGED <<dev, scan_offload, hw, radio, link, rates, agg, pm>>

(* It returns to the operating channel, to let data pass or to end.         *)
MacReturn ==
  /\ Up /\ mac.scan = "sw"
  /\ \/ mac.phase = "away" /\ mac' = [mac EXCEPT !.phase = "paused", !.chan = mac.home]
     \/ mac.phase \in {"begin", "away", "paused"} /\ mac' = [mac EXCEPT !.phase = "end", !.chan = mac.home]
  /\ IF mac.home # mac.chan THEN ConfigChannel(mac.home) ELSE UNCHANGED <<sw, channel>>
  /\ UNCHANGED <<dev, scan_offload, hw, radio, link, rates, agg, pm>>

SwScanComplete ==
  /\ Up /\ mac.scan = "sw" /\ mac.phase = "end"
  /\ \E e \in CloseScans([sw EXCEPT !.lost = FALSE]) : sw' = [e EXCEPT !.scan = FALSE, !.op = 0]
  /\ mac' = [mac EXCEPT !.scan = "none", !.phase = "none"]
  /\ UNCHANGED <<dev, scan_offload, hw, channel, radio, link, rates, agg, pm>>

(* Power save: mac80211 allows it to an associated station that is on its  *)
(* channel, in a pause of a scan too.                                      *)
ConfigPs(on) ==
  /\ Up /\ mac.ps # on
  /\ on => link.step = "assoc" /\ mac.phase \in {"none", "paused"}
  /\ mac' = [mac EXCEPT !.ps = on]
  /\ \E b \in IF on /\ ~sw.scan THEN {TRUE} \cup (IF "bmps" \in Faults THEN {radio.bmps} ELSE {})
              ELSE {FALSE} :
       radio' = [radio EXCEPT !.bmps = b]
  /\ UNCHANGED <<dev, scan_offload, hw, sw, channel, link, rates, agg, pm>>

ConfigIdle(on) ==
  /\ Up /\ mac.idle # on
  /\ on => link.step = "none" /\ mac.scan = "none"
  /\ mac' = [mac EXCEPT !.idle = on]
  /\ radio' = [radio EXCEPT !.imps = on]
  /\ UNCHANGED <<dev, scan_offload, hw, sw, channel, link, rates, agg, pm>>

(* The survey: what entry idx says.  Entries run through both bands.        *)
SurveyBand(idx) == IF idx >= Len(Channels2G) THEN Channels5G ELSE Channels2G

SurveyChannel(idx) ==
  LET band == SurveyBand(idx)
      b    == IF idx >= Len(Channels2G) THEN idx - Len(Channels2G) ELSE idx
  IN  IF band \in Bands /\ b < Len(band) THEN band[b + 1] ELSE 0     \* 0: -ENOENT

InUse(idx) == SurveyChannel(idx) # 0 /\ SurveyChannel(idx) = channel

-----------------------------------------------------------------------------
(* The access point: joining, rates, keys, aggregation                      *)

BssJoin ==
  /\ Up /\ link.vif /\ link.step = "none" /\ mac.scan # "sw" /\ ~mac.idle /\ channel = mac.chan
  /\ link' = [link EXCEPT !.step = "joined", !.is_joining = TRUE, !.bss = TRUE]
  /\ UNCHANGED <<dev, scan_offload, hw, sw, mac, channel, radio, rates, agg, pm>>

StaAdd ==
  /\ Up /\ link.step = "joined"
  /\ link' = [NoSta(link) EXCEPT !.step = "sta"]
  /\ UNCHANGED <<dev, scan_offload, hw, sw, mac, channel, radio, rates, agg, pm>>

(* The loops of wcn36xx_update_allowed_rates(): bit i of the mask is read  *)
(* at the bottom of rates, which is shifted only when the bit is set, so   *)
(* the first rate the access point lacks ends both tables.                 *)
Run(mask, first, n) ==
  {i \in 0 .. n - 1 : \A k \in first .. first + i : k \in mask}

AllowedRates(mask, five) ==
  LET dsss == IF five THEN {} ELSE Run(mask, 0, 4)
  IN  [five |-> five, mask |-> mask, dsss |-> RatesOf(Rates2G, dsss),
       ofdm |-> RatesOf(Rates5G, Run(mask, Cardinality(dsss), 8))]

Assoc ==
  /\ Up /\ link.step = "sta"
  /\ link' = [link EXCEPT !.step = "assoc", !.is_joining = FALSE, !.sta_assoc = TRUE, !.aid = TRUE]
  /\ \E mask \in Masks :
       /\ mac.chan > 14 => mask \subseteq 0 .. 7
       /\ rates' = AllowedRates(mask, mac.chan > 14)
  /\ UNCHANGED <<dev, scan_offload, hw, sw, mac, channel, radio, agg, pm>>

(* SET_KEY; a WEP key is shared by the interface and its stations.          *)
SetKey(pairwise, cipher) ==
  /\ Up /\ link.step = "assoc"
  /\ IF pairwise THEN ~link.pairwise /\ cipher # "wep" /\ ~link.encrypted
                 ELSE ~link.group /\ (cipher = "wep" => ~link.pairwise)
  /\ LET l == [link EXCEPT !.encrypt = cipher]
     IN  link' = IF pairwise
                 THEN [l EXCEPT !.encrypted = TRUE, !.stakey = cipher, !.pairwise = TRUE]
                 ELSE [l EXCEPT !.bsskey = TRUE, !.group = TRUE,
                                !.encrypted = @ \/ cipher = "wep",
                                !.stakey = IF cipher = "wep" THEN "wep" ELSE @]
  /\ UNCHANGED <<dev, scan_offload, hw, sw, mac, channel, radio, rates, agg, pm>>

(* Mutant: is_data_encrypted stays set. *)
DisableKey_StaysEncrypted(pairwise) ==
  /\ Up
  /\ IF pairwise
     THEN /\ link.pairwise
          /\ link' = [link EXCEPT !.encrypt = "ccmp", !.pairwise = FALSE,
                                  !.stakey = IF link.aid THEN "none" ELSE @]
     ELSE /\ link.group
          /\ link' = [link EXCEPT !.encrypt = "none", !.group = FALSE, !.bsskey = @ /\ ~link.bss]
  /\ UNCHANGED <<dev, scan_offload, hw, sw, mac, channel, radio, rates, agg, pm>>

DisableKey(pairwise) ==
  /\ Up
  /\ IF pairwise
     THEN /\ link.pairwise
          /\ link' = [link EXCEPT !.encrypt = "ccmp", !.encrypted = FALSE, !.pairwise = FALSE,
                                  !.stakey = IF link.aid THEN "none" ELSE @]
     ELSE /\ link.group
          /\ link' = [link EXCEPT !.encrypt = "none", !.group = FALSE, !.bsskey = @ /\ ~link.bss]
  /\ UNCHANGED <<dev, scan_offload, hw, sw, mac, channel, radio, rates, agg, pm>>

TxStart ==
  /\ Up /\ link.step = "assoc" /\ agg.mac = "none" /\ agg.drv # "oper"
  /\ \/ agg' = [agg EXCEPT !.drv = "start", !.mac = "start", !.fw = TRUE]
     \/ "add_ba" \in Faults /\ agg' = [agg EXCEPT !.drv = "start"]
  /\ UNCHANGED <<dev, scan_offload, hw, sw, mac, channel, radio, link, rates, pm>>

TxOperational ==
  /\ Up /\ agg.mac = "start"
  /\ agg' = [agg EXCEPT !.drv = "oper", !.mac = "oper"]
  /\ UNCHANGED <<dev, scan_offload, hw, sw, mac, channel, radio, link, rates, pm>>

TxStop ==
  /\ Up /\ agg.mac # "none"
  /\ agg' = [agg EXCEPT !.drv = "none", !.mac = "none", !.fw = FALSE]
  /\ UNCHANGED <<dev, scan_offload, hw, sw, mac, channel, radio, link, rates, pm>>

RxBlockAck(on) ==
  /\ Up
  /\ on => link.step = "assoc"
  /\ agg.rx # on
  /\ agg' = [agg EXCEPT !.rx = on]
  /\ UNCHANGED <<dev, scan_offload, hw, sw, mac, channel, radio, link, rates, pm>>

(* The station goes once its keys and sessions are gone, after a failed    *)
(* authentication as well; then the BSSID is cleared.                      *)
StaRemove ==
  /\ Up /\ link.step \in {"sta", "assoc"}
  /\ ~mac.ps /\ ~link.pairwise /\ ~link.group /\ agg.mac = "none" /\ ~agg.rx
  /\ link' = [NoSta(link) EXCEPT !.step = "left"]
  /\ agg' = [agg EXCEPT !.drv = "none"]
  /\ rates' = NoRates
  /\ UNCHANGED <<dev, scan_offload, hw, sw, mac, channel, radio, pm>>

BssLeave ==
  /\ Up /\ link.step \in {"joined", "left"}
  /\ link' = [link EXCEPT !.step = "none", !.is_joining = FALSE, !.bss = FALSE, !.sta_assoc = FALSE,
                          !.encrypt = "none", !.bsskey = FALSE]
  /\ UNCHANGED <<dev, scan_offload, hw, sw, mac, channel, radio, rates, agg, pm>>

-----------------------------------------------------------------------------
(* System sleep                                                             *)

OffloadSteps == <<"arp", "ns", "gtk", "power", "host">>

DisableIrq(p) == [p EXCEPT !.irq = @ + 1]

(* mac80211 cancels a scan before it suspends; a suspend that fails is     *)
(* reported and no resume follows it: what it switched on stays on.        *)
Suspend ==
  /\ Up /\ link.vif /\ mac.scan # "sw" /\ (mac.scan = "hw" => hw.aborted \/ mac.done)
  /\ pm.irq < MaxIrqDepth
  /\ \E k \in IF link.sta_assoc
              THEN {6} \cup (IF "offload" \in Faults THEN 1 .. 4 ELSE {})
                       \cup (IF "suspend_ind" \in Faults THEN {5} ELSE {})
              ELSE {6} :
       /\ radio' = IF link.sta_assoc THEN [radio EXCEPT !.offloads = @ \cup Before(OffloadSteps, k)] ELSE radio
       /\ pm' = IF k < 5 THEN [pm EXCEPT !.failed = TRUE]
                ELSE [DisableIrq(pm) EXCEPT !.asleep = (k = 6), !.failed = @ \/ k = 5]
  /\ UNCHANGED <<dev, scan_offload, hw, sw, mac, channel, link, rates, agg>>

(* Mutant: the interrupts are enabled for an associated interface only. *)
Resume_Associated ==
  /\ pm.asleep
  /\ radio' = IF link.sta_assoc THEN [radio EXCEPT !.offloads = {}] ELSE radio
  /\ pm' = [asleep |-> FALSE, irq |-> IF link.sta_assoc THEN pm.irq - 1 ELSE pm.irq,
            failed |-> pm.failed /\ ~link.sta_assoc]
  /\ UNCHANGED <<dev, scan_offload, hw, sw, mac, channel, link, rates, agg>>

Resume ==
  /\ pm.asleep
  /\ radio' = IF link.sta_assoc THEN [radio EXCEPT !.offloads = {}] ELSE radio
  /\ pm' = [asleep |-> FALSE, irq |-> pm.irq - 1, failed |-> pm.failed /\ ~link.sta_assoc]
  /\ UNCHANGED <<dev, scan_offload, hw, sw, mac, channel, link, rates, agg>>

-----------------------------------------------------------------------------
Next ==
  \/ Probe \/ Remove \/ Start \/ StopScan \/ Stop \/ AddInterface \/ RemoveInterface
  \/ Toggle \/ HwScan \/ CancelHwScan \/ Indicate \/ MacDone
  \/ \E c \in ScanChannels : MacTune(c) \/ MacScanChannel(c)
  \/ MacReturn \/ SwScanComplete
  \/ \E on \in BOOLEAN : ConfigPs(on) \/ ConfigIdle(on) \/ RxBlockAck(on) \/ DisableKey(on)
  \/ BssJoin \/ StaAdd \/ Assoc \/ StaRemove \/ BssLeave
  \/ \E pairwise \in BOOLEAN, cipher \in {"wep", "ccmp"} : SetKey(pairwise, cipher)
  \/ TxStart \/ TxOperational \/ TxStop
  \/ Suspend \/ Resume

(* A scan the driver asked the firmware to stop is answered.                *)
StopAnswered == hw.fw = "stop" /\ Indicate

Spec == Init /\ [][Next]_vars /\ WF_vars(StopAnswered)

-----------------------------------------------------------------------------
(* Properties                                                               *)

(* Nothing start() or probe() took is held after it failed or was undone,  *)
(* but for the calibration data, which remove() frees, and the two state   *)
(* bits of shared memory, which a failing probe does not give back.        *)
BootUnwinds ==
  /\ ~dev.up => dev.started = {}
  /\ ~dev.bound => dev.probed \subseteq {"tx_enable", "tx_rings"}
  /\ dev.up => dev.started = Before(StartSteps, 7) \ {"nv"}

(* The driver holds a scan request exactly while mac80211 waits for its    *)
(* completion, so no later scan is refused as busy.  The firmware scans    *)
(* for mac80211 or not at all, so none is completed for nobody, and it is  *)
(* done when mac80211 has been told so, but between the two halves of      *)
(* stop(), which has completed the scan itself: an indication that falls   *)
(* there completes it again (hw_scan, cancel_hw_scan, stop, indication).   *)
ScanBooksAgree ==
  /\ hw.req <=> mac.scan = "hw" /\ ~mac.done
  /\ hw.fw # "idle" => mac.scan = "hw"
  /\ hw.fw # "idle" /\ mac.done => dev.stopping

(* The firmware's scan commands come in its order, init, start, end,       *)
(* finish, whatever mac80211 asks for, whether or not the firmware takes   *)
(* the commands that open a session.                                       *)
ScanProtocol == sw.fw # "bad"

(* Whenever mac80211 sends data, outside a scan or in a pause of one, the  *)
(* associated station is not in a scan session (main.c:390-393), unless a  *)
(* command of that scan failed.                                            *)
DataOnChannel ==
  dev.up /\ ~sw.lost /\ mac.phase \in {"none", "paused"} /\ link.step = "assoc" => sw.fw = "none"

(* No session outlives its scan, and after it the radio is where mac80211  *)
(* believes it to be (config, sw_scan_complete).                           *)
BackOnChannel == mac.scan # "sw" /\ channel # 0 => sw.fw = "none" /\ ~sw.init /\ channel = mac.chan

(* The radio does not sleep between beacons while it scans other channels  *)
(* or is about to (change_ps).                                             *)
AwakeInScan == radio.bmps => mac.scan # "sw" \/ mac.phase = "begin" \/ mac.phase = "end"

(* The transmit and receive interrupts are off exactly while the host      *)
(* sleeps (suspend, resume).                                               *)
IrqBalanced == pm.irq = IF pm.asleep THEN 1 ELSE 0

(* An associated host does not sleep before the firmware answers for it.    *)
SleepComplete == pm.asleep /\ link.sta_assoc => Before(OffloadSteps, 6) \subseteq radio.offloads

(* The firmware answers for no host that is awake; only of a suspend that  *)
(* failed may it be left with the offloads that suspend had come to, which *)
(* the goto out of main.c:1117-1128 leaves on.                             *)
AwakeAnswers ==
  ~pm.asleep => radio.offloads \subseteq (IF pm.failed THEN {"arp", "ns", "gtk"} ELSE {})

(* Data is sent encrypted only with a key the firmware holds.  It holds    *)
(* the pairwise key and the group key exactly as long as mac80211 has      *)
(* them; the station's copy of a WEP key stays until the station goes      *)
(* (set_key, main.c:552-627).                                              *)
KeysAgree ==
  /\ link.encrypted => link.stakey # "none"
  /\ link.pairwise => link.encrypted
  /\ link.pairwise <=> link.stakey = "ccmp"
  /\ link.group <=> link.bsskey
  /\ link.step \in {"none", "joined", "left"} => link.stakey = "none"

(* The driver's aggregation state is mac80211's (ampdu_action).             *)
AggAgrees == agg.drv = agg.mac /\ (agg.fw <=> agg.mac # "none")

(* The firmware is told no rate the access point lacks, and all it has     *)
(* when its rates have no gap (update_allowed_rates).                      *)
RatesKept ==
  LET told == rates.dsss \cup rates.ofdm
      has  == RatesOf(IF rates.five THEN Rates5G ELSE Rates2G, rates.mask)
  IN  /\ told \subseteq has
      /\ (\E n \in 0 .. 12 : rates.mask = 0 .. n - 1) => told = has

(* Exactly one entry of the survey is marked as in use once the driver is  *)
(* tuned (get_survey).                                                     *)
SurveyTrue == channel # 0 => \E i \in 0 .. 38 : \A j \in 0 .. 38 : InUse(j) <=> j = i

(* A cancelled scan is reported to mac80211 (cancel_hw_scan).               *)
CancelEnds == mac.scan = "hw" /\ hw.aborted ~> mac.scan # "hw" \/ mac.done

(* Scans by mac80211 and data take turns on the radio, each on the channel *)
(* it is meant for and awake, and the survey names that channel.           *)
ScanSound ==
  TypeOK /\ ScanProtocol /\ DataOnChannel /\ BackOnChannel /\ AwakeInScan /\ SurveyTrue

(* Firmware, driver and mac80211 agree on the link: its keys, its          *)
(* aggregation session and its rates.                                      *)
LinkAgrees == KeysAgree /\ AggAgrees /\ RatesKept

(* Start, probe and suspend are undone in full by their counterparts;      *)
(* start by its failures too, and of probe and suspend these leave no more *)
(* than the two state bits and the three offloads.                         *)
DeviceUnwinds == BootUnwinds /\ IrqBalanced /\ SleepComplete /\ AwakeAnswers
=============================================================================
