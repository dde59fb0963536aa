--------------------------- MODULE Supplies_proofs ---------------------------
(***************************************************************************)
(* Proofs about R63319Panel, for one link or two and any number of tries:  *)
(* the supplies and lines are taken and given back in pairs whatever fails *)
(* on the way, no command reaches a host without power, and a panel that   *)
(* is reported lit is, on each link.  And about SpmiRegulator, for any     *)
(* devices and any number of retries: a switch that trips is closed again  *)
(* no more often than it was told to, a rail keeps its settings, and what  *)
(* is asked of it is granted, put out, read back and waited for.           *)
(***************************************************************************)
EXTENDS R63319Panel, SpmiRegulator, WellFoundedInduction, TLAPS

Lines == [supplies : Int, reset : BOOLEAN, enable : BOOLEAN]

(* The types that the argument needs.                                      *)
Shape ==
  /\ disp \in {"off", "prepare", "reset", "init", "stream", "wake", "poll", "light",
               "on", "unprepare", "down"}
  /\ host \in [power : BOOLEAN, video : BOOLEAN]
  /\ fw \in [prepared : BOOLEAN, enabled : BOOLEAN]
  /\ pw \in Lines
  /\ reinit \in {"idle", "init"}
  /\ whose \in {"boot", "ours", "adopted"}
  /\ inherit \in BOOLEAN

(* The hosts have power from before the panel is prepared until after it   *)
(* is unprepared.                                                          *)
HostsFirst == disp # "off" => host.power

(* A write to the parameter that has begun holds the display where it is.  *)
ReinitHolds == reinit = "init" => disp = "on" /\ fw.prepared

(* The framework holds a panel prepared only between the two.              *)
PreparedBetween ==
  disp \in {"off", "prepare", "reset", "init", "down"} => ~fw.prepared

(* A panel the driver has not touched is as the bootloader left it.        *)
Untouched ==
  whose = "boot" => ~fw.prepared /\ pw.supplies = 0 /\ disp \notin {"reset", "init"}

(* While the driver prepares its panel, what it has taken so far.          *)
Preparing ==
  whose = "ours" /\ disp \in {"reset", "init"} =>
    pw.supplies = 1 /\ pw.enable /\ (disp = "init" => ~pw.reset)

IInv == Shape /\ HostsFirst /\ ReinitHolds /\ PreparedBetween /\ Untouched /\ Preparing
        /\ PowerBalanced /\ NeverRefused

-------------------------------------------------------------------------------
(* A sequence sent to hosts that have power is not refused.                *)
LEMMA SendAccepted ==
  ASSUME NEW s, NEW err, host.power, NeverRefused, Send(s, err)
  PROVE  NeverRefused'
  BY DEF Send, NeverRefused

LEMMA SendingAccepted ==
  ASSUME NEW s, NEW next, host.power, NeverRefused, Sending(s, next)
  PROVE  NeverRefused'
<1>1. CASE try.err
  BY <1>1 DEF Sending, NeverRefused
<1>2. CASE ~try.err
  <2>1. PICK err \in BOOLEAN : Send(s, err)
    BY <1>2 DEF Sending
  <2> QED BY <2>1, SendAccepted
<1> QED BY <1>1, <1>2

(* What the driver does to supplies and lines.                             *)
LEMMA LinesTypes ==
  ASSUME NEW p \in Lines
  PROVE  /\ [p EXCEPT !.supplies = @ + 1] \in Lines
         /\ [p EXCEPT !.supplies = @ + 1, !.enable = TRUE] \in Lines
         /\ PowerDown(p) \in Lines
         /\ p.supplies = 1 =>
              PowerDown(p) = [supplies |-> 0, reset |-> TRUE, enable |-> FALSE]
         /\ p.supplies = 1 /\ ~p.reset /\ p.enable =>
              p = [supplies |-> 1, reset |-> FALSE, enable |-> TRUE]
<1>1. p.supplies \in Int /\ p.reset \in BOOLEAN /\ p.enable \in BOOLEAN
  BY DEF Lines
<1>2. p.supplies + 1 \in Int /\ p.supplies - 1 \in Int
  BY <1>1
<1>3. [p EXCEPT !.supplies = @ + 1] \in Lines
  BY <1>2 DEF Lines
<1>4. PowerDown(p) \in Lines
  BY <1>2 DEF Lines, PowerDown
<1>5. [p EXCEPT !.supplies = @ + 1, !.enable = TRUE] \in Lines
  BY <1>2 DEF Lines
<1>6. ASSUME p.supplies = 1
      PROVE  PowerDown(p) = [supplies |-> 0, reset |-> TRUE, enable |-> FALSE]
  <2>1. p.supplies - 1 = 0
    BY <1>6
  <2> QED BY <2>1 DEF PowerDown
<1>7. p = [supplies |-> p.supplies, reset |-> p.reset, enable |-> p.enable]
  BY DEF Lines
<1>8. p.supplies = 1 /\ ~p.reset /\ p.enable =>
        p = [supplies |-> 1, reset |-> FALSE, enable |-> TRUE]
  BY <1>1, <1>7
<1> QED BY <1>3, <1>4, <1>5, <1>6, <1>8

(* It holds at first.                                                      *)
LEMMA InitInv == ASSUME PanelAssumption, Init PROVE IInv
  BY DEF PanelAssumption, Init, IInv, Shape, Lines, HostsFirst, ReinitHolds, PreparedBetween,
         Untouched, Preparing, PowerBalanced, NeverRefused

(* The steps that change neither power nor what the framework remembers.   *)
LEMMA QuietStep ==
  ASSUME IInv, UNCHANGED <<disp, host, fw, pw, whose, reinit>>,
         inherit' \in BOOLEAN, NeverRefused'
  PROVE  IInv'
  BY DEF IInv, Shape, HostsFirst, ReinitHolds, PreparedBetween, Untouched, Preparing,
         PowerBalanced

(* The display is at a step of its own with the parameter at rest.         *)
LEMMA SteadyFree == ASSUME ReinitWhen # "any", Free PROVE reinit = "idle"
  BY DEF Free

-------------------------------------------------------------------------------
(* Each step of the way up and down.                                       *)

LEMMA UpStep == ASSUME IInv, ReinitWhen # "any", Up PROVE IInv'
<1>1. reinit = "idle"
  BY SteadyFree DEF Up
<1> QED BY <1>1 DEF IInv, Up, Own, Still, Shape, HostsFirst, ReinitHolds, PreparedBetween,
         Untouched, Preparing, PowerBalanced, NeverRefused, prepare_prev_first

LEMMA PrepareStep == ASSUME IInv, ReinitWhen # "any", Prepare PROVE IInv'
<1> USE DEF IInv, Shape
<1>1. /\ disp = "prepare" /\ reinit = "idle" /\ host.power /\ ~fw.prepared
      /\ UNCHANGED <<reinit, inherit, host>>
      /\ whose = "ours" => pw.supplies = 0
      /\ whose = "boot" => pw.supplies = 0
  BY SteadyFree DEF Prepare, Still, HostsFirst, PreparedBetween, Untouched, PowerBalanced
<1>2. NeverRefused'
  BY <1>1 DEF Prepare, NeverRefused
<1>3. CASE disp' = "stream" /\ UNCHANGED <<fw, pw, whose>>
  BY <1>1, <1>2, <1>3 DEF HostsFirst, ReinitHolds, PreparedBetween, Untouched,
     Preparing, PowerBalanced
<1>4. CASE /\ whose' = "adopted"
           /\ disp' = "stream"
           /\ pw' = [pw EXCEPT !.supplies = @ + 1]
           /\ fw' = [fw EXCEPT !.prepared = TRUE]
  <2>1. pw' \in Lines
    BY <1>4, LinesTypes
  <2>2. fw' \in [prepared : BOOLEAN, enabled : BOOLEAN]
    BY <1>4
  <2> QED BY <1>1, <1>2, <1>4, <2>1, <2>2 DEF HostsFirst, ReinitHolds, PreparedBetween,
          Untouched, Preparing, PowerBalanced
<1>5. CASE /\ whose' = IF whose = "adopted" THEN "adopted" ELSE "ours"
           /\ disp' = "reset"
           /\ pw' = [pw EXCEPT !.supplies = @ + 1, !.enable = TRUE]
           /\ UNCHANGED fw
  <2>1. pw' \in Lines
    BY <1>5, LinesTypes
  <2>2. pw'.supplies = pw.supplies + 1 /\ pw'.enable
    BY <1>5 DEF Lines
  <2> QED BY <1>1, <1>2, <1>5, <2>1, <2>2 DEF HostsFirst, ReinitHolds, PreparedBetween,
          Untouched, Preparing, PowerBalanced
<1> QED BY <1>3, <1>4, <1>5 DEF Prepare, Whose

LEMMA ResetPanelStep == ASSUME IInv, ReinitWhen # "any", ResetPanel PROVE IInv'
<1>1. reinit = "idle"
  BY SteadyFree DEF ResetPanel
<1> QED BY <1>1 DEF IInv, ResetPanel, Reset, Own, Still, Shape, Lines, HostsFirst, ReinitHolds,
         PreparedBetween, Untouched, Preparing, PowerBalanced, NeverRefused

LEMMA OnStep == ASSUME IInv, ReinitWhen # "any", On PROVE IInv'
<1> USE DEF IInv, Shape
<1>1. /\ reinit = "idle" /\ host.power /\ NeverRefused
      /\ disp = "init" /\ disp' = "stream"
      /\ UNCHANGED <<reinit, inherit, host, whose>>
  BY SteadyFree DEF On, HostsFirst, Own, Still
<1>2. /\ ~fw.prepared /\ whose # "boot"
      /\ whose = "ours" => pw.supplies = 1 /\ pw.enable /\ ~pw.reset
  BY <1>1 DEF PreparedBetween, Untouched, Preparing
<1>3. CASE Send(InitSeq, FALSE) /\ fw' = [fw EXCEPT !.prepared = TRUE] /\ UNCHANGED pw
  <2>1. NeverRefused'
    BY <1>1, <1>3, SendAccepted
  <2>2. whose = "ours" => pw = [supplies |-> 1, reset |-> FALSE, enable |-> TRUE]
    BY <1>2, LinesTypes
  <2>3. fw' \in [prepared : BOOLEAN, enabled : BOOLEAN] /\ fw'.prepared
    BY <1>3
  <2> QED BY <1>1, <1>2, <1>3, <2>1, <2>2, <2>3 DEF HostsFirst, ReinitHolds, PreparedBetween, Untouched,
          Preparing, PowerBalanced
<1>4. CASE refused' = (refused \/ ~host.power) /\ pw' = PrepareFailed(pw) /\ UNCHANGED fw
  <2>1. NeverRefused'
    BY <1>1, <1>4 DEF NeverRefused
  <2>2. pw' = PowerDown(pw) /\ UNCHANGED fw
    BY <1>4 DEF PrepareFailed
  <2>3. /\ pw' \in Lines
        /\ whose = "ours" => pw' = [supplies |-> 0, reset |-> TRUE, enable |-> FALSE]
    BY <1>2, <2>2, LinesTypes
  <2> QED BY <1>1, <1>2, <2>1, <2>2, <2>3 DEF HostsFirst, ReinitHolds,
          PreparedBetween, Untouched, Preparing, PowerBalanced
<1> QED BY <1>3, <1>4 DEF On

LEMMA StreamStep == ASSUME IInv, ReinitWhen # "any", Stream PROVE IInv'
<1>1. reinit = "idle"
  BY SteadyFree DEF Stream
<1> QED BY <1>1 DEF IInv, Stream, Own, Still, Shape, HostsFirst, ReinitHolds,
         PreparedBetween, Untouched, Preparing, PowerBalanced, NeverRefused

(* Steps of r63319_enable(): commands, and nothing of the power.           *)
LEMMA EnableStep ==
  ASSUME IInv, ReinitWhen # "any", Wake \/ Poll \/ Light
  PROVE  IInv'
<1> USE DEF IInv, Shape
<1>1. /\ disp \in {"wake", "poll", "light"} /\ disp' \in {"wake", "poll", "light", "on"}
      /\ reinit = "idle" /\ host.power /\ NeverRefused
      /\ UNCHANGED <<reinit, inherit, host, whose, pw>>
      /\ fw' = fw \/ (\E e \in BOOLEAN : fw' = [fw EXCEPT !.enabled = e])
  BY SteadyFree DEF Wake, Poll, Light, HostsFirst, Own, Still
<1>2. NeverRefused'
  <2>1. CASE Wake
    BY <1>1, <2>1, SendingAccepted DEF Wake
  <2>2. CASE Poll
    BY <1>1, <2>2 DEF Poll, NeverRefused
  <2>3. CASE Light
    BY <1>1, <2>3, SendingAccepted DEF Light
  <2> QED BY <2>1, <2>2, <2>3
<1>3. fw' \in [prepared : BOOLEAN, enabled : BOOLEAN] /\ fw'.prepared = fw.prepared
  BY <1>1
<1> QED BY <1>1, <1>2, <1>3 DEF HostsFirst, ReinitHolds, PreparedBetween, Untouched,
         Preparing, PowerBalanced

LEMMA DisableStep == ASSUME IInv, ReinitWhen # "any", Disable PROVE IInv'
<1> USE DEF IInv, Shape
<1>1. /\ disp = "on" /\ disp' = "unprepare"
      /\ reinit = "idle" /\ host.power /\ NeverRefused
      /\ host' = [host EXCEPT !.video = FALSE]
      /\ UNCHANGED <<reinit, inherit, whose, pw>>
  BY SteadyFree DEF Disable, HostsFirst, Own, Still
<1>2. /\ NeverRefused'
      /\ fw' \in [prepared : BOOLEAN, enabled : BOOLEAN] /\ fw'.prepared = fw.prepared
  <2>1. CASE ~fw.enabled
    BY <1>1, <2>1 DEF Disable, NeverRefused
  <2>2. CASE fw.enabled
    <3>1. PICK err \in BOOLEAN : Send(Dual("dark", NumLinks), err)
                                 /\ fw' = [fw EXCEPT !.enabled = err]
      BY <2>2 DEF Disable
    <3> QED BY <1>1, <3>1, SendAccepted
  <2> QED BY <2>1, <2>2
<1> QED BY <1>1, <1>2 DEF HostsFirst, ReinitHolds, PreparedBetween, Untouched,
         Preparing, PowerBalanced

LEMMA UnprepareStep == ASSUME IInv, ReinitWhen # "any", Unprepare PROVE IInv'
<1> USE DEF IInv, Shape
<1>1. /\ disp = "unprepare" /\ disp' = "down" /\ reinit = "idle" /\ host.power
      /\ fw' = [fw EXCEPT !.prepared = FALSE]
      /\ UNCHANGED <<reinit, inherit, host>>
  BY SteadyFree DEF Unprepare, Unprepared, HostsFirst, Still
<1>2. NeverRefused'
  BY <1>1 DEF Unprepare, Unprepared, NeverRefused
<1>3. CASE ~fw.prepared /\ UNCHANGED <<pw, whose>>
  BY <1>1, <1>2, <1>3 DEF HostsFirst, ReinitHolds, PreparedBetween, Untouched, Preparing,
     PowerBalanced
<1>4. CASE fw.prepared /\ UNCHANGED pw /\ whose' = "adopted"
  BY <1>1, <1>2, <1>4 DEF HostsFirst, ReinitHolds, PreparedBetween, Untouched, Preparing,
     PowerBalanced
<1>5. CASE /\ fw.prepared /\ pw' = PowerDown(pw)
           /\ whose' = IF whose = "adopted" THEN "adopted" ELSE "ours"
  <2>1. whose # "boot" /\ (whose = "ours" => pw.supplies = 1)
    BY <1>1, <1>5 DEF Untouched, PowerBalanced
  <2>2. /\ pw' \in Lines
        /\ whose = "ours" => pw' = [supplies |-> 0, reset |-> TRUE, enable |-> FALSE]
    BY <1>5, <2>1, LinesTypes
  <2>3. ~fw'.prepared /\ fw' \in [prepared : BOOLEAN, enabled : BOOLEAN]
    BY <1>1
  <2> QED BY <1>1, <1>2, <1>5, <2>1, <2>2, <2>3 DEF HostsFirst, ReinitHolds,
          PreparedBetween, Untouched, Preparing, PowerBalanced
<1> QED BY <1>3, <1>4, <1>5 DEF Unprepare, Unprepared, Whose

LEMMA DownStep == ASSUME IInv, ReinitWhen # "any", Down PROVE IInv'
<1>1. reinit = "idle"
  BY SteadyFree DEF Down
<1> QED BY <1>1 DEF IInv, Down, Own, Still, Shape, HostsFirst, ReinitHolds,
         PreparedBetween, Untouched, Preparing, PowerBalanced, NeverRefused

(* The parameter, written while the display is steady.                     *)
LEMMA ReinitStep ==
  ASSUME PanelAssumption, IInv, ReinitWhen # "any", ReinitReset \/ ReinitOn
  PROVE  IInv'
<1> USE DEF IInv, Shape
<1>1. CASE ReinitReset
  <2>1. disp = "on" /\ fw.prepared
    BY <1>1 DEF ReinitReset
  <2>2. whose = "ours" => ~pw.reset
    BY <2>1 DEF PowerBalanced
  <2> QED BY <1>1, <2>1, <2>2, ZenonT(30) DEF ReinitReset, Reset, Lines, HostsFirst, ReinitHolds,
          PreparedBetween, Untouched, Preparing, PowerBalanced, NeverRefused
<1>2. CASE ReinitOn
  <2>1. /\ host.power /\ NeverRefused
        /\ reinit' = "idle" /\ UNCHANGED <<inherit, disp, host, fw, pw, whose>>
    BY <1>2 DEF ReinitOn, ReinitHolds, HostsFirst
  <2>2. PICK err \in BOOLEAN : Send(InitSeq, err)
    BY <1>2 DEF ReinitOn
  <2>3. NeverRefused'
    BY <2>1, <2>2, SendAccepted
  <2> QED BY <2>1, <2>3 DEF HostsFirst, ReinitHolds, PreparedBetween, Untouched,
          Preparing, PowerBalanced
<1> QED BY <1>1, <1>2

-------------------------------------------------------------------------------
LEMMA NextInv ==
  ASSUME PanelAssumption, ReinitWhen # "any", IInv, [Next]_vars
  PROVE  IInv'
<1>1. CASE Display
  BY <1>1, UpStep, PrepareStep, ResetPanelStep, OnStep, StreamStep, EnableStep,
     DisableStep, UnprepareStep, DownStep DEF Display
<1>2. CASE ReinitReset \/ ReinitOn
  BY <1>2, ReinitStep
<1>3. CASE r63319_probe \/ r63319_remove
  BY <1>3, QuietStep DEF r63319_probe, r63319_remove, IInv, Shape, NeverRefused
<1>4. CASE \E v \in InheritValues : SetInherit(v)
  BY <1>4, QuietStep DEF PanelAssumption, SetInherit, IInv, NeverRefused
<1>5. CASE \E l \in Links : Latch(l) \/ FallAsleep(l)
  BY <1>5, QuietStep DEF Latch, FallAsleep, IInv, Shape, NeverRefused
<1>6. CASE UNCHANGED vars
  BY <1>6, QuietStep DEF vars, IInv, Shape, NeverRefused
<1> QED BY <1>1, <1>2, <1>3, <1>4, <1>5, <1>6 DEF Next

-------------------------------------------------------------------------------
(* What the argument about the picture adds.                               *)

LinkSet == [regs : BOOLEAN, waking : BOOLEAN, awake : BOOLEAN, on : BOOLEAN]

TrySet == [attempt : 1 .. Attempts, poll : 0 .. Polls - 1, err : BOOLEAN, woke : BOOLEAN]

Records ==
  /\ bound \in BOOLEAN /\ dbg \in {"none", "live", "freed"} /\ claim \in BOOLEAN
  /\ link \in [Links -> LinkSet]
  /\ try \in TrySet

(* The supplies are counted within their bound.                            *)
Supplied ==
  /\ pw.supplies \in 0 .. MaxSupplies
  /\ disp = "prepare" => pw.supplies < MaxSupplies
  /\ fw.prepared \/ disp \in {"reset", "init"} => pw.supplies > 0

(* Video runs from before the panel is enabled until it is disabled.       *)
Video == disp \in {"wake", "poll", "light", "on"} => host.video

(* A panel that looked awake had power.                                    *)
Woken == disp \in {"wake", "poll", "light"} /\ try.woke => Powered(pw)

Ours == whose = "ours" /\ fw.prepared

(* Each link was told its registers from On to Light.                      *)
Registered ==
  Ours /\ disp \in {"stream", "wake", "poll", "light"} => \A l \in Links : link[l].regs

(* After the first attempt each link was told to wake, and video keeps the *)
(* panel from falling asleep.                                              *)
Told ==
  Ours /\ ~try.err /\ (disp \in {"poll", "light"} \/ (disp = "wake" /\ try.attempt > 1)) =>
    \A l \in Links : link[l].awake \/ link[l].waking

(* The report stands while the display is on and reinit has not begun.     *)
Claimed == claim => disp = "on" /\ reinit = "idle"

PInv == Records /\ Supplied /\ Video /\ Woken /\ Registered /\ Told /\ Claimed
        /\ LitWhenClaimed

-------------------------------------------------------------------------------
(* What a sequence of commands does to the panel.                          *)

LEMMA AfterFields ==
  ASSUME link \in [Links -> LinkSet], NEW s, NEW k
  PROVE  /\ After(s, k) \in [Links -> LinkSet]
         /\ \A l \in Links :
              /\ link[l].regs => After(s, k)[l].regs
              /\ link[l].waking => After(s, k)[l].waking
              /\ link[l].awake => After(s, k)[l].awake
              /\ Powered(pw) /\ Heard(s, k, l, "regs") => After(s, k)[l].regs
              /\ Powered(pw) /\ Heard(s, k, l, "wake") => After(s, k)[l].waking
              /\ Powered(pw) /\ Heard(s, k, l, "on") /\ ~Heard(s, k, l, "dark") =>
                   After(s, k)[l].on
<1>1. CASE ~Powered(pw)
  BY <1>1 DEF After
<1>2. CASE Powered(pw)
  <2> DEFINE to(l) == [link[l] EXCEPT !.regs   = @ \/ Heard(s, k, l, "regs"),
                                      !.waking = @ \/ Heard(s, k, l, "wake"),
                                      !.on     = (@ \/ Heard(s, k, l, "on"))
                                                 /\ ~Heard(s, k, l, "dark")]
  <2>1. After(s, k) = [l \in Links |-> to(l)]
    BY <1>2 DEF After
  <2>2. ASSUME NEW l \in Links
        PROVE  /\ to(l) \in LinkSet
               /\ to(l).regs <=> link[l].regs \/ Heard(s, k, l, "regs")
               /\ to(l).waking <=> link[l].waking \/ Heard(s, k, l, "wake")
               /\ to(l).on <=> (link[l].on \/ Heard(s, k, l, "on")) /\ ~Heard(s, k, l, "dark")
               /\ to(l).awake <=> link[l].awake
    <3>1. link[l] \in LinkSet
      OBVIOUS
    <3> QED BY <3>1 DEF LinkSet
  <2> HIDE DEF to
  <2> QED BY <2>1, <2>2
<1> QED BY <1>1, <1>2

(* Nothing that was told is taken back but the light.                      *)
LEMMA SendKeeps ==
  ASSUME link \in [Links -> LinkSet], NEW s, NEW err, Send(s, err)
  PROVE  /\ link' \in [Links -> LinkSet]
         /\ \A l \in Links : /\ link[l].regs => link'[l].regs
                             /\ link[l].awake \/ link[l].waking =>
                                  link'[l].awake \/ link'[l].waking
<1>1. link' = link \/ \E k : link' = After(s, k)
  BY DEF Send
<1> QED BY <1>1, AfterFields

(* All of a sequence is heard if none of it failed.                        *)
LEMMA SendTells ==
  ASSUME link \in [Links -> LinkSet], NEW s, Len(s) \in Nat, host.power, Powered(pw),
         NEW err, ~err, Send(s, err), NEW l \in Links
  PROVE  /\ Heard(s, Len(s), l, "regs") => link'[l].regs
         /\ Heard(s, Len(s), l, "wake") => link'[l].waking
         /\ Heard(s, Len(s), l, "on") /\ ~Heard(s, Len(s), l, "dark") => link'[l].on
<1>1. PICK k \in 0 .. Len(s) : link' = After(s, k) /\ ~(k < Len(s))
  BY DEF Send
<1>2. k = Len(s)
  BY <1>1
<1> QED BY <1>1, <1>2, AfterFields

(* Which links hear a command sent to the first n of them.                 *)
LEMMA DualHeard ==
  ASSUME NEW cmd, NEW n \in Nat
  PROVE  /\ Dual(cmd, n) \in Seq({<<cmd, i>> : i \in 1 .. n})
         /\ Len(Dual(cmd, n)) = n
         /\ \A l \in 1 .. n : Heard(Dual(cmd, n), n, l, cmd)
         /\ \A l, other : other # cmd => ~Heard(Dual(cmd, n), n, l, other)
<1>1. \A i \in 1 .. n : Dual(cmd, n)[i] = <<cmd, i>>
  BY DEF Dual
<1>2. Dual(cmd, n) \in Seq({<<cmd, i>> : i \in 1 .. n}) /\ Len(Dual(cmd, n)) = n
  BY DEF Dual
<1>3. \A l \in 1 .. n : Heard(Dual(cmd, n), n, l, cmd)
  BY <1>1 DEF Heard
<1>4. \A l, other : other # cmd => ~Heard(Dual(cmd, n), n, l, other)
  BY <1>1 DEF Heard
<1> QED BY <1>2, <1>3, <1>4

LEMMA TwoInTurn ==
  ASSUME NEW C, NEW a \in Seq(C), NEW b \in Seq(C)
  PROVE  a \o b \in Seq(C) /\ Len(a \o b) = Len(a) + Len(b)
  OBVIOUS

LEMMA ThreeInTurn ==
  ASSUME NEW C, NEW n \in Nat, NEW a \in Seq(C), NEW b \in Seq(C), NEW c \in Seq(C),
         Len(a) = n, Len(b) = n, Len(c) = n
  PROVE  /\ Len(a \o b \o c) = 3 * n
         /\ \A l \in 1 .. n : /\ (a \o b \o c)[l] = a[l]
                              /\ (a \o b \o c)[n + l] = b[l]
                              /\ (a \o b \o c)[2 * n + l] = c[l]
         /\ \A i \in 1 .. 3 * n : (a \o b \o c)[i] \in C
<1> DEFINE ab == a \o b
<1>1. /\ ab \in Seq(C) /\ Len(ab) = 2 * n
      /\ \A l \in 1 .. n : ab[l] = a[l] /\ ab[n + l] = b[l]
  OBVIOUS
<1> HIDE DEF ab
<1>2. /\ ab \o c \in Seq(C) /\ Len(ab \o c) = 3 * n
  <2>1. ab \o c \in Seq(C) /\ Len(ab \o c) = Len(ab) + Len(c)
    BY <1>1, TwoInTurn
  <2>2. 2 * n + n = 3 * n
    OBVIOUS
  <2> QED BY <1>1, <2>1, <2>2
<1>3. /\ \A i \in 1 .. 2 * n : (ab \o c)[i] = ab[i]
      /\ \A l \in 1 .. n : (ab \o c)[2 * n + l] = c[l]
  BY <1>1
<1>4. \A l \in 1 .. n : l \in 1 .. 2 * n /\ n + l \in 1 .. 2 * n
  OBVIOUS
<1>5. \A i \in 1 .. 3 * n : (ab \o c)[i] \in C
  BY <1>2
<1>6. /\ Len(ab \o c) = 3 * n
      /\ \A l \in 1 .. n : /\ (ab \o c)[l] = a[l]
                           /\ (ab \o c)[n + l] = b[l]
                           /\ (ab \o c)[2 * n + l] = c[l]
      /\ \A i \in 1 .. 3 * n : (ab \o c)[i] \in C
  BY <1>1, <1>2, <1>3, <1>4, <1>5
<1> QED BY <1>6 DEF ab

LEMMA InitSeqHeard ==
  ASSUME NumLinks \in 1 .. 2
  PROVE  /\ Len(InitSeq) \in Nat
         /\ \A l \in Links : /\ Heard(InitSeq, Len(InitSeq), l, "regs")
                             /\ Heard(InitSeq, Len(InitSeq), l, "wake")
                             /\ Heard(InitSeq, Len(InitSeq), l, "on")
                             /\ ~Heard(InitSeq, Len(InitSeq), l, "dark")
<1> DEFINE C == {"regs", "wake", "on"} \X (1 .. NumLinks)
           D(cmd) == Dual(cmd, NumLinks)
<1>1. \A cmd \in {"regs", "wake", "on"} :
        /\ D(cmd) \in Seq(C) /\ Len(D(cmd)) = NumLinks
        /\ \A l \in 1 .. NumLinks : D(cmd)[l] = <<cmd, l>>
  BY DEF Dual
<1>2. InitSeq = D("regs") \o D("wake") \o D("on")
  BY DEF InitSeq
<1> HIDE DEF D
<1>3. /\ Len(InitSeq) = 3 * NumLinks
      /\ \A l \in 1 .. NumLinks : /\ InitSeq[l] = D("regs")[l]
                                  /\ InitSeq[NumLinks + l] = D("wake")[l]
                                  /\ InitSeq[2 * NumLinks + l] = D("on")[l]
      /\ \A i \in 1 .. 3 * NumLinks : InitSeq[i] \in C
  <2> HIDE DEF C
  <2>1. /\ D("regs") \in Seq(C) /\ D("wake") \in Seq(C) /\ D("on") \in Seq(C)
        /\ Len(D("regs")) = NumLinks /\ Len(D("wake")) = NumLinks /\ Len(D("on")) = NumLinks
        /\ NumLinks \in Nat
    BY <1>1
  <2>2. LET abc == D("regs") \o D("wake") \o D("on")
        IN  /\ Len(abc) = 3 * NumLinks
            /\ \A l \in 1 .. NumLinks : /\ abc[l] = D("regs")[l]
                                        /\ abc[NumLinks + l] = D("wake")[l]
                                        /\ abc[2 * NumLinks + l] = D("on")[l]
            /\ \A i \in 1 .. 3 * NumLinks : abc[i] \in C
    BY Zenon, <2>1, ThreeInTurn
  <2> QED BY <1>2, <2>2
<1>4. \A l \in 1 .. NumLinks : /\ InitSeq[l] = <<"regs", l>>
                               /\ InitSeq[NumLinks + l] = <<"wake", l>>
                               /\ InitSeq[2 * NumLinks + l] = <<"on", l>>
  BY <1>1, <1>3
<1>5. \A x, l : x = <<"dark", l>> => x \notin C
  OBVIOUS
<1>6. \A l \in 1 .. NumLinks : {l, NumLinks + l, 2 * NumLinks + l} \subseteq 1 .. 3 * NumLinks
  OBVIOUS
<1> HIDE DEF C
<1> QED BY <1>3, <1>4, <1>5, <1>6 DEF Heard, Links

(* r63319_enable() sends nothing after its first error.                    *)
LEMMA SendingKeeps ==
  ASSUME link \in [Links -> LinkSet], NEW s, NEW next \in TrySet, Sending(s, next), try \in TrySet
  PROVE  /\ link' \in [Links -> LinkSet] /\ try' \in TrySet
         /\ \A l \in Links : /\ link[l].regs => link'[l].regs
                             /\ link[l].awake \/ link[l].waking =>
                                  link'[l].awake \/ link'[l].waking
         /\ try'.attempt = next.attempt /\ try'.woke = next.woke
         /\ next.err = try.err /\ ~try'.err => ~try.err /\ Send(s, FALSE)
<1>1. CASE try.err
  BY <1>1 DEF Sending
<1>2. CASE ~try.err
  <2>1. PICK err \in BOOLEAN : Send(s, err) /\ try' = [next EXCEPT !.err = err]
    BY <1>2 DEF Sending
  <2>2. /\ try' \in TrySet /\ try'.attempt = next.attempt /\ try'.woke = next.woke
        /\ try'.err = err
    BY <2>1 DEF TrySet
  <2>3. ~err => Send(s, FALSE)
    BY <2>1, Zenon
  <2> QED BY <1>2, <2>1, <2>2, <2>3, SendKeeps
<1> QED BY <1>1, <1>2

-------------------------------------------------------------------------------
(* It holds at first, and each step keeps it.                              *)

LEMMA PictureInit == ASSUME PanelAssumption, Init PROVE PInv
<1>1. 0 \in 0 .. Polls - 1 /\ 1 \in 1 .. Attempts
  BY DEF PanelAssumption
<1>2. Records
  BY <1>1 DEF Init, Records, LinkSet, TrySet
<1> QED BY <1>2 DEF Init, PInv, Supplied, MaxSupplies, Video, Woken, Ours, Registered, Told,
         Claimed, LitWhenClaimed

(* What is the display's own or the panel's own, and the rest of it.       *)
LEMMA PictureQuiet ==
  ASSUME PInv, UNCHANGED <<disp, host, fw, pw, link, try, claim, reinit, whose>>,
         bound' \in BOOLEAN, dbg' \in {"none", "live", "freed"}
  PROVE  PInv'
  BY DEF PInv, Records, Supplied, Video, Woken, Ours, Registered, Told, Claimed,
         LitWhenClaimed, Powered

(* A panel that is reported lit is none the display works on.              *)
LEMMA NoReport ==
  ASSUME PInv, disp # "on"
  PROVE  ~claim
  BY DEF PInv, Claimed

LEMMA UpPicture == ASSUME IInv, PInv, Up PROVE PInv'
<1>1. ~claim
  BY NoReport DEF Up
<1>2. /\ disp' = "prepare" /\ pw.supplies < MaxSupplies /\ ~fw.prepared /\ disp = "off"
      /\ UNCHANGED <<bound, dbg, fw, pw, link, try, claim, whose>>
  BY DEF Up, Own, Still, IInv, PreparedBetween
<1> QED BY <1>1, <1>2 DEF PInv, Records, Supplied, Video, Woken, Ours, Registered, Told,
         Claimed, LitWhenClaimed

LEMMA PreparePicture == ASSUME IInv, PInv, Prepare PROVE PInv'
<1>1. /\ disp = "prepare" /\ disp' \in {"stream", "reset"} /\ ~fw.prepared /\ ~claim
      /\ pw.supplies \in Int /\ pw.supplies >= 0 /\ pw.supplies < MaxSupplies
      /\ UNCHANGED <<bound, dbg, host, link, try, claim>>
  BY NoReport DEF Prepare, Still, IInv, PreparedBetween, PInv, Supplied, MaxSupplies
<1>2. Records' /\ Video' /\ Woken' /\ Told' /\ Claimed' /\ LitWhenClaimed'
  BY <1>1 DEF PInv, Records, Video, Woken, Told, Claimed, LitWhenClaimed
<1>3. CASE disp' = "stream" /\ UNCHANGED <<fw, pw>>
  BY <1>1, <1>2, <1>3 DEF PInv, Supplied, Registered, Ours
<1>4. CASE /\ disp' = "stream" /\ whose' = "adopted"
           /\ pw' = [pw EXCEPT !.supplies = @ + 1]
  <2>1. pw'.supplies = pw.supplies + 1
    BY <1>4 DEF IInv, Shape, Lines
  <2> QED BY <1>1, <1>2, <1>4, <2>1 DEF PInv, Supplied, MaxSupplies, Registered, Ours
<1>5. CASE /\ disp' = "reset"
           /\ pw' = [pw EXCEPT !.supplies = @ + 1, !.enable = TRUE]
  <2>1. pw'.supplies = pw.supplies + 1
    BY <1>5 DEF IInv, Shape, Lines
  <2> QED BY <1>1, <1>2, <1>5, <2>1 DEF PInv, Supplied, MaxSupplies, Registered, Ours
<1> QED BY <1>3, <1>4, <1>5 DEF Prepare, Whose

LEMMA ResetPicture == ASSUME IInv, PInv, ResetPanel PROVE PInv'
<1>1. /\ disp = "reset" /\ disp' = "init" /\ ~fw.prepared /\ ~claim
      /\ link' = [l \in Links |-> Asleep] /\ pw'.supplies = pw.supplies
      /\ UNCHANGED <<bound, dbg, host, fw, try, claim, whose>>
  BY NoReport DEF ResetPanel, Reset, Own, Still, IInv, PreparedBetween, Shape, Lines
<1>2. Records'
  BY <1>1 DEF PInv, Records, LinkSet, Asleep
<1> QED BY <1>1, <1>2 DEF PInv, Supplied, Video, Woken, Ours, Registered, Told, Claimed,
         LitWhenClaimed

LEMMA OnPicture == ASSUME PanelAssumption, IInv, PInv, On PROVE PInv'
<1>1. /\ disp = "init" /\ disp' = "stream" /\ ~fw.prepared /\ ~claim
      /\ UNCHANGED <<bound, dbg, host, try, claim, whose>>
      /\ host.power
  BY NoReport DEF On, Own, Still, IInv, PreparedBetween, HostsFirst
<1>2. Video' /\ Woken' /\ Told' /\ Claimed' /\ LitWhenClaimed'
  BY <1>1 DEF PInv, Video, Woken, Told, Claimed, LitWhenClaimed
<1>3. link \in [Links -> LinkSet]
  BY DEF PInv, Records
<1>4. CASE Send(InitSeq, FALSE) /\ fw' = [fw EXCEPT !.prepared = TRUE] /\ UNCHANGED pw
  <2>1. Records'
    BY <1>1, <1>3, <1>4, SendKeeps DEF PInv, Records
  <2>2. whose = "ours" => Powered(pw)
    BY <1>1 DEF IInv, Preparing, Powered
  <2>3. whose = "ours" => \A l \in Links : link'[l].regs
    BY <1>1, <1>3, <1>4, <2>2, SendTells, InitSeqHeard DEF PanelAssumption
  <2> QED BY <1>1, <1>2, <1>4, <2>1, <2>3 DEF PInv, Supplied, Registered, Ours
<1>5. CASE pw' = PrepareFailed(pw) /\ link' = Dead /\ UNCHANGED fw
  <2>1. Records'
    BY <1>1, <1>5 DEF PInv, Records, Dead, Asleep, LinkSet
  <2>2. pw'.supplies = pw.supplies - 1
    BY <1>5 DEF PrepareFailed, PowerDown
  <2> QED BY <1>1, <1>2, <1>5, <2>1, <2>2 DEF PInv, Supplied, MaxSupplies, Registered, Ours
<1> QED BY <1>4, <1>5 DEF On

LEMMA StreamPicture == ASSUME PanelAssumption, IInv, PInv, Stream PROVE PInv'
<1>1. /\ disp = "stream" /\ disp' \in {"on", "wake"} /\ ~claim
      /\ host'.video
      /\ try' = [attempt |-> 1, poll |-> 0, err |-> FALSE, woke |-> FALSE]
      /\ UNCHANGED <<bound, dbg, fw, pw, link, claim, whose>>
  BY NoReport DEF Stream, Own, Still
<1>2. 0 \in 0 .. Polls - 1 /\ 1 \in 1 .. Attempts
  BY DEF PanelAssumption
<1>3. Records'
  BY <1>1, <1>2 DEF PInv, Records, TrySet
<1> QED BY <1>1, <1>3 DEF PInv, Supplied, Video, Woken, Ours, Registered, Told, Claimed,
         LitWhenClaimed

LEMMA WakePicture == ASSUME PanelAssumption, IInv, PInv, Wake PROVE PInv'
<1> DEFINE s == Dual("wake", WakeLinks(try.attempt))
           next == [try EXCEPT !.poll = 0]
<1>1. /\ disp = "wake" /\ disp' = "poll" /\ ~claim /\ host.power
      /\ UNCHANGED <<bound, dbg, host, fw, pw, claim, whose>>
      /\ Sending(s, next)
  BY NoReport DEF Wake, Own, Still, IInv, HostsFirst
<1>2. /\ link \in [Links -> LinkSet] /\ try \in TrySet /\ next \in TrySet
      /\ next.err = try.err /\ next.attempt = try.attempt /\ next.woke = try.woke
  <2>1. 0 \in 0 .. Polls - 1
    BY DEF PanelAssumption
  <2> QED BY <2>1 DEF PInv, Records, TrySet
<1> HIDE DEF s, next
<1>3. /\ link' \in [Links -> LinkSet] /\ try' \in TrySet
      /\ \A l \in Links : /\ link[l].regs => link'[l].regs
                          /\ link[l].awake \/ link[l].waking => link'[l].awake \/ link'[l].waking
      /\ try'.attempt = try.attempt /\ try'.woke = try.woke
      /\ ~try'.err => ~try.err /\ Send(s, FALSE)
  BY <1>1, <1>2, SendingKeeps
<1>4. Records' /\ Supplied' /\ Video' /\ Woken' /\ Registered' /\ Claimed' /\ LitWhenClaimed'
  BY <1>1, <1>3 DEF PInv, Records, Supplied, Video, Woken, Ours, Registered, Claimed,
     LitWhenClaimed
<1>5. ASSUME Ours, ~try'.err, NEW l \in Links
      PROVE  link'[l].awake \/ link'[l].waking
  <2>1. CASE try.attempt > 1
    BY <1>1, <1>3, <1>5, <2>1 DEF PInv, Told
  <2>2. CASE ~(try.attempt > 1)
    <3>1. try.attempt = 1
      BY <1>2, <2>2 DEF TrySet
    <3>2. s = Dual("wake", NumLinks)
      BY <3>1 DEF s, WakeLinks
    <3>3. Powered(pw)
      BY <1>1, <1>5 DEF Ours, IInv, PowerBalanced, Powered
    <3>4. NumLinks \in Nat /\ l \in 1 .. NumLinks
      BY DEF PanelAssumption, Links
    <3>5. Len(s) = NumLinks /\ Heard(s, Len(s), l, "wake")
      BY <3>2, <3>4, DualHeard
    <3> QED BY <1>1, <1>2, <1>3, <1>5, <3>3, <3>4, <3>5, SendTells
  <2> QED BY <2>1, <2>2
<1>6. Told'
  BY <1>1, <1>5 DEF Told, Ours
<1> QED BY <1>4, <1>6 DEF PInv

LEMMA PollPicture == ASSUME PanelAssumption, IInv, PInv, Poll PROVE PInv'
<1>1. /\ disp = "poll" /\ disp' \in {"poll", "wake", "light"} /\ ~claim
      /\ UNCHANGED <<bound, dbg, host, fw, pw, link, claim, whose>>
      /\ try \in TrySet
  BY NoReport DEF Poll, Own, Still, PInv, Records
<1>2. /\ try' \in TrySet /\ try'.err = try.err
      /\ try'.woke => try.woke \/ Powered(pw)
  <2>1. CASE try' = [try EXCEPT !.woke = TRUE] /\ Powered(pw)
    BY <1>1, <2>1 DEF TrySet
  <2>2. CASE try' = [try EXCEPT !.poll = @ + 1] /\ try.poll < Polls - 1
    <3>1. try.poll + 1 \in 0 .. Polls - 1
      BY <1>1, <2>2 DEF TrySet, PanelAssumption
    <3> QED BY <1>1, <2>2, <3>1 DEF TrySet
  <2>3. CASE try' = [try EXCEPT !.attempt = NextAttempt, !.poll = 0] /\ try.attempt < Attempts
    <3>1. NextAttempt \in 1 .. Attempts /\ 0 \in 0 .. Polls - 1
      BY <1>1, <2>3 DEF TrySet, PanelAssumption, NextAttempt
    <3> QED BY <1>1, <2>3, <3>1 DEF TrySet
  <2>4. CASE try' = try
    BY <1>1, <2>4
  <2> QED BY <2>1, <2>2, <2>3, <2>4 DEF Poll
<1> QED BY <1>1, <1>2 DEF PInv, Records, Supplied, Video, Woken, Ours, Registered, Told,
         Claimed, LitWhenClaimed

(* The report is made of what was told since On.                           *)
LEMMA LightPicture == ASSUME PanelAssumption, IInv, PInv, Light PROVE PInv'
<1> DEFINE s == Dual("on", NumLinks)
<1>1. /\ disp = "light" /\ disp' = "on"
      /\ UNCHANGED <<bound, dbg, host, pw, whose, reinit>>
      /\ Sending(s, try) /\ host.power /\ host.video
      /\ fw' = [fw EXCEPT !.enabled = ~try'.err]
      /\ claim' = (~try'.err /\ try.woke)
  BY DEF Light, Own, Still, IInv, HostsFirst, PInv, Video
<1> HIDE DEF s
<1>2. link \in [Links -> LinkSet] /\ try \in TrySet
  BY DEF PInv, Records
<1>3. /\ link' \in [Links -> LinkSet] /\ try' \in TrySet
      /\ \A l \in Links : /\ link[l].regs => link'[l].regs
                          /\ link[l].awake \/ link[l].waking => link'[l].awake \/ link'[l].waking
      /\ ~try'.err => ~try.err /\ Send(s, FALSE)
  BY <1>1, <1>2, SendingKeeps
<1>4. reinit = "idle"
  BY <1>1 DEF IInv, ReinitHolds, Shape
<1>5. fw'.prepared = fw.prepared
  BY <1>1 DEF IInv, Shape
<1>6. claim' \in BOOLEAN
  BY <1>1, <1>2, <1>3 DEF TrySet
<1>7. Records' /\ Supplied' /\ Video' /\ Woken' /\ Registered' /\ Told' /\ Claimed'
  BY <1>1, <1>3, <1>4, <1>5, <1>6 DEF PInv, Records, Supplied, Video, Woken, Ours, Registered,
     Told, Claimed
<1>8. ASSUME claim', whose # "adopted"
      PROVE  /\ Powered(pw)
             /\ \A l \in Links : link'[l].on /\ (link'[l].awake \/ link'[l].waking) /\ link'[l].regs
  <2>1. ~try'.err /\ try.woke
    BY <1>1, <1>8
  <2>2. Powered(pw)
    BY <1>1, <2>1 DEF PInv, Woken
  <2>3. Ours
    BY <1>1, <1>8, <2>2 DEF Ours, IInv, Shape, Untouched, PowerBalanced, Powered
  <2>4. \A l \in Links : link[l].regs /\ (link[l].awake \/ link[l].waking)
    BY <1>1, <1>3, <2>1, <2>3 DEF PInv, Registered, Told
  <2>5. ASSUME NEW l \in Links PROVE link'[l].on
    <3>1. NumLinks \in Nat /\ l \in 1 .. NumLinks
      BY DEF PanelAssumption, Links
    <3>2. Len(s) = NumLinks /\ Heard(s, Len(s), l, "on") /\ ~Heard(s, Len(s), l, "dark")
      BY <3>1, DualHeard, ZenonT(30) DEF s
    <3> QED BY <1>1, <1>2, <1>3, <2>1, <2>2, <3>1, <3>2, SendTells
  <2> QED BY <1>3, <2>2, <2>4, <2>5
<1>9. LitWhenClaimed'
  BY <1>1, <1>8 DEF LitWhenClaimed, Powered
<1> QED BY <1>7, <1>9 DEF PInv

LEMMA DisablePicture == ASSUME IInv, PInv, Disable PROVE PInv'
<1>1. /\ disp = "on" /\ disp' = "unprepare" /\ ~claim' /\ claim' \in BOOLEAN
      /\ UNCHANGED <<bound, dbg, pw, try, whose>>
      /\ link' = link \/ \E err \in BOOLEAN : Send(Dual("dark", NumLinks), err)
      /\ fw' = fw \/ \E err \in BOOLEAN : fw' = [fw EXCEPT !.enabled = err]
  BY DEF Disable, Own, Still
<1>2. link' \in [Links -> LinkSet]
  BY <1>1, SendKeeps DEF PInv, Records
<1>3. fw'.prepared = fw.prepared
  BY <1>1 DEF IInv, Shape
<1> QED BY <1>1, <1>2, <1>3 DEF PInv, Records, Supplied, Video, Woken, Ours, Registered,
         Told, Claimed, LitWhenClaimed

LEMMA UnpreparePicture == ASSUME IInv, PInv, Unprepare PROVE PInv'
<1>1. /\ disp = "unprepare" /\ disp' = "down" /\ ~claim
      /\ fw' = [fw EXCEPT !.prepared = FALSE]
      /\ UNCHANGED <<bound, dbg, host, try, claim>>
  BY NoReport DEF Unprepare, Unprepared, Still
<1>2. link' \in [Links -> LinkSet]
  <2>1. Dead \in [Links -> LinkSet]
    BY DEF Dead, Asleep, LinkSet
  <2> QED BY <2>1 DEF Unprepare, Unprepared, PInv, Records
<1>3. pw'.supplies \in 0 .. MaxSupplies
  <2>1. CASE pw' = pw
    BY <2>1 DEF PInv, Supplied
  <2>2. CASE pw' = PowerDown(pw) /\ fw.prepared
    <3>1. pw'.supplies = pw.supplies - 1
      BY <2>2 DEF PowerDown
    <3> QED BY <2>2, <3>1 DEF PInv, Supplied, MaxSupplies
  <2> QED BY <2>1, <2>2 DEF Unprepare, Unprepared
<1>4. ~fw'.prepared
  BY <1>1 DEF IInv, Shape
<1> QED BY <1>1, <1>2, <1>3, <1>4 DEF PInv, Records, Supplied, Video, Woken, Ours, Registered,
         Told, Claimed, LitWhenClaimed

LEMMA DownPicture == ASSUME IInv, PInv, Down PROVE PInv'
<1>1. /\ disp = "down" /\ disp' = "off" /\ ~claim
      /\ UNCHANGED <<bound, dbg, fw, pw, link, try, claim, whose>>
  BY NoReport DEF Down, Own, Still
<1> QED BY <1>1 DEF PInv, Records, Supplied, Video, Woken, Ours, Registered, Told, Claimed,
         LitWhenClaimed, IInv, PreparedBetween

LEMMA ReinitPicture ==
  ASSUME PanelAssumption, ReinitWhen # "any", IInv, PInv, ReinitReset \/ ReinitOn
  PROVE  PInv'
<1>1. CASE ReinitReset
  <2>1. /\ disp = "on" /\ disp' = "on" /\ ~claim' /\ claim' \in BOOLEAN
        /\ link' = [l \in Links |-> Asleep] /\ pw'.supplies = pw.supplies
        /\ UNCHANGED <<bound, dbg, host, fw, try, whose>>
    BY <1>1 DEF ReinitReset, Reset, IInv, Shape, Lines
  <2>2. Records'
    BY <2>1 DEF PInv, Records, LinkSet, Asleep
  <2> QED BY <2>1, <2>2 DEF PInv, Supplied, Video, Woken, Ours, Registered, Told, Claimed,
          LitWhenClaimed
<1>2. CASE ReinitOn
  <2>1. PICK err \in BOOLEAN : Send(InitSeq, err) /\ claim' = (~err /\ disp = "on")
    BY <1>2 DEF ReinitOn
  <2>2. /\ disp = "on" /\ fw.prepared /\ host.power /\ host.video
        /\ reinit' = "idle"
        /\ UNCHANGED <<bound, dbg, disp, host, fw, pw, try, whose>>
    BY <1>2 DEF ReinitOn, IInv, ReinitHolds, HostsFirst, PInv, Video
  <2>3. link \in [Links -> LinkSet] /\ link' \in [Links -> LinkSet] /\ claim' \in BOOLEAN
    BY <2>1, SendKeeps DEF PInv, Records
  <2>4. Records' /\ Supplied' /\ Video' /\ Woken' /\ Registered' /\ Told' /\ Claimed'
    BY <2>2, <2>3 DEF PInv, Records, Supplied, Video, Woken, Ours, Registered, Told, Claimed
  <2>5. ASSUME claim', whose # "adopted"
        PROVE  /\ Powered(pw)
               /\ \A l \in Links : link'[l].on /\ link'[l].waking /\ link'[l].regs
    <3>1. Powered(pw)
      BY <2>2, <2>5 DEF IInv, Shape, Untouched, PowerBalanced, Powered
    <3>2. ~err
      BY <2>1, <2>5
    <3> QED BY <2>1, <2>2, <2>3, <3>1, <3>2, SendTells, InitSeqHeard DEF PanelAssumption
  <2>6. LitWhenClaimed'
    BY <2>2, <2>5 DEF LitWhenClaimed, Powered
  <2> QED BY <2>4, <2>6 DEF PInv
<1> QED BY <1>1, <1>2

(* The panel latches sleep_out, or falls asleep where there is no video.   *)
LEMMA SleepPicture ==
  ASSUME PInv, NEW l \in Links, Latch(l) \/ FallAsleep(l)
  PROVE  PInv'
<1>1. /\ UNCHANGED <<bound, dbg, disp, host, fw, pw, try, claim, reinit, whose>>
      /\ link \in [Links -> LinkSet]
  BY DEF Latch, FallAsleep, PInv, Records
<1>2. /\ link' \in [Links -> LinkSet]
      /\ \A k \in Links : /\ link'[k].regs = link[k].regs /\ link'[k].on = link[k].on
                          /\ host.video /\ (link[k].awake \/ link[k].waking) =>
                               link'[k].awake \/ link'[k].waking
  <2>1. CASE Latch(l)
    <3> DEFINE new == [link[l] EXCEPT !.awake = TRUE, !.waking = FALSE]
    <3>1. link' = [link EXCEPT ![l] = new]
      <4>1. [link EXCEPT ![l].awake = TRUE, ![l].waking = FALSE] = [link EXCEPT ![l] = new]
        BY <1>1 DEF LinkSet
      <4> QED BY <2>1, <4>1 DEF Latch
    <3>2. new \in LinkSet /\ new.regs = link[l].regs /\ new.on = link[l].on /\ new.awake
      BY <1>1 DEF LinkSet
    <3> HIDE DEF new
    <3> QED BY <1>1, <3>1, <3>2
  <2>2. CASE FallAsleep(l)
    <3> DEFINE new == [link[l] EXCEPT !.awake = FALSE]
    <3>1. link' = [link EXCEPT ![l] = new]
      BY <1>1, <2>2 DEF FallAsleep
    <3>2. new \in LinkSet /\ new.regs = link[l].regs /\ new.on = link[l].on
      BY <1>1 DEF LinkSet
    <3> HIDE DEF new
    <3> QED BY <1>1, <2>2, <3>1, <3>2 DEF FallAsleep
  <2> QED BY <2>1, <2>2
<1> QED BY <1>1, <1>2 DEF PInv, Records, Supplied, Video, Woken, Ours, Registered, Told, Claimed,
         LitWhenClaimed, Powered

LEMMA NextPicture ==
  ASSUME PanelAssumption, ReinitWhen # "any", IInv, PInv, [Next]_vars
  PROVE  PInv'
<1>1. CASE Display
  BY <1>1, UpPicture, PreparePicture, ResetPicture, OnPicture, StreamPicture, WakePicture,
     PollPicture, LightPicture, DisablePicture, UnpreparePicture, DownPicture DEF Display
<1>2. CASE ReinitReset \/ ReinitOn
  BY <1>2, ReinitPicture
<1>3. CASE r63319_probe \/ r63319_remove
  BY <1>3, PictureQuiet DEF r63319_probe, r63319_remove, PInv, Records
<1>4. CASE \E v \in InheritValues : SetInherit(v)
  BY <1>4, PictureQuiet DEF SetInherit, PInv, Records
<1>5. CASE \E l \in Links : Latch(l) \/ FallAsleep(l)
  BY <1>5, SleepPicture
<1>6. CASE UNCHANGED vars
  BY <1>6, PictureQuiet DEF vars, PInv, Records
<1> QED BY <1>1, <1>2, <1>3, <1>4, <1>5, <1>6 DEF Next

(* What refused is set to is a truth value.                                *)
RefusedKnown == refused \in BOOLEAN

LEMMA RefusedType ==
  ASSUME RefusedKnown, [Next]_vars
  PROVE  RefusedKnown'
<1> USE DEF RefusedKnown
<1>1. CASE Display
  <2>1. CASE Prepare \/ On \/ Wake \/ Poll \/ Light \/ Disable \/ Unprepare
    <3>1. refused' = refused \/ (\E x : refused' = (refused \/ x))
      BY <2>1 DEF Prepare, On, Wake, Poll, Light, Disable, Unprepare, Unprepared, Sending, Send
    <3> QED BY <3>1
  <2> QED BY <1>1, <2>1 DEF Display, Up, ResetPanel, Stream, Down
<1>2. CASE ReinitReset \/ ReinitOn
  BY <1>2 DEF ReinitReset, ReinitOn, Send
<1>3. CASE ~Display /\ ~(ReinitReset \/ ReinitOn)
  BY <1>3 DEF Next, vars, r63319_probe, r63319_remove, SetInherit, Latch, FallAsleep
<1> QED BY <1>1, <1>2, <1>3

(* The mode of two links is twice the mode of one.                         *)
LEMMA HalvesOfOneMode == ModesHalve
  BY DEF ModesHalve, r63319_mode_dual, r63319_mode_single

(* Unless reinit is written in the middle of a switch, the supplies and    *)
(* lines of a panel that the driver set up itself are balanced after every *)
(* failure of r63319_prepare() and r63319_unprepare(), and every command   *)
(* of the driver finds its host powered.                                   *)
THEOREM PanelPowerSound ==
  ASSUME PanelAssumption, ReinitWhen # "any"
  PROVE  Spec => []PowerSound
<1>1. IInv => PowerSound
  BY DEF IInv, PowerSound
<1> QED BY <1>1, InitInv, NextInv, PTL DEF Spec

(* Under the same assumption, a driver that reported a panel that woke     *)
(* without an error told each link of it its registers, to wake and to     *)
(* light up, with power and video there until it is disabled or reset.     *)
THEOREM PanelPictureSound ==
  ASSUME PanelAssumption, ReinitWhen # "any"
  PROVE  Spec => []PictureSound
<1>1. IInv /\ PInv /\ RefusedKnown => TypeOK
  <2> SUFFICES ASSUME IInv, PInv, RefusedKnown PROVE TypeOK
    OBVIOUS
  <2>1. pw \in [supplies : 0 .. MaxSupplies, reset : BOOLEAN, enable : BOOLEAN]
    BY DEF IInv, Shape, Lines, PInv, Supplied
  <2> QED BY <2>1 DEF IInv, Shape, PInv, Records, LinkSet, TrySet, RefusedKnown, TypeOK
<1>2. IInv /\ PInv /\ RefusedKnown => PictureSound
  BY <1>1, HalvesOfOneMode DEF PInv, PictureSound
<1>3. Init => RefusedKnown
  BY DEF Init, RefusedKnown
<1> QED BY <1>2, <1>3, InitInv, NextInv, PictureInit, NextPicture, RefusedType, PTL DEF Spec

(***************************************************************************)
(* The switches of SpmiRegulator.                                          *)
(***************************************************************************)

Switches ==
  [irq : BOOLEAN, use : {"off", "enabling", "on"}, on : BOOLEAN, tripped : BOOLEAN,
   edge : BOOLEAN, late : BOOLEAN, count : Nat, clears : Nat, shorts : Nat]

SwitchShape ==
  /\ vs \in Switches
  /\ isr \in [pc : {"idle", "read", "count", "clear", "set"}, n : Nat]
  /\ work \in [queued : BOOLEAN, pc : {"idle", "clear", "set"}]

(* The steps of one retry follow each other, and no two retries overlap.   *)
Alone ==
  /\ vs.edge => isr.pc = "idle"
  /\ vs.edge \/ isr.pc # "idle" => ~work.queued /\ work.pc = "idle"
  /\ work.queued => work.pc = "idle"

(* A switch that has tripped is open until it is cleared, and between the  *)
(* two writes of the clear it is off: it cannot trip again before.         *)
Open ==
  /\ vs.edge \/ isr.pc \in {"read", "count", "clear"} \/ work.queued \/ work.pc = "clear" => vs.tripped
  /\ isr.pc = "set" \/ work.pc = "set" => ~vs.on

(* When a switch is off, or about to be on for the first time, nothing is  *)
(* left of its last use; without an interrupt nothing is ever counted.     *)
Apart ==
  /\ Retrying => vs.use = "on"
  /\ vs.on => vs.use = "on"
  /\ vs.use = "enabling" => vs.count = 0 /\ vs.clears = 0
  /\ ~vs.irq => vs.count = 0 /\ vs.clears = 0 /\ ~Retrying

(* At rest, and before the retry is counted, every counted trip has been   *)
(* cleared but the one too many; then the clear is one behind.             *)
Counts ==
  /\ ~Retrying =>
       /\ vs.count <= MaxRetries + 1
       /\ vs.clears = IF vs.count > MaxRetries THEN MaxRetries ELSE vs.count
  /\ vs.on /\ ~vs.tripped => vs.count <= MaxRetries
  /\ vs.edge \/ isr.pc \in {"read", "count"} \/ work.pc = "set" =>
       vs.count <= MaxRetries /\ vs.clears = vs.count
  /\ isr.pc = "count" => isr.n = vs.count + 1
  /\ isr.pc = "clear" => vs.count = 1 /\ vs.clears = 0
  /\ isr.pc = "set" => vs.count = 1 /\ vs.clears = 1
  /\ work.queued \/ work.pc = "clear" =>
       vs.count \in 2 .. MaxRetries /\ vs.clears = vs.count - 1

RetryInv == SwitchShape /\ Alone /\ Open /\ Apart /\ Counts

LEMMA Bounded == RetryInv => RetriesBounded
  BY SpmiAssumption DEF RetryInv, SwitchShape, Switches, Counts, RetriesBounded, Retrying

LEMMA InitRetry == RegulatorInit => RetryInv
<1> SUFFICES ASSUME RegulatorInit PROVE RetryInv
  OBVIOUS
<1> DEFINE irqs == IF row.ops = "vs" THEN BOOLEAN ELSE {FALSE}
<1>0. /\ vs \in [irq : irqs, use : {"off"}, on : {FALSE}, tripped : {FALSE}, edge : {FALSE},
                 late : {FALSE}, count : {0}, clears : {0}, shorts : {0}]
      /\ irqs \subseteq BOOLEAN
      /\ isr = [pc |-> "idle", n |-> 0] /\ work = [queued |-> FALSE, pc |-> "idle"]
  BY DEF RegulatorInit
<1> HIDE DEF irqs
<1>1. /\ vs.irq \in BOOLEAN /\ vs.use = "off" /\ ~vs.on /\ ~vs.tripped /\ ~vs.edge /\ ~vs.late
      /\ vs.count = 0 /\ vs.clears = 0 /\ vs.shorts = 0
      /\ isr.pc = "idle" /\ ~work.queued /\ work.pc = "idle"
  BY <1>0
<1>2. SwitchShape
  <2>1. BOOLEAN = {TRUE, FALSE} /\ 0 \in Nat
    OBVIOUS
  <2>2. vs \in Switches
    BY <1>0, <2>1 DEF Switches
  <2> QED BY <1>0, <2>2 DEF SwitchShape
<1> QED BY <1>1, <1>2, SpmiAssumption DEF RetryInv, Alone, Open, Apart, Counts, Retrying

LEMMA StillRetry ==
  ASSUME RetryInv, UNCHANGED <<vs, isr, work>>
  PROVE  RetryInv'
  BY DEF RetryInv, SwitchShape, Switches, Alone, Open, Apart, Counts, Retrying

-------------------------------------------------------------------------------

LEMMA VsResetKeeps ==
  ASSUME RetryInv, VsReset
  PROVE  RetryInv'
<1>1. SwitchShape'
  BY DEF RetryInv, SwitchShape, Switches, VsReset, Switch
<1>2. Alone'
  BY DEF RetryInv, SwitchShape, Switches, Alone, Open, Apart, Counts, Retrying, VsReset, Switch
<1>3. Open'
  BY DEF RetryInv, SwitchShape, Switches, Alone, Open, Apart, Counts, Retrying, VsReset, Switch
<1>4. Apart'
  BY DEF RetryInv, SwitchShape, Switches, Alone, Open, Apart, Counts, Retrying, VsReset, Switch
<1>5. Counts'
  BY SpmiAssumption DEF RetryInv, SwitchShape, Switches, Alone, Open, Apart, Counts, Retrying, VsReset, Switch
<1> QED BY <1>1, <1>2, <1>3, <1>4, <1>5 DEF RetryInv

LEMMA VsEnableKeeps ==
  ASSUME RetryInv, VsEnable
  PROVE  RetryInv'
<1>1. SwitchShape'
  BY DEF RetryInv, SwitchShape, Switches, VsEnable, Switch
<1>2. Alone'
  BY DEF RetryInv, SwitchShape, Switches, Alone, Open, Apart, Counts, Retrying, VsEnable, Switch
<1>3. Open'
  BY DEF RetryInv, SwitchShape, Switches, Alone, Open, Apart, Counts, Retrying, VsEnable, Switch
<1>4. Apart'
  BY DEF RetryInv, SwitchShape, Switches, Alone, Open, Apart, Counts, Retrying, VsEnable, Switch
<1>5. Counts'
  BY SpmiAssumption DEF RetryInv, SwitchShape, Switches, Alone, Open, Apart, Counts, Retrying, VsEnable, Switch
<1> QED BY <1>1, <1>2, <1>3, <1>4, <1>5 DEF RetryInv

LEMMA VsDisableKeeps ==
  ASSUME RetryInv, VsDisable, Disables = "idle"
  PROVE  RetryInv'
<1>1. SwitchShape'
  BY DEF RetryInv, SwitchShape, Switches, VsDisable, Switch
<1>2. Alone'
  BY DEF RetryInv, SwitchShape, Switches, Alone, Open, Apart, Counts, Retrying, VsDisable, Switch
<1>3. Open'
  BY DEF RetryInv, SwitchShape, Switches, Alone, Open, Apart, Counts, Retrying, VsDisable, Switch
<1>4. Apart'
  BY DEF RetryInv, SwitchShape, Switches, Alone, Open, Apart, Counts, Retrying, VsDisable, Switch
<1>5. Counts'
  BY SpmiAssumption DEF RetryInv, SwitchShape, Switches, Alone, Open, Apart, Counts, Retrying, VsDisable, Switch
<1> QED BY <1>1, <1>2, <1>3, <1>4, <1>5 DEF RetryInv

LEMMA ShortKeeps ==
  ASSUME RetryInv, Short
  PROVE  RetryInv'
<1>1. SwitchShape'
  <2>1. vs \in Switches /\ vs.shorts + 1 \in Nat
    BY DEF RetryInv, SwitchShape, Switches
  <2>2. vs' = [vs EXCEPT !.tripped = TRUE, !.edge = TRUE, !.shorts = vs.shorts + 1]
    BY DEF Short
  <2>3. vs' \in Switches
    BY <2>1, <2>2 DEF Switches
  <2> QED BY <2>3 DEF RetryInv, SwitchShape, Short
<1>2. Alone'
  BY DEF RetryInv, SwitchShape, Switches, Alone, Open, Apart, Counts, Retrying, Short, Switch
<1>3. Open'
  BY DEF RetryInv, SwitchShape, Switches, Alone, Open, Apart, Counts, Retrying, Short, Switch
<1>4. Apart'
  BY DEF RetryInv, SwitchShape, Switches, Alone, Open, Apart, Counts, Retrying, Short, Switch
<1>5. Counts'
  BY SpmiAssumption DEF RetryInv, SwitchShape, Switches, Alone, Open, Apart, Counts, Retrying, Short, Switch
<1> QED BY <1>1, <1>2, <1>3, <1>4, <1>5 DEF RetryInv

LEMMA LateKeeps ==
  ASSUME RetryInv, Late
  PROVE  RetryInv'
<1>1. SwitchShape'
  BY DEF RetryInv, SwitchShape, Switches, Late, Switch
<1>2. Alone'
  BY DEF RetryInv, SwitchShape, Switches, Alone, Open, Apart, Counts, Retrying, Late, Switch
<1>3. Open'
  BY DEF RetryInv, SwitchShape, Switches, Alone, Open, Apart, Counts, Retrying, Late, Switch
<1>4. Apart'
  BY DEF RetryInv, SwitchShape, Switches, Alone, Open, Apart, Counts, Retrying, Late, Switch
<1>5. Counts'
  BY SpmiAssumption DEF RetryInv, SwitchShape, Switches, Alone, Open, Apart, Counts, Retrying, Late, Switch
<1> QED BY <1>1, <1>2, <1>3, <1>4, <1>5 DEF RetryInv

LEMMA IsrStartKeeps ==
  ASSUME RetryInv, IsrStart
  PROVE  RetryInv'
<1>1. SwitchShape'
  BY DEF RetryInv, SwitchShape, Switches, IsrStart
<1>2. Alone'
  BY DEF RetryInv, SwitchShape, Switches, Alone, Open, Apart, Counts, Retrying, IsrStart
<1>3. Open'
  BY DEF RetryInv, SwitchShape, Switches, Alone, Open, Apart, Counts, Retrying, IsrStart
<1>4. Apart'
  BY DEF RetryInv, SwitchShape, Switches, Alone, Open, Apart, Counts, Retrying, IsrStart
<1>5. Counts'
  BY SpmiAssumption DEF RetryInv, SwitchShape, Switches, Alone, Open, Apart, Counts, Retrying, IsrStart
<1> QED BY <1>1, <1>2, <1>3, <1>4, <1>5 DEF RetryInv

LEMMA IsrReadKeeps ==
  ASSUME RetryInv, IsrRead
  PROVE  RetryInv'
<1>1. SwitchShape'
  BY DEF RetryInv, SwitchShape, Switches, IsrRead
<1>2. Alone'
  BY DEF RetryInv, SwitchShape, Switches, Alone, Open, Apart, Counts, Retrying, IsrRead
<1>3. Open'
  BY DEF RetryInv, SwitchShape, Switches, Alone, Open, Apart, Counts, Retrying, IsrRead
<1>4. Apart'
  BY DEF RetryInv, SwitchShape, Switches, Alone, Open, Apart, Counts, Retrying, IsrRead
<1>5. Counts'
  BY SpmiAssumption DEF RetryInv, SwitchShape, Switches, Alone, Open, Apart, Counts, Retrying, IsrRead
<1> QED BY <1>1, <1>2, <1>3, <1>4, <1>5 DEF RetryInv

LEMMA IsrCountKeeps ==
  ASSUME RetryInv, IsrCount
  PROVE  RetryInv'
<1>1. SwitchShape'
  BY DEF RetryInv, SwitchShape, Switches, IsrCount
<1>2. Alone'
  BY DEF RetryInv, SwitchShape, Switches, Alone, Open, Apart, Counts, Retrying, IsrCount
<1>3. Open'
  BY DEF RetryInv, SwitchShape, Switches, Alone, Open, Apart, Counts, Retrying, IsrCount
<1>4. Apart'
  BY DEF RetryInv, SwitchShape, Switches, Alone, Open, Apart, Counts, Retrying, IsrCount
<1>5. Counts'
  BY SpmiAssumption DEF RetryInv, SwitchShape, Switches, Alone, Open, Apart, Counts, Retrying, IsrCount
<1> QED BY <1>1, <1>2, <1>3, <1>4, <1>5 DEF RetryInv

LEMMA IsrClearKeeps ==
  ASSUME RetryInv, IsrClear
  PROVE  RetryInv'
<1>1. SwitchShape'
  <2>1. vs \in Switches /\ vs.clears + 1 \in Nat
    BY DEF RetryInv, SwitchShape, Switches
  <2>2. [vs EXCEPT !.on = FALSE, !.tripped = FALSE, !.late = FALSE, !.clears = vs.clears + 1] \in Switches
    BY <2>1 DEF Switches
  <2>3. [vs EXCEPT !.on = TRUE] \in Switches
    BY <2>1 DEF Switches
  <2>4. vs' \in Switches
    BY <2>2, <2>3 DEF IsrClear, Cleared
  <2> QED BY <2>4 DEF RetryInv, SwitchShape, IsrClear
<1>2. Alone'
  BY DEF RetryInv, SwitchShape, Switches, Alone, Open, Apart, Counts, Retrying, IsrClear, Cleared
<1>3. Open'
  BY DEF RetryInv, SwitchShape, Switches, Alone, Open, Apart, Counts, Retrying, IsrClear, Cleared
<1>4. Apart'
  BY DEF RetryInv, SwitchShape, Switches, Alone, Open, Apart, Counts, Retrying, IsrClear, Cleared
<1>5. Counts'
  BY SpmiAssumption DEF RetryInv, SwitchShape, Switches, Alone, Open, Apart, Counts, Retrying, IsrClear, Cleared
<1> QED BY <1>1, <1>2, <1>3, <1>4, <1>5 DEF RetryInv

LEMMA WorkStartKeeps ==
  ASSUME RetryInv, WorkStart
  PROVE  RetryInv'
<1>1. SwitchShape'
  BY DEF RetryInv, SwitchShape, Switches, WorkStart
<1>2. Alone'
  BY DEF RetryInv, SwitchShape, Switches, Alone, Open, Apart, Counts, Retrying, WorkStart
<1>3. Open'
  BY DEF RetryInv, SwitchShape, Switches, Alone, Open, Apart, Counts, Retrying, WorkStart
<1>4. Apart'
  BY DEF RetryInv, SwitchShape, Switches, Alone, Open, Apart, Counts, Retrying, WorkStart
<1>5. Counts'
  BY SpmiAssumption DEF RetryInv, SwitchShape, Switches, Alone, Open, Apart, Counts, Retrying, WorkStart
<1> QED BY <1>1, <1>2, <1>3, <1>4, <1>5 DEF RetryInv

LEMMA WorkClearKeeps ==
  ASSUME RetryInv, WorkClear
  PROVE  RetryInv'
<1>1. SwitchShape'
  <2>1. vs \in Switches /\ vs.clears + 1 \in Nat
    BY DEF RetryInv, SwitchShape, Switches
  <2>2. [vs EXCEPT !.on = FALSE, !.tripped = FALSE, !.late = FALSE, !.clears = vs.clears + 1] \in Switches
    BY <2>1 DEF Switches
  <2>3. [vs EXCEPT !.on = TRUE] \in Switches
    BY <2>1 DEF Switches
  <2>4. vs' \in Switches
    BY <2>2, <2>3 DEF WorkClear, Cleared
  <2> QED BY <2>4 DEF RetryInv, SwitchShape, WorkClear
<1>2. Alone'
  BY DEF RetryInv, SwitchShape, Switches, Alone, Open, Apart, Counts, Retrying, WorkClear, Cleared
<1>3. Open'
  BY DEF RetryInv, SwitchShape, Switches, Alone, Open, Apart, Counts, Retrying, WorkClear, Cleared
<1>4. Apart'
  BY DEF RetryInv, SwitchShape, Switches, Alone, Open, Apart, Counts, Retrying, WorkClear, Cleared
<1>5. Counts'
  BY SpmiAssumption DEF RetryInv, SwitchShape, Switches, Alone, Open, Apart, Counts, Retrying, WorkClear, Cleared
<1> QED BY <1>1, <1>2, <1>3, <1>4, <1>5 DEF RetryInv

-------------------------------------------------------------------------------
LEMMA NextRetry ==
  ASSUME RetryInv, [RegulatorNext]_regulatorVars, Disables = "idle"
  PROVE  RetryInv'
<1>1. CASE Register
  BY <1>1, StillRetry DEF Register
<1>2. CASE \E lo, hi \in Marks : lo <= hi /\ SetVoltage(lo, hi)
  BY <1>2, StillRetry DEF SetVoltage
<1>3. CASE \E m \in {"normal", "fast", "idle"} : SetMode(m)
  BY <1>3, StillRetry DEF SetMode
<1>4. CASE \E load \in {row.hpm - 1, row.hpm} : spmi_regulator_common_set_load(load)
  BY <1>4, StillRetry DEF spmi_regulator_common_set_load
<1>5. CASE \E b \in BOOLEAN : spmi_regulator_common_set_bypass(b)
  BY <1>5, StillRetry DEF spmi_regulator_common_set_bypass
<1>6. CASE UNCHANGED regulatorVars
  BY <1>6, StillRetry DEF regulatorVars
<1>7. CASE LeaveSlave
  BY <1>7, StillRetry DEF LeaveSlave
<1> QED
  BY <1>1, <1>2, <1>3, <1>4, <1>5, <1>6, <1>7, VsResetKeeps, VsEnableKeeps, VsDisableKeeps,
     ShortKeeps, LateKeeps, IsrStartKeeps, IsrReadKeeps, IsrCountKeeps, IsrClearKeeps,
     WorkStartKeeps, WorkClearKeeps
    DEF RegulatorNext

(* As long as nobody switches a rail off in the middle of a retry, its     *)
(* over-current retries are bounded by ocp_max_retries between two enables *)
(* (or trips long after one), wherever the interrupt handler and the       *)
(* delayed work are preempted (spmi_regulator_vs_ocp_isr, _vs_ocp_work).   *)
THEOREM RetriesStayBounded ==
  ASSUME Disables = "idle"
  PROVE  RegulatorSpec => []RetriesBounded
<1>1. RegulatorInit => RetryInv
  BY InitRetry
<1>2. RetryInv /\ [RegulatorNext]_regulatorVars => RetryInv'
  BY NextRetry
<1>3. RetryInv => RetriesBounded
  BY Bounded
<1> QED BY <1>1, <1>2, <1>3, PTL DEF RegulatorSpec

(***************************************************************************)
(* The rails of SpmiRegulator.  Of the registers only the fields that no    *)
(* request for a voltage writes have types here: S holds all other values.  *)
(***************************************************************************)
RailRegs(S) ==
  [range : S, vset : S, top : {"none", "hpm", "auto"}, low : 0 .. 7, bypass : BOOLEAN,
   ctrl : S, mode_pins : S, enable_pins : S, soft : S, limit : S]

RailShape ==
  /\ phase \in {"off", "up", "failed", "left"}
  /\ \E S : reg \in RailRegs(S)
  /\ \E S : want \in [lo : S, hi : S, mode : {"any", "normal", "fast", "idle"}, dt : Configs]

(* A rail is as boot software left it until it is registered, and the       *)
(* layouts with numbered modes have no bypass.                              *)
AsBooted == phase = "off" => reg.mode_pins = BootPins /\ want.mode = "any"

Numbered == LowMode => ~reg.bypass

RailInv == RailShape /\ AsBooted /\ Numbered /\ ModeHeld /\ PinsKept /\ LimitMet

LEMMA VsetOnly ==
  ASSUME NEW S, NEW g \in RailRegs(S), NEW a
  PROVE  LET h == [g EXCEPT !.vset = a]
         IN /\ h \in RailRegs(S \cup {a})
            /\ h.top = g.top /\ h.low = g.low /\ h.bypass = g.bypass
            /\ h.mode_pins = g.mode_pins /\ h.limit = g.limit
            /\ h.ctrl = g.ctrl /\ h.enable_pins = g.enable_pins /\ h.soft = g.soft
BY DEF RailRegs

LEMMA RangeOnly ==
  ASSUME NEW S, NEW g \in RailRegs(S), NEW a
  PROVE  LET h == [g EXCEPT !.range = a]
         IN /\ h \in RailRegs(S \cup {a})
            /\ h.top = g.top /\ h.low = g.low /\ h.bypass = g.bypass
            /\ h.mode_pins = g.mode_pins /\ h.limit = g.limit
            /\ h.ctrl = g.ctrl /\ h.enable_pins = g.enable_pins /\ h.soft = g.soft
BY DEF RailRegs

(* A request for a voltage leaves mode, bypass, pins and limit alone,       *)
(* whatever the layout and whoever drives the rail.                         *)
LEMMA VoltageOnly ==
  ASSUME NEW S, reg \in RailRegs(S), NEW sel, NEW r \in SetVoltageSel(sel)
  PROVE  /\ \E T : r \in RailRegs(T)
         /\ r.top = reg.top /\ r.low = reg.low /\ r.bypass = reg.bypass
         /\ r.mode_pins = reg.mode_pins /\ r.limit = reg.limit
         /\ r.ctrl = reg.ctrl /\ r.enable_pins = reg.enable_pins /\ r.soft = reg.soft
<1> DEFINE Same(h) == /\ h.top = reg.top /\ h.low = reg.low /\ h.bypass = reg.bypass
                      /\ h.mode_pins = reg.mode_pins /\ h.limit = reg.limit
                      /\ h.ctrl = reg.ctrl /\ h.enable_pins = reg.enable_pins /\ h.soft = reg.soft
           Ok(h) == (\E T : h \in RailRegs(T)) /\ Same(h)
           hw == spmi_sw_selector_to_hw(pts, sel)
<1>1. ASSUME NEW a PROVE Ok([reg EXCEPT !.vset = a])
  <2> DEFINE h == [reg EXCEPT !.vset = a]
  <2>1. h \in RailRegs(S \cup {a}) /\ Same(h)
    BY VsetOnly
  <2> HIDE DEF h
  <2>2. (\E T : h \in RailRegs(T)) /\ Same(h)
    BY <2>1
  <2> QED BY <2>2 DEF h
<1>2. ASSUME NEW a, NEW b PROVE Ok([reg EXCEPT !.range = a, !.vset = b])
  <2> DEFINE g == [reg EXCEPT !.range = a]
  <2>1. g \in RailRegs(S \cup {a}) /\ Same(g)
    BY RangeOnly
  <2>2. [reg EXCEPT !.range = a, !.vset = b] = [g EXCEPT !.vset = b]
    OBVIOUS
  <2> HIDE DEF g
  <2>3. /\ [g EXCEPT !.vset = b] \in RailRegs((S \cup {a}) \cup {b})
        /\ Same([g EXCEPT !.vset = b])
    BY <2>1, VsetOnly
  <2> QED BY <2>2, <2>3
<1>3. Ok(reg)
  OBVIOUS
<1> HIDE DEF Ok, Same
<1>4. CASE Leader
  <2>1. r = reg \/ \E a : r = [reg EXCEPT !.vset = a]
    BY <1>4 DEF SetVoltageSel, spmi_saw_set_vdd
  <2>2. Ok(r)
    BY <1>1, <1>3, <2>1
  <2> QED BY <2>2 DEF Ok, Same
<1>5. CASE ~Leader
  <2>1. r = SetSel(sel)
    BY <1>5 DEF SetVoltageSel
  <2>2. \/ r = reg
        \/ \E a : r = [reg EXCEPT !.vset = a]
        \/ \E a, b : r = [reg EXCEPT !.range = a, !.vset = b]
    <3> DEFINE L == Layout
    <3>1. r = CASE L = "range" -> [reg EXCEPT !.range = hw.range, !.vset = hw.vset]
               [] L = "split" -> [reg EXCEPT !.vset = IF hw.range = 1 THEN hw.vset + ULT_SMPS_RANGE_SPLIT
                                                      ELSE hw.vset]
               [] L = "single" -> [reg EXCEPT !.vset = sel % 256]
               [] L = "mv" -> [reg EXCEPT !.vset = MilliVolts(sel)]
               [] OTHER -> reg
      BY <2>1 DEF SetSel
    <3> HIDE DEF L, hw
    <3>2. CASE L = "range"
      BY <3>1, <3>2
    <3>3. CASE L = "split"
      BY <3>1, <3>3
    <3>4. CASE L = "single"
      BY <3>1, <3>4
    <3>5. CASE L = "mv"
      BY <3>1, <3>5
    <3>6. CASE L \notin {"range", "split", "single", "mv"}
      BY <3>1, <3>6
    <3> QED BY <3>2, <3>3, <3>4, <3>5, <3>6
  <2>3. CASE r = reg
    BY <1>3, <2>3 DEF Ok, Same
  <2>4. CASE \E a : r = [reg EXCEPT !.vset = a]
    <3>1. PICK a : r = [reg EXCEPT !.vset = a]
      BY <2>4
    <3>2. Ok([reg EXCEPT !.vset = a])
      BY <1>1
    <3> QED BY <3>1, <3>2 DEF Ok, Same
  <2>5. CASE \E a, b : r = [reg EXCEPT !.range = a, !.vset = b]
    <3>1. PICK a, b : r = [reg EXCEPT !.range = a, !.vset = b]
      BY <2>5
    <3>2. Ok([reg EXCEPT !.range = a, !.vset = b])
      BY <1>2
    <3> QED BY <3>1, <3>2 DEF Ok, Same
  <2> QED BY <2>2, <2>3, <2>4, <2>5
<1> QED BY <1>4, <1>5

LEMMA InitRail == RegulatorInit => RailInv
<1> SUFFICES ASSUME RegulatorInit PROVE RailInv
  OBVIOUS
<1>1. RailShape
  <2> DEFINE z == IF LowMode THEN 7 ELSE 0
  <2>1. PICK c : reg \in [range : BootRanges, vset : BootCodes, top : {"none"}, low : {z},
                          bypass : {FALSE}, ctrl : c, mode_pins : {BootPins},
                          enable_pins : {{}}, soft : {0}, limit : {NoLimit}]
    BY DEF RegulatorInit
  <2>5. z \in 0 .. 7
    OBVIOUS
  <2> DEFINE e == {{}}
             T == BootRanges \cup BootCodes \cup c \cup {BootPins} \cup e \cup {0} \cup {NoLimit}
  <2>6. reg \in [range : BootRanges, vset : BootCodes, top : {"none"}, low : {z},
                 bypass : {FALSE}, ctrl : c, mode_pins : {BootPins},
                 enable_pins : e, soft : {0}, limit : {NoLimit}]
    BY <2>1
  <2> HIDE DEF z, e
  <2>2. reg \in RailRegs(T)
    BY <2>5, <2>6 DEF RailRegs
  <2>3. want \in [lo : {-1}, hi : {-1}, mode : {"any", "normal", "fast", "idle"}, dt : Configs]
    BY DEF RegulatorInit
  <2> HIDE DEF T
  <2>4. phase = "off"
    BY DEF RegulatorInit
  <2> QED BY <2>2, <2>3, <2>4 DEF RailShape
<1>2. phase = "off" /\ reg.mode_pins = BootPins /\ ~reg.bypass /\ want.mode = "any"
  BY DEF RegulatorInit
<1> QED BY <1>1, <1>2 DEF RailInv, AsBooted, Numbered, ModeHeld, PinsKept, LimitMet

LEMMA RailStill ==
  ASSUME RailInv, UNCHANGED <<phase, row, reg, want>>
  PROVE  RailInv'
<1>1. RailShape' /\ AsBooted' /\ Numbered'
  BY DEF RailInv, RailShape, AsBooted, Numbered, LowMode, BootPins
<1>2. ModeHeld' /\ LimitMet'
  BY DEF RailInv, ModeHeld, GetMode, LowMode, LowModeOf, LimitMet, Limits
<1>3. PinsKept'
  BY DEF RailInv, PinsKept, LowMode, BootPins
<1> QED BY <1>1, <1>2, <1>3 DEF RailInv

LEMMA SetVoltageRail ==
  ASSUME RailInv, NEW lo, NEW hi, SetVoltage(lo, hi)
  PROVE  RailInv'
<1>1. PICK S : reg \in RailRegs(S)
  BY DEF RailInv, RailShape
<1>2. reg' \in SetVoltageSel(MapVoltage(lo, hi))
  BY DEF SetVoltage
<1>3. /\ \E T : reg' \in RailRegs(T)
      /\ reg'.top = reg.top /\ reg'.low = reg.low /\ reg'.bypass = reg.bypass
      /\ reg'.mode_pins = reg.mode_pins /\ reg'.limit = reg.limit
  BY <1>1, <1>2, VoltageOnly
<1>4. /\ \E T : want' \in [lo : T, hi : T, mode : {"any", "normal", "fast", "idle"}, dt : Configs]
      /\ want'.mode = want.mode /\ want'.dt = want.dt
  <2>1. PICK R : want \in [lo : R, hi : R, mode : {"any", "normal", "fast", "idle"}, dt : Configs]
    BY DEF RailInv, RailShape
  <2> DEFINE T == R \cup {lo, hi}
             w == [want EXCEPT !.lo = lo]
  <2>2. /\ w \in [lo : T, hi : T, mode : {"any", "normal", "fast", "idle"}, dt : Configs]
        /\ w.mode = want.mode /\ w.dt = want.dt
    BY <2>1
  <2>3. want' = [w EXCEPT !.hi = hi]
    BY DEF SetVoltage
  <2> HIDE DEF w
  <2>4. /\ want' \in [lo : T, hi : T, mode : {"any", "normal", "fast", "idle"}, dt : Configs]
        /\ want'.mode = want.mode /\ want'.dt = want.dt
    BY <2>2, <2>3
  <2> QED BY <2>4
<1>5. phase' = phase /\ row' = row
  BY DEF SetVoltage
<1>6. RailShape'
  BY <1>3, <1>4, <1>5 DEF RailInv, RailShape
<1>7. AsBooted' /\ Numbered'
  BY <1>3, <1>4, <1>5 DEF RailInv, AsBooted, Numbered, LowMode, BootPins
<1>8. ModeHeld' /\ LimitMet'
  BY <1>3, <1>4, <1>5 DEF RailInv, ModeHeld, GetMode, LowMode, LowModeOf, LimitMet, Limits
<1>9. PinsKept'
  BY <1>3, <1>4, <1>5 DEF RailInv, PinsKept, LowMode, BootPins
<1> QED BY <1>6, <1>7, <1>8, <1>9 DEF RailInv

(* What an operation that writes the mode has to show.                      *)
LEMMA ModeRail ==
  ASSUME RailInv, UNCHANGED <<phase, row>>, \E T : reg' \in RailRegs(T),
         reg'.mode_pins = reg.mode_pins, reg'.limit = reg.limit, Numbered', ModeHeld',
         NEW m \in {"any", "normal", "fast", "idle"}, want' = [want EXCEPT !.mode = m],
         phase = "up"
  PROVE  RailInv'
<1>1. PICK R : want \in [lo : R, hi : R, mode : {"any", "normal", "fast", "idle"}, dt : Configs]
  BY DEF RailInv, RailShape
<1>2. /\ want' \in [lo : R, hi : R, mode : {"any", "normal", "fast", "idle"}, dt : Configs]
      /\ want'.dt = want.dt
  BY <1>1
<1>3. RailShape' /\ AsBooted'
  BY <1>2 DEF RailInv, RailShape, AsBooted
<1>4. LimitMet'
  BY <1>2 DEF RailInv, LimitMet, Limits
<1>5. PinsKept'
  BY <1>2 DEF RailInv, PinsKept, LowMode, BootPins
<1> QED BY <1>3, <1>4, <1>5 DEF RailInv

LEMMA CommonMode ==
  ASSUME NEW S, reg \in RailRegs(S), NEW m \in {"normal", "fast", "idle"}
  PROVE  /\ spmi_regulator_common_set_mode(m) \in RailRegs(S)
         /\ spmi_regulator_common_set_mode(m).top =
              (IF m = "normal" THEN "hpm" ELSE IF m = "fast" THEN "auto" ELSE "none")
         /\ spmi_regulator_common_set_mode(m).low = reg.low
         /\ spmi_regulator_common_set_mode(m).bypass = reg.bypass
         /\ spmi_regulator_common_set_mode(m).mode_pins = reg.mode_pins
         /\ spmi_regulator_common_set_mode(m).limit = reg.limit
<1> DEFINE a == IF m = "normal" THEN "hpm" ELSE IF m = "fast" THEN "auto" ELSE "none"
           h == [reg EXCEPT !.top = a]
<1>1. a \in {"none", "hpm", "auto"}
  OBVIOUS
<1>2. spmi_regulator_common_set_mode(m) = h
  BY DEF spmi_regulator_common_set_mode
<1> HIDE DEF a
<1>3. /\ h \in RailRegs(S) /\ h.top = a /\ h.low = reg.low /\ h.bypass = reg.bypass
      /\ h.mode_pins = reg.mode_pins /\ h.limit = reg.limit
  BY <1>1 DEF RailRegs
<1> HIDE DEF h
<1> QED BY <1>2, <1>3 DEF a

LEMMA SetModeRail ==
  ASSUME RailInv, NEW m \in {"normal", "fast", "idle"}, SetMode(m)
  PROVE  RailInv'
<1>1. PICK S : reg \in RailRegs(S)
  BY DEF RailInv, RailShape
<1>2. phase = "up" /\ UNCHANGED <<phase, row>> /\ want' = [want EXCEPT !.mode = m]
  BY DEF SetMode
<1>3. want'.mode = m
  BY <1>2 DEF RailInv, RailShape
<1>4. CASE LowMode
  <2> DEFINE a == LowModeOf(m)
  <2>1. /\ a \in 0 .. 7 /\ (m = "normal" <=> a = 7) /\ (m = "fast" <=> a = 6)
    BY DEF LowModeOf
  <2>2. reg' = [reg EXCEPT !.low = a]
    BY <1>4 DEF SetMode
  <2>7. LowModeOf(want.mode)' = a
    BY <1>2, <1>3 DEF LowModeOf
  <2> HIDE DEF a
  <2>3. /\ reg' \in RailRegs(S) /\ reg'.low = a /\ reg'.top = reg.top
        /\ reg'.bypass = reg.bypass /\ reg'.mode_pins = reg.mode_pins
        /\ reg'.limit = reg.limit
    BY <1>1, <2>1, <2>2 DEF RailRegs
  <2>4. LowMode' /\ ~reg'.bypass
    BY <1>2, <1>4, <2>3 DEF LowMode, RailInv, Numbered
  <2>5. Numbered'
    BY <2>4 DEF Numbered
  <2>6. ModeHeld'
    BY <1>3, <2>1, <2>3, <2>4, <2>7 DEF ModeHeld, GetMode
  <2> QED BY <1>2, <2>3, <2>5, <2>6, ModeRail
<1>5. CASE ~LowMode
  <2>1. reg' = spmi_regulator_common_set_mode(m)
    BY <1>5 DEF SetMode
  <2>2. /\ reg' \in RailRegs(S)
        /\ reg'.top = (IF m = "normal" THEN "hpm" ELSE IF m = "fast" THEN "auto" ELSE "none")
        /\ reg'.mode_pins = reg.mode_pins /\ reg'.limit = reg.limit
    BY <1>1, <2>1, CommonMode
  <2>3. ~LowMode'
    BY <1>2, <1>5 DEF LowMode
  <2>4. Numbered'
    BY <2>3 DEF Numbered
  <2>5. ModeHeld'
    BY <1>3, <2>2, <2>3 DEF ModeHeld, GetMode
  <2> QED BY <1>2, <2>2, <2>4, <2>5, ModeRail
<1> QED BY <1>4, <1>5

LEMMA LoadRail ==
  ASSUME RailInv, NEW load, spmi_regulator_common_set_load(load)
  PROVE  RailInv'
<1> DEFINE m == IF load >= row.hpm THEN "normal" ELSE "idle"
           w == IF LowMode THEN want.mode ELSE m
<1>1. PICK S : reg \in RailRegs(S)
  BY DEF RailInv, RailShape
<1>2. PICK R : want \in [lo : R, hi : R, mode : {"any", "normal", "fast", "idle"}, dt : Configs]
  BY DEF RailInv, RailShape
<1>3. /\ phase = "up" /\ UNCHANGED <<phase, row>>
      /\ reg' = spmi_regulator_common_set_mode(m)
      /\ want' = IF LowMode THEN want ELSE [want EXCEPT !.mode = m]
  BY DEF spmi_regulator_common_set_load
<1>4. m \in {"normal", "idle"}
  OBVIOUS
<1> HIDE DEF m
<1>5. w \in {"any", "normal", "fast", "idle"} /\ want' = [want EXCEPT !.mode = w] /\ want'.mode = w
  BY <1>2, <1>3, <1>4
<1>6. /\ reg' \in RailRegs(S)
      /\ reg'.top = (IF m = "normal" THEN "hpm" ELSE IF m = "fast" THEN "auto" ELSE "none")
      /\ reg'.low = reg.low /\ reg'.bypass = reg.bypass
      /\ reg'.mode_pins = reg.mode_pins /\ reg'.limit = reg.limit
  BY <1>1, <1>3, <1>4, CommonMode
<1>7. LowMode' <=> LowMode
  BY <1>3 DEF LowMode
<1>8. Numbered'
  BY <1>6, <1>7 DEF RailInv, Numbered
<1>9. ModeHeld'
  <2>1. CASE LowMode /\ want.mode # "any"
    <3>1. reg'.low = LowModeOf(want.mode) /\ ~reg'.bypass /\ want'.mode = want.mode
      BY <1>3, <1>5, <1>6, <2>1 DEF RailInv, ModeHeld, Numbered
    <3>2. LowModeOf(want.mode)' = LowModeOf(want.mode)
      BY <1>3, <3>1 DEF LowModeOf
    <3>3. want.mode \in {"normal", "fast", "idle"}
      BY <1>2, <2>1
    <3> DEFINE a == LowModeOf(want.mode)
    <3>4. (want.mode = "normal" <=> a = 7) /\ (want.mode = "fast" <=> a = 6)
      BY <3>3 DEF LowModeOf
    <3> HIDE DEF a
    <3>5. reg'.low = a /\ LowModeOf(want.mode)' = a
      BY <3>1, <3>2 DEF a
    <3> QED BY <1>7, <2>1, <3>1, <3>3, <3>4, <3>5 DEF ModeHeld, GetMode
  <2>2. CASE LowMode /\ want.mode = "any"
    BY <1>5, <2>2 DEF ModeHeld
  <2>3. CASE ~LowMode
    BY <1>4, <1>5, <1>6, <1>7, <2>3 DEF ModeHeld, GetMode
  <2> QED BY <2>1, <2>2, <2>3
<1> HIDE DEF w
<1> QED BY <1>3, <1>5, <1>6, <1>8, <1>9, ModeRail

LEMMA BypassRail ==
  ASSUME RailInv, NEW b \in BOOLEAN, spmi_regulator_common_set_bypass(b)
  PROVE  RailInv'
<1>1. PICK S : reg \in RailRegs(S)
  BY DEF RailInv, RailShape
<1>2. /\ phase = "up" /\ HasBypass /\ reg' = [reg EXCEPT !.bypass = b]
      /\ UNCHANGED <<phase, row, want>>
  BY DEF spmi_regulator_common_set_bypass
<1>3. /\ reg' \in RailRegs(S) /\ reg'.top = reg.top /\ reg'.low = reg.low
      /\ reg'.mode_pins = reg.mode_pins /\ reg'.limit = reg.limit
  BY <1>1, <1>2 DEF RailRegs
<1>4. ~LowMode /\ ~LowMode'
  BY <1>2 DEF HasBypass, LowMode
<1>5. RailShape' /\ AsBooted' /\ Numbered'
  BY <1>2, <1>3, <1>4 DEF RailInv, RailShape, AsBooted, Numbered
<1>6. ModeHeld'
  BY <1>2, <1>3, <1>4 DEF RailInv, ModeHeld, GetMode
<1>7. LimitMet'
  BY <1>2, <1>3 DEF RailInv, LimitMet, Limits
<1>8. PinsKept'
  BY <1>2, <1>3 DEF RailInv, PinsKept, LowMode, BootPins
<1> QED BY <1>5, <1>6, <1>7, <1>8 DEF RailInv

(* What init_registers() writes of the pins that the mode follows.          *)
LEMMA RegistersPins ==
  ASSUME NEW S, reg \in RailRegs(S), reg.mode_pins = BootPins
  PROVE  \E M, E, F : spmi_regulator_init_registers =
                        [reg EXCEPT !.enable_pins = E, !.mode_pins = M, !.soft = F]
                      /\ \A pin \in 0 .. 4 :
                           pin \in M <=>
                             pin \in IF pin \in (IF HPM_HW_DEFAULT \in want.dt.hpm THEN {}
                                               ELSE IF row.logical \in {"SMPS", "LDO"} THEN 0 .. 4
                                               ELSE IF row.logical \in {"VS", "ULT_LO_SMPS", "ULT_HO_SMPS", "ULT_LDO"}
                                                    THEN {SLEEP_B} ELSE {})
                                    THEN want.dt.hpm ELSE BootPins
<1> DEFINE type == row.logical
           hpm == want.dt.hpm
           B == reg.mode_pins
           M == CASE HPM_HW_DEFAULT \in hpm -> B
                  [] HPM_HW_DEFAULT \notin hpm /\ type \in {"SMPS", "LDO"} -> hpm
                  [] HPM_HW_DEFAULT \notin hpm
                     /\ type \in {"VS", "ULT_LO_SMPS", "ULT_HO_SMPS", "ULT_LDO"} ->
                       (B \ {SLEEP_B}) \cup (hpm \cap {SLEEP_B})
                  [] OTHER -> B
           E == IF ENABLE_HW_DEFAULT \notin want.dt.enable /\ type \in {"SMPS", "LDO", "VS"}
                THEN want.dt.enable ELSE reg.enable_pins
           F == IF type = "VS" /\ want.dt.soft # 4 THEN want.dt.soft ELSE reg.soft
           named == IF HPM_HW_DEFAULT \in hpm THEN {}
                    ELSE IF type \in {"SMPS", "LDO"} THEN 0 .. 4
                    ELSE IF type \in {"VS", "ULT_LO_SMPS", "ULT_HO_SMPS", "ULT_LDO"}
                         THEN {SLEEP_B} ELSE {}
<1>1. spmi_regulator_init_registers = [reg EXCEPT !.enable_pins = E, !.mode_pins = M, !.soft = F]
  BY DEF spmi_regulator_init_registers, RailRegs
<1>2. \A pin \in 0 .. 4 : pin \in M <=> pin \in IF pin \in named THEN hpm ELSE B
  <2> HIDE DEF type, hpm, B
  <2>1. CASE HPM_HW_DEFAULT \in hpm
    BY <2>1
  <2>2. CASE HPM_HW_DEFAULT \notin hpm /\ type \in {"SMPS", "LDO"}
    BY <2>2
  <2>3. CASE HPM_HW_DEFAULT \notin hpm /\ type \in {"VS", "ULT_LO_SMPS", "ULT_HO_SMPS", "ULT_LDO"}
    BY <2>3
  <2>4. CASE HPM_HW_DEFAULT \notin hpm
             /\ type \notin {"SMPS", "LDO", "VS", "ULT_LO_SMPS", "ULT_HO_SMPS", "ULT_LDO"}
    BY <2>4
  <2> QED BY <2>1, <2>2, <2>3, <2>4
<1> QED BY <1>1, <1>2

LEMMA RegisterRail ==
  ASSUME RailInv, Register
  PROVE  RailInv'
<1>1. PICK S : reg \in RailRegs(S)
  BY DEF RailInv, RailShape
<1>2. phase = "off" /\ phase' \in {"failed", "up"} /\ UNCHANGED <<row, want>>
  BY DEF Register
<1>3. reg.mode_pins = BootPins /\ want.mode = "any"
  BY <1>2 DEF RailInv, AsBooted
<1>4. PICK M, E, F : /\ spmi_regulator_init_registers =
                          [reg EXCEPT !.enable_pins = E, !.mode_pins = M, !.soft = F]
                     /\ \A pin \in 0 .. 4 :
                           pin \in M <=>
                             pin \in IF pin \in (IF HPM_HW_DEFAULT \in want.dt.hpm THEN {}
                                               ELSE IF row.logical \in {"SMPS", "LDO"} THEN 0 .. 4
                                               ELSE IF row.logical \in {"VS", "ULT_LO_SMPS", "ULT_HO_SMPS", "ULT_LDO"}
                                                    THEN {SLEEP_B} ELSE {})
                                    THEN want.dt.hpm ELSE BootPins
  BY <1>1, <1>3, RegistersPins
<1> DEFINE g == [reg EXCEPT !.enable_pins = E, !.mode_pins = M, !.soft = F]
           l == IF phase' = "up" /\ Limits THEN spmi_regulator_set_ilim ELSE reg.limit
           T == S \cup {E, M, F, l}
<1>5. /\ g \in RailRegs(T) /\ g.top = reg.top /\ g.low = reg.low /\ g.bypass = reg.bypass
      /\ g.mode_pins = M /\ g.limit = reg.limit
  BY <1>1 DEF RailRegs
<1>6. reg' = [g EXCEPT !.limit = l]
  BY <1>4, <1>5 DEF Register
<1>7. l \in T
  OBVIOUS
<1> HIDE DEF g, T
<1>8. /\ reg' \in RailRegs(T) /\ reg'.bypass = reg.bypass /\ reg'.mode_pins = M
      /\ reg'.limit = l
  <2> HIDE DEF l
  <2> QED BY <1>5, <1>6, <1>7 DEF RailRegs
<1>9. RailShape' /\ AsBooted' /\ Numbered'
  BY <1>2, <1>8 DEF RailInv, RailShape, AsBooted, Numbered, LowMode
<1>10. ModeHeld'
  BY <1>2, <1>3 DEF ModeHeld
<1>11. PinsKept'
  BY <1>2, <1>4, <1>8 DEF PinsKept, BootPins, LowMode
<1>12. LimitMet'
  <2> SUFFICES ASSUME phase' = "up", Limits
               PROVE  reg'.limit # NoLimit /\ want.dt.ilim \in reg'.limit * 500 + 1 .. (reg'.limit + 1) * 500
    BY <1>2 DEF LimitMet, Limits
  <2>1. reg'.limit = (want.dt.ilim - 1) \div 500
    BY <1>8 DEF spmi_regulator_set_ilim
  <2>2. want.dt.ilim \in Nat /\ want.dt.ilim # 0
    BY SpmiAssumption DEF RailInv, RailShape, Limits
  <2> DEFINE n == want.dt.ilim
  <2> HIDE DEF n
  <2>3. /\ (n - 1) \div 500 \in Nat
        /\ n \in ((n - 1) \div 500) * 500 + 1 .. ((n - 1) \div 500 + 1) * 500
    BY <2>2 DEF n
  <2> QED BY <2>1, <2>3 DEF n, NoLimit
<1> QED BY <1>9, <1>10, <1>11, <1>12 DEF RailInv

LEMMA LeaveRail ==
  ASSUME RailInv, LeaveSlave
  PROVE  RailInv'
<1>1. phase' = "left" /\ UNCHANGED <<row, reg, want>>
  BY DEF LeaveSlave
<1>2. RailShape' /\ AsBooted' /\ Numbered'
  BY <1>1 DEF RailInv, RailShape, AsBooted, Numbered, LowMode
<1>3. ModeHeld' /\ PinsKept' /\ LimitMet'
  BY <1>1 DEF ModeHeld, PinsKept, LimitMet
<1> QED BY <1>2, <1>3 DEF RailInv

LEMMA NextRail == RailInv /\ [RegulatorNext]_regulatorVars => RailInv'
<1> SUFFICES ASSUME RailInv, [RegulatorNext]_regulatorVars PROVE RailInv'
  OBVIOUS
<1>1. CASE Register \/ LeaveSlave
  BY <1>1, RegisterRail, LeaveRail
<1>2. CASE \E lo, hi \in Marks : lo <= hi /\ SetVoltage(lo, hi)
  BY <1>2, SetVoltageRail
<1>3. CASE \E m \in {"normal", "fast", "idle"} : SetMode(m)
  BY <1>3, SetModeRail
<1>4. CASE \E load \in {row.hpm - 1, row.hpm} : spmi_regulator_common_set_load(load)
  BY <1>4, LoadRail
<1>5. CASE \E b \in BOOLEAN : spmi_regulator_common_set_bypass(b)
  BY <1>5, BypassRail
<1>6. CASE VsReset \/ VsEnable \/ VsDisable \/ Short \/ Late
  BY <1>6, RailStill DEF VsReset, VsEnable, VsDisable, Short, Late
<1>7. CASE IsrStart \/ IsrRead \/ IsrCount \/ IsrClear \/ WorkStart \/ WorkClear
  BY <1>7, RailStill DEF IsrStart, IsrRead, IsrCount, IsrClear, WorkStart, WorkClear
<1>8. CASE UNCHANGED regulatorVars
  BY <1>8, RailStill DEF regulatorVars
<1> QED BY <1>1, <1>2, <1>3, <1>4, <1>5, <1>6, <1>7, <1>8 DEF RegulatorNext

(* Every rail, whatever was asked of it and in which order: its registers   *)
(* hold and report the mode asked for last, on the newer layouts the one    *)
(* asked for by name, which a load leaves in place and may hide; the pins   *)
(* that the device tree named and no others changed, and a boost has the    *)
(* input limit it was given.                                                *)
THEOREM RailSettingsKept == RegulatorSpec => []SettingsHeld
<1>1. RailInv => SettingsHeld
  BY DEF RailInv, SettingsHeld
<1> QED BY <1>1, InitRail, NextRail, PTL DEF RegulatorSpec

(***************************************************************************)
(* The selectors of SpmiVoltages: through the ranges of a table, the set   *)
(* points are counted, listed, found and put into registers.               *)
(***************************************************************************)
(* The fold over the ranges of a table, for the one, two or three a table    *)
(* has: the sum that a set of their places stands for.                       *)
LEMMA FoldsToSum ==
  ASSUME NEW q, NEW m \in 0..3, DOMAIN q = 1..m, \A i \in 1..m : q[i].n \in Int
  PROVE  FoldLeft(LAMBDA sum, r : sum + r.n, 0, q)
           = (IF m >= 1 THEN q[1].n ELSE 0) + (IF m >= 2 THEN q[2].n ELSE 0)
               + (IF m >= 3 THEN q[3].n ELSE 0)
<1> DEFINE P == SUBSET (1..m)
           step(it, s) == IF s = {} THEN 0
                          ELSE LET x == Max(s) IN it[s \ {x}] + q[x].n
           at(k, s) == IF k \in s THEN q[k].n ELSE 0
           w == [s \in P |-> at(1, s) + at(2, s) + at(3, s)]
           iter == CHOOSE it : it = [s \in P |-> step(it, s)]
<1>1. \A s \in P : s # {} => /\ Max(s) \in s /\ \A y \in s : Max(s) >= y
  <2> TAKE s \in P
  <2> HAVE s # {}
  <2>1. \E x \in s : \A y \in s : x >= y
    <3>1. s \subseteq {1, 2, 3}
      OBVIOUS
    <3>2. CASE 3 \in s
      BY <3>1, <3>2
    <3>3. CASE 3 \notin s /\ 2 \in s
      BY <3>1, <3>3
    <3>4. CASE 3 \notin s /\ 2 \notin s
      <4>1. \A y \in s : y = 1
        BY <3>1, <3>4
      <4>2. PICK y \in s : TRUE
        OBVIOUS
      <4>3. 1 \in s /\ \A z \in s : 1 >= z
        BY <4>1, <4>2
      <4> QED BY <4>3
    <3> QED BY <3>2, <3>3, <3>4
  <2> QED BY <2>1 DEF Max
<1>2. w = [s \in P |-> step(w, s)]
  <2> SUFFICES ASSUME NEW s \in P PROVE w[s] = step(w, s)
    BY Zenon
  <2>1. CASE s = {}
    BY <2>1
  <2>2. CASE s # {}
    <3> DEFINE x == Max(s)
    <3>1. x \in s /\ x \in {1, 2, 3} /\ x \in 1..m
      <4>1. x \in s
        BY <1>1, <2>2
      <4>2. s \subseteq 1..m /\ 1..m \subseteq {1, 2, 3}
        OBVIOUS
      <4> HIDE DEF x, P
      <4> QED BY <4>1, <4>2
    <3> HIDE DEF x
    <3> DEFINE r == s \ {x}
    <3>2. r \in P
      OBVIOUS
    <3>3. w[s] = at(1, s) + at(2, s) + at(3, s) /\ w[r] = at(1, r) + at(2, r) + at(3, r)
      BY <3>2
    <3>4. \A k \in {1, 2, 3} : at(k, s) \in Int
      OBVIOUS
    <3>5. \A k \in {1, 2, 3} : k # x => at(k, r) = at(k, s)
      OBVIOUS
    <3>6. at(x, r) = 0 /\ at(x, s) = q[x].n
      BY <3>1
    <3> HIDE DEF at, w, r
    <3>7. w[s] = w[r] + q[x].n
      BY <3>1, <3>3, <3>4, <3>5, <3>6
    <3> QED BY <2>2, <3>7 DEF x, r
  <2> QED BY <2>1, <2>2
<1>3. iter = [s \in P |-> step(iter, s)]
  <2> HIDE DEF w, step, P
  <2> QED BY <1>2
<1>4. FoldLeft(LAMBDA sum, r : sum + r.n, 0, q) = iter[1..m]
  BY DEF FoldLeft, MapThenFoldSet
<1> DEFINE total == FoldLeft(LAMBDA sum, r : sum + r.n, 0, q)
<1>12. total = iter[1..m]
  BY <1>4, Zenon
<1> HIDE DEF iter, total
<1>5. iter[{}] = 0
  BY <1>3
<1>6. ASSUME NEW k \in 1..m PROVE iter[1..k] = iter[1..(k - 1)] + q[k].n
  <2>1. 1..k \in P /\ 1..k # {}
    OBVIOUS
  <2>2. Max(1..k) = k
    BY <1>1, <2>1, SMTT(30)
  <2>3. (1..k) \ {k} = 1..(k - 1)
    OBVIOUS
  <2> QED BY <1>3, <2>1, <2>2, <2>3
<1>7. 1..0 = {} /\ iter[1..0] = 0
  BY <1>5
<1> DEFINE goal == (IF m >= 1 THEN q[1].n ELSE 0) + (IF m >= 2 THEN q[2].n ELSE 0)
                     + (IF m >= 3 THEN q[3].n ELSE 0)
<1>8. ASSUME m = 0 PROVE total = goal
  BY <1>7, <1>8, <1>12
<1>9. ASSUME m = 1 PROVE total = goal
  <2>1. iter[1..1] = iter[1..0] + q[1].n
    BY <1>6, <1>9
  <2> QED BY <1>7, <1>9, <1>12, <2>1
<1>10. ASSUME m = 2 PROVE total = goal
  <2>1. iter[1..1] = iter[1..0] + q[1].n /\ iter[1..2] = iter[1..1] + q[2].n
    BY <1>6, <1>10
  <2> QED BY <1>7, <1>10, <1>12, <2>1
<1>11. ASSUME m = 3 PROVE total = goal
  <2>1. /\ iter[1..1] = iter[1..0] + q[1].n /\ iter[1..2] = iter[1..1] + q[2].n
        /\ iter[1..3] = iter[1..2] + q[3].n
    BY <1>6, <1>11
  <2> QED BY <1>7, <1>11, <1>12, <2>1
<1>13. total = goal
  BY <1>8, <1>9, <1>10, <1>11
<1> QED BY <1>13, Zenon DEF total

(* The ranges of a table, as many as a table has and each with its number of *)
(* set points.                                                               *)
Counted(q) ==
  /\ q \in Seq(Range(q)) /\ Len(q) \in 1..3
  /\ \A i \in 1..Len(q) : q[i].n \in Nat

(* The set points before a range.                                            *)
LEMMA BeforeSums ==
  ASSUME NEW q, Counted(q)
  PROVE  /\ Before(q, 1) = 0
         /\ \A i \in 1..Len(q) : Before(q, i + 1) = Before(q, i) + q[i].n
         /\ \A i \in 1..(Len(q) + 1) : Before(q, i) \in Nat
<1> DEFINE n == Len(q)
<1>1. n \in 1..3 /\ \A i \in 1..n : q[i].n \in Nat
  BY DEF Counted
<1> DEFINE at(k) == IF k <= n THEN q[k].n ELSE 0
<1>2. ASSUME NEW k \in 0..n
      PROVE  Before(q, k + 1) = (IF k >= 1 THEN at(1) ELSE 0) + (IF k >= 2 THEN at(2) ELSE 0)
                                  + (IF k >= 3 THEN at(3) ELSE 0)
  <2> DEFINE s == SubSeq(q, 1, k)
             total == FoldLeft(LAMBDA sum, r : sum + r.n, 0, s)
  <2>1. DOMAIN s = 1..k /\ \A i \in 1..k : s[i] = q[i]
    BY <1>1 DEF Counted
  <2> HIDE DEF s
  <2>2. k \in 0..3 /\ \A i \in 1..k : s[i].n \in Int
    BY <1>1, <2>1
  <2>3. total = (IF k >= 1 THEN s[1].n ELSE 0) + (IF k >= 2 THEN s[2].n ELSE 0)
                  + (IF k >= 3 THEN s[3].n ELSE 0)
    <3> HIDE DEF total
    <3> QED BY <2>1, <2>2, FoldsToSum DEF total
  <2>4. Before(q, k + 1) = total
    <3>1. (k + 1) - 1 = k
      BY <2>2
    <3> QED BY <3>1, Zenon DEF Before, s
  <2> HIDE DEF total
  <2> QED BY <1>1, <2>1, <2>2, <2>3, <2>4
<1> DEFINE B(k) == Before(q, k)
<1>3. B(1) = 0
  BY <1>1, <1>2
<1>4. \A k \in 0..n : B(k + 1) = (IF k >= 1 THEN at(1) ELSE 0) + (IF k >= 2 THEN at(2) ELSE 0)
                                  + (IF k >= 3 THEN at(3) ELSE 0)
  BY <1>2
<1>5. \A k \in 1..3 : at(k) \in Nat
  BY <1>1
<1>6. \A k \in 1..n : at(k) = q[k].n
  BY <1>1
<1> HIDE DEF at, n, B
<1>7. \A k \in 1..(n + 1) : B(k) \in Nat
  <2> TAKE k \in 1..(n + 1)
  <2>1. k - 1 \in 0..n /\ (k - 1) + 1 = k
    BY <1>1
  <2> QED BY <1>1, <1>4, <1>5, <2>1
<1>8. ASSUME NEW k \in 1..n PROVE B(k + 1) = B(k) + q[k].n
  <2>1. k \in {1, 2, 3} /\ k - 1 \in 0..n /\ k \in 0..n
    BY <1>1
  <2>2. B((k - 1) + 1) = (IF k - 1 >= 1 THEN at(1) ELSE 0) + (IF k - 1 >= 2 THEN at(2) ELSE 0)
                            + (IF k - 1 >= 3 THEN at(3) ELSE 0)
    BY <1>4, <2>1
  <2>3. (k - 1) + 1 = k
    BY <2>1
  <2> QED BY <1>1, <1>4, <1>5, <1>6, <2>1, <2>2, <2>3
<1> QED BY <1>3, <1>7, <1>8 DEF n, B

(* A range whose set points lie on its grid, from its first code that is one. *)
Offset(r) == (r.spMin - r.min) \div r.step

Even(r) ==
  /\ r.step \in Nat \ {0} /\ r.min \in Nat /\ r.spMin \in Nat \ {0} /\ r.n \in Nat \ {0}
  /\ r.spMax = r.spMin + (r.n - 1) * r.step
  /\ Offset(r) \in Nat /\ r.spMin = r.min + Offset(r) * r.step

(* The points of the grid of b are on the grid of a.                         *)
Nested(a, b) ==
  /\ b.step = (b.step \div a.step) * a.step /\ b.step \div a.step \in Int
  /\ b.min = a.spMin + ((b.min - a.spMin) \div a.step) * a.step
  /\ (b.min - a.spMin) \div a.step \in Int

(* A table whose ranges follow each other in ever coarser steps, without a   *)
(* gap of more than a step.                                                  *)
Gapless(q) ==
  /\ Counted(q)
  /\ \A i \in 1..Len(q) : Even(q[i])
  /\ \A i, j \in 1..Len(q) : i < j => q[i].spMax < q[j].spMin /\ Nested(q[i], q[j])
  /\ \A i \in 2..Len(q) : q[i].spMin - q[i - 1].spMax <= q[i].step

(* sel is the k-th set point of the i-th range.                              *)
Names(q, sel, i, k) ==
  i \in 1..Len(q) /\ k \in 0..(q[i].n - 1) /\ sel = Before(q, i) + k

PointUV(q, i, k) == q[i].spMin + k * q[i].step

(* Selectors count the set points through the ranges.                        *)
LEMMA BeforeRises ==
  ASSUME NEW q, Counted(q), NEW i \in 1..Len(q), NEW j \in 1..Len(q), i < j
  PROVE  Before(q, i) + q[i].n <= Before(q, j)
<1> DEFINE B(k) == Before(q, k)
           n == Len(q)
<1>1. /\ \A k \in 1..n : B(k + 1) = B(k) + q[k].n
      /\ \A k \in 1..(n + 1) : B(k) \in Nat
  BY BeforeSums
<1>2. n \in 1..3 /\ \A k \in 1..n : q[k].n \in Nat
  BY DEF Counted
<1> HIDE DEF B, n
<1>3. i \in 1..n /\ j \in 1..n
  BY DEF n
<1>4. B(i) + q[i].n <= B(j)
  <2>1. CASE j = i + 1
    BY <1>1, <1>2, <1>3, <2>1
  <2>2. CASE j = i + 2
    <3>1. B(i + 1) = B(i) + q[i].n /\ B(i + 2) = B(i + 1) + q[i + 1].n
      <4>1. i + 1 \in 1..n /\ (i + 1) + 1 = i + 2
        BY <1>2, <1>3, <2>2
      <4> QED BY <1>1, <1>3, <4>1
    <3>2. q[i + 1].n \in Nat /\ q[i].n \in Nat /\ B(i) \in Nat /\ B(i + 1) \in Nat
      BY <1>1, <1>2, <1>3, <2>2
    <3> QED BY <2>2, <3>1, <3>2
  <2> QED BY <1>2, <1>3, <2>1, <2>2
<1> QED BY <1>4 DEF B

(* The range of a selector is the only one that holds it.                    *)
LEMMA OneRange ==
  ASSUME NEW q, Counted(q), NEW sel, NEW i, NEW k, Names(q, sel, i, k)
  PROVE  /\ sel \in Nat
         /\ \A j \in 1..Len(q) : sel >= Before(q, j) /\ sel - Before(q, j) < q[j].n <=> j = i
         /\ \A j \in 1..Len(q) : sel < Before(q, j + 1) <=> i <= j
<1> DEFINE B(m) == Before(q, m)
           n == Len(q)
<1>1. /\ \A m \in 1..n : B(m + 1) = B(m) + q[m].n
      /\ \A m \in 1..(n + 1) : B(m) \in Nat
  BY BeforeSums
<1>2. n \in 1..3 /\ \A m \in 1..n : q[m].n \in Nat
  BY DEF Counted
<1>3. i \in 1..n /\ k \in 0..(q[i].n - 1) /\ sel = B(i) + k
  BY DEF Names
<1>4. \A a, b \in 1..n : a < b => B(a) + q[a].n <= B(b)
  BY BeforeRises
<1> HIDE DEF B, n
<1>5. sel \in Nat
  BY <1>1, <1>2, <1>3
<1>6. ASSUME NEW j \in 1..n
      PROVE  /\ sel >= B(j) /\ sel - B(j) < q[j].n <=> j = i
             /\ sel < B(j + 1) <=> i <= j
  <2>1. B(j + 1) = B(j) + q[j].n /\ B(j) \in Nat /\ q[j].n \in Nat /\ B(i) \in Nat /\ q[i].n \in Nat
    BY <1>1, <1>2, <1>3
  <2>2. CASE j = i
    BY <1>3, <2>1, <2>2
  <2>3. CASE j < i
    <3>1. B(j) + q[j].n <= B(i)
      BY <1>3, <1>4, <2>3
    <3> QED BY <1>3, <2>1, <2>3, <3>1
  <2>4. CASE i < j
    <3>1. B(i) + q[i].n <= B(j)
      BY <1>3, <1>4, <2>4
    <3> QED BY <1>3, <2>1, <2>4, <3>1
  <2> QED BY <1>2, <1>3, <2>2, <2>3, <2>4
<1> QED BY <1>5, <1>6 DEF B, n

(* What a selector lists, and the registers it stands for.                   *)
LEMMA ListAt ==
  ASSUME NEW q, Counted(q), NEW sel, NEW i, NEW k, Names(q, sel, i, k)
  PROVE  spmi_regulator_common_list_voltage(q, sel) = k * q[i].step + q[i].spMin
<1> DEFINE in == {j \in DOMAIN q : sel >= Before(q, j) /\ sel - Before(q, j) < q[j].n}
<1>1. DOMAIN q = 1..Len(q) /\ i \in 1..Len(q)
  BY DEF Counted, Names
<1>2. in = {i} /\ sel \in Nat
  BY <1>1, OneRange
<1>3. Min({i}) = i
  BY <1>1 DEF Min
<1>4. sel - Before(q, i) = k
  <2>1. i \in 1..(Len(q) + 1) /\ q[i].n \in Nat
    BY <1>1 DEF Counted
  <2>2. Before(q, i) \in Nat
    BY <2>1, BeforeSums
  <2> QED BY <2>1, <2>2 DEF Names
<1> HIDE DEF in
<1>5. in # {} /\ Min(in) = i /\ ~(sel < 0)
  BY <1>2, <1>3
<1> QED BY <1>4, <1>5 DEF spmi_regulator_common_list_voltage, in

LEMMA HardwareAt ==
  ASSUME NEW q, Counted(q), NEW sel, NEW i, NEW k, Names(q, sel, i, k)
  PROVE  spmi_sw_selector_to_hw(q, sel)
           = [range |-> q[i].range_sel, vset |-> (k + Offset(q[i])) % 256]
<1> DEFINE beyond == {j \in DOMAIN q : sel < Before(q, j + 1)}
<1>1. DOMAIN q = 1..Len(q) /\ i \in 1..Len(q)
  BY DEF Counted, Names
<1>2. beyond = {j \in 1..Len(q) : i <= j}
  BY <1>1, OneRange
<1>3. Min(beyond) = i
  <2>1. i \in beyond /\ \A j \in beyond : i <= j
    BY <1>1, <1>2
  <2>2. \A m \in beyond : (\A j \in beyond : m <= j) => m = i
    BY <1>1, <1>2
  <2> HIDE DEF beyond
  <2> QED BY <2>1, <2>2 DEF Min
<1>4. sel - Before(q, i) = k
  <2>1. i \in 1..(Len(q) + 1) /\ q[i].n \in Nat
    BY <1>1 DEF Counted
  <2>2. Before(q, i) \in Nat
    BY <2>1, BeforeSums
  <2> QED BY <2>1, <2>2 DEF Names
<1> HIDE DEF beyond
<1> QED BY <1>3, <1>4 DEF spmi_sw_selector_to_hw, beyond, Offset

LEMMA Quotient ==
  ASSUME NEW a \in Int, NEW d \in Nat \ {0}
  PROVE  a \div d \in Int /\ (a \div d) * d <= a /\ a < (a \div d) * d + d
  OBVIOUS

LEMMA Multiple ==
  ASSUME NEW k \in Int, NEW d \in Nat \ {0}
  PROVE  (k * d) \div d = k
<1> DEFINE m == (k * d) \div d
<1>1. k * d \in Int
  OBVIOUS
<1>2. m \in Int /\ m * d <= k * d /\ k * d < m * d + d
  BY <1>1, Quotient
<1> HIDE DEF m
<1>3. (m + 1) * d = m * d + d
  BY <1>2
<1>4. k < m + 1
  <2> SUFFICES ASSUME m + 1 <= k PROVE FALSE
    BY <1>2
  <2>1. (m + 1) * d <= k * d
    BY <1>2
  <2> QED BY <1>1, <1>2, <1>3, <2>1
<1>5. m <= k
  <2> SUFFICES ASSUME k + 1 <= m PROVE FALSE
    BY <1>2
  <2>1. (k + 1) * d <= m * d
    BY <1>2
  <2>2. (k + 1) * d = k * d + d
    OBVIOUS
  <2> QED BY <1>1, <1>2, <2>1, <2>2
<1>6. m = k
  BY <1>2, <1>4, <1>5
<1> QED BY <1>6 DEF m

(* Rounding up to the grid is to the next point of it.                       *)
LEMMA RoundsUp ==
  ASSUME NEW x \in Int, NEW d \in Nat \ {0}, x + d > 0
  PROVE  LET c == DIV_ROUND_UP(x, d)
         IN c \in Nat /\ x <= c * d /\ c * d < x + d
<1> DEFINE c == (x + d - 1) \div d
<1>1. x + d - 1 \in Int /\ x + d - 1 >= 0
  OBVIOUS
<1>2. DIV_ROUND_UP(x, d) = c
  BY <1>1 DEF DIV_ROUND_UP, CQuot
<1>3. c \in Int /\ c * d <= x + d - 1 /\ x + d - 1 < c * d + d
  BY <1>1, Quotient
<1> HIDE DEF c
<1>4. c * d \in Int
  BY <1>3
<1>5. c >= 0
  <2> SUFFICES ASSUME c <= -1 PROVE FALSE
    BY <1>3
  <2>1. c * d <= (-1) * d
    BY <1>3
  <2> QED BY <1>1, <1>3, <1>4, <2>1
<1> QED BY <1>2, <1>3, <1>4, <1>5

(* Points of one grid are ordered as their numbers are.                      *)
LEMMA OnGrid ==
  ASSUME NEW d \in Nat \ {0}, NEW a \in Int, NEW b \in Int
  PROVE  /\ a * d \in Int /\ b * d \in Int
         /\ a <= b <=> a * d <= b * d
         /\ a * d < b * d + d <=> a <= b
<1>1. a * d \in Int /\ b * d \in Int
  OBVIOUS
<1>2. a <= b => a * d <= b * d
  OBVIOUS
<1>3. b + 1 <= a => (b + 1) * d <= a * d
  OBVIOUS
<1>4. (b + 1) * d = b * d + d
  OBVIOUS
<1> QED BY <1>1, <1>2, <1>3, <1>4

(* The ranges of a gapless table, in order.                                  *)
LEMMA RangesRise ==
  ASSUME NEW q, Gapless(q), NEW i \in 1..Len(q), NEW j \in 1..Len(q), i <= j
  PROVE  q[i].spMin <= q[j].spMin /\ q[i].spMax <= q[j].spMax
<1>1. \A m \in 1..Len(q) : q[m].spMin \in Nat /\ q[m].spMax \in Int /\ q[m].spMin <= q[m].spMax
  <2> TAKE m \in 1..Len(q)
  <2>1. Even(q[m])
    BY DEF Gapless
  <2> DEFINE r == q[m]
  <2>2. (r.n - 1) * r.step \in Nat
    <3> DEFINE k == r.n - 1  d == r.step
    <3>1. k \in Nat /\ d \in Nat
      BY <2>1, SMTT(30) DEF Even
    <3> HIDE DEF k, d
    <3>2. k * d \in Nat
      BY <3>1
    <3> QED BY <3>2 DEF k, d
  <2> QED BY <2>1, <2>2 DEF Even
<1>2. CASE i = j
  BY <1>1, <1>2
<1>3. CASE i < j
  <2>1. q[i].spMax < q[j].spMin
    BY <1>3 DEF Gapless
  <2> QED BY <1>1, <2>1
<1>4. Len(q) \in Nat
  BY DEF Gapless, Counted
<1> QED BY <1>2, <1>3, <1>4

LEMMA TopOf ==
  ASSUME NEW S, S \subseteq {1, 2, 3}, S # {}
  PROVE  Max(S) \in S /\ \A y \in S : Max(S) >= y
<1>1. \E x \in S : \A y \in S : x >= y
  <2>1. CASE 3 \in S
    BY <2>1
  <2>2. CASE 3 \notin S /\ 2 \in S
    BY <2>2
  <2>3. CASE 3 \notin S /\ 2 \notin S
    <3>1. \A y \in S : y = 1
      BY <2>3
    <3>2. PICK y \in S : TRUE
      OBVIOUS
    <3>3. 1 \in S /\ \A z \in S : 1 >= z
      BY <3>1, <3>2
    <3> QED BY <3>3
  <2> QED BY <2>1, <2>2, <2>3
<1> QED BY <1>1 DEF Max

(* select_voltage() finds the range of a voltage and rounds up in it.        *)
LEMMA RangeOf ==
  ASSUME NEW q, Gapless(q), NEW uV \in Int, q[1].spMin <= uV, uV <= q[Len(q)].spMax
  PROVE  LET above == {i \in 2 .. Len(q) : uV > q[i - 1].spMax /\ q[i - 1].spMax > 0}
             id == Max({1} \cup above)
             r == q[id]
             ceil == DIV_ROUND_UP(uV - r.min, r.step) * r.step + r.min
         IN /\ id \in 1..Len(q) /\ (id # 1 => q[id - 1].spMax < uV)
            /\ uV <= ceil /\ ceil < uV + r.step
            /\ \E k \in 0..(r.n - 1) : /\ ceil = k * r.step + r.spMin
                                       /\ CQuot(ceil - r.spMin, r.step) = k
<1> DEFINE n == Len(q)
           above == {i \in 2 .. n : uV > q[i - 1].spMax /\ q[i - 1].spMax > 0}
           id == Max({1} \cup above)
           r == q[id]
           d == r.step
           c == DIV_ROUND_UP(uV - r.min, d)
           ceil == c * d + r.min
           o == Offset(r)
<1>1. n \in 1..3
  BY DEF Gapless, Counted
<1>2. \A m \in 1..n : q[m].spMin \in Nat \ {0} /\ q[m].spMax \in Nat \ {0}
  <2> TAKE m \in 1..n
  <2>1. Even(q[m])
    BY DEF Gapless
  <2>2. q[m].spMin \in Nat \ {0} /\ q[m].n - 1 \in Nat /\ q[m].step \in Nat
        /\ q[m].spMax = q[m].spMin + (q[m].n - 1) * q[m].step
    BY <2>1, SMTT(30) DEF Even
  <2> DEFINE k == q[m].n - 1  e == q[m].step
  <2>3. k * e \in Nat
    <3>1. k \in Nat /\ e \in Nat
      BY <2>2
    <3> HIDE DEF k, e
    <3> QED BY <3>1
  <2> HIDE DEF n
  <2> QED BY <2>2, <2>3, SMTT(30)
<1>3. id \in {1} \cup above /\ \A m \in {1} \cup above : id >= m
  <2>1. {1} \cup above \subseteq {1, 2, 3} /\ {1} \cup above # {}
    BY <1>1
  <2> HIDE DEF above
  <2> QED BY <2>1, TopOf
<1> HIDE DEF id
<1>4. id \in 1..n /\ (id # 1 => q[id - 1].spMax < uV)
  BY <1>1, <1>2, <1>3
<1>5. uV <= r.spMax
  <2>1. CASE id = n
    BY <2>1
  <2>2. CASE id # n
    <3>1. id + 1 \in 2..n /\ id + 1 \notin above /\ (id + 1) - 1 = id
      BY <1>1, <1>3, <1>4, <2>2
    <3> QED BY <1>2, <1>4, <3>1
  <2> QED BY <2>1, <2>2
<1>6. Even(r)
  BY <1>4 DEF Gapless
<1>7. /\ d \in Nat \ {0} /\ r.min \in Nat /\ r.spMin \in Nat /\ r.n \in Nat \ {0} /\ o \in Nat
      /\ r.spMax = r.spMin + (r.n - 1) * d /\ r.spMin = r.min + o * d
  BY <1>6 DEF Even
<1>16. /\ d \in Nat \ {0} /\ r.min \in Nat /\ r.spMin \in Nat /\ r.n - 1 \in Nat /\ o \in Nat
       /\ o * d \in Nat /\ (r.n - 1) * d \in Nat
  <2> DEFINE e == r.n - 1
  <2>1. /\ d \in Nat \ {0} /\ r.min \in Nat /\ r.spMin \in Nat /\ e \in Nat /\ o \in Nat
    <3>1. r.n \in Nat \ {0} => r.n - 1 \in Nat
      OBVIOUS
    <3> HIDE DEF d, o, r
    <3> QED BY <1>7, <3>1
  <2> HIDE DEF d, e, o
  <2>2. o * d \in Nat /\ e * d \in Nat
    BY <2>1
  <2> QED BY <2>1, <2>2 DEF e
<1>8. r.spMin < uV + d
  <2>1. CASE id = 1
    BY <1>16, <2>1, SMTT(30)
  <2>2. CASE id # 1
    <3>1. id \in 2..n /\ id - 1 \in 1..n
      BY <1>1, <1>4, <2>2
    <3>2. r.spMin - q[id - 1].spMax <= d
      BY <3>1 DEF Gapless
    <3>3. q[id - 1].spMax \in Nat /\ q[id - 1].spMax < uV
      BY <1>2, <1>4, <2>2, <3>1
    <3> HIDE DEF r, d, n
    <3> QED BY <1>16, <3>2, <3>3
  <2> QED BY <2>1, <2>2
<1> HIDE DEF r, d, o
<1>9. c \in Nat /\ c * d \in Nat /\ uV <= ceil /\ ceil < uV + d
  <2>1. r.spMin = r.min + o * d
    BY <1>7
  <2>2. uV - r.min \in Int /\ (uV - r.min) + d > 0
    BY <1>8, <1>16, <2>1, SMTT(30)
  <2>3. c \in Nat /\ uV - r.min <= c * d /\ c * d < (uV - r.min) + d
    BY <1>16, <2>2, RoundsUp
  <2> HIDE DEF c
  <2>4. c * d \in Nat
    BY <1>16, <2>3
  <2> QED BY <1>16, <2>3, <2>4
<1> HIDE DEF c
<1> DEFINE k == c - o
<1>10. /\ k \in Int /\ k * d \in Int /\ ceil = k * d + r.spMin
  <2>1. k * d = c * d - o * d
    BY <1>9, <1>16
  <2> QED BY <1>7, <1>9, <1>16, <2>1, SMTT(30)
<1>11. k >= 0
  <2> HIDE DEF k, ceil
  <2>1. 0 * d < k * d + d
    <3>1. ceil \in Int
      BY <1>10, <1>16
    <3> QED BY <1>8, <1>9, <1>10, <1>16, <3>1, SMTT(30)
  <2> QED BY <1>7, <1>10, <2>1, OnGrid
<1>12. k <= r.n - 1
  <2>1. r.n - 1 \in Int /\ (r.n - 1) * d \in Int
    BY <1>16
  <2>2. k * d < (r.n - 1) * d + d
    <3> HIDE DEF k, ceil
    <3>1. ceil \in Int
      BY <1>10, <1>16
    <3>2. r.spMax = r.spMin + (r.n - 1) * d
      BY <1>7
    <3> DEFINE x == k * d  y == (r.n - 1) * d
    <3>3. x \in Int /\ y \in Nat /\ ceil = x + r.spMin /\ r.spMax = r.spMin + y
      BY <1>10, <1>16, <3>2
    <3> HIDE DEF x, y
    <3>4. x < y + d
      BY <1>5, <1>9, <1>16, <3>1, <3>3, SMTT(30)
    <3> QED BY <3>4 DEF x, y
  <2> HIDE DEF k, ceil
  <2> QED BY <1>7, <1>10, <2>1, <2>2, OnGrid
<1>13. CQuot(ceil - r.spMin, d) = k
  <2> HIDE DEF k, ceil
  <2>1. ceil - r.spMin = k * d
    BY <1>7, <1>10
  <2>2. k * d >= 0
    BY <1>7, <1>10, <1>11
  <2>3. (k * d) \div d = k
    BY <1>7, <1>10, Multiple
  <2> QED BY <2>1, <2>2, <2>3 DEF CQuot
<1>14. k \in 0..(r.n - 1)
  <2> HIDE DEF k
  <2> QED BY <1>7, <1>10, <1>11, <1>12
<1> HIDE DEF k, ceil
<1>15. \E k_1 \in 0..(r.n - 1) : ceil = k_1 * d + r.spMin /\ CQuot(ceil - r.spMin, d) = k_1
  BY <1>10, <1>13, <1>14
<1> HIDE DEF above
<1> QED BY <1>4, <1>9, <1>15, Zenon DEF n, above, id, r, d, c, ceil

(* A selector names a set point of the request, in one of the first ranges.  *)
Meets(q, sel, lo, hi, last) ==
  \E i \in 1..last : \E k : Names(q, sel, i, k) /\ PointUV(q, i, k) \in lo..hi

(* A set point lies in the request.                                          *)
HasPoint(q, lo, hi, j) ==
  j \in 1..Len(q) /\ \E p \in 0..(q[j].n - 1) : PointUV(q, j, p) \in lo..hi

(* What select_voltage() answers is a set point of the request, and with one *)
(* there it answers, out of no later range.                                  *)
LEMMA Selects ==
  ASSUME NEW q, Gapless(q), NEW lo \in Int, NEW hi \in Int
  PROVE  LET s == spmi_regulator_select_voltage(q, lo, hi)
         IN /\ s = EINVAL \/ Meets(q, s, lo, hi, Len(q))
            /\ \A j : HasPoint(q, lo, hi, j) => Meets(q, s, lo, hi, j)
<1> DEFINE n == Len(q)
           limMin == q[1].spMin
           limMax == q[n].spMax
           uV == IF lo < limMin /\ hi >= limMin THEN limMin ELSE lo
           above == {i \in 2 .. n : uV > q[i - 1].spMax /\ q[i - 1].spMax > 0}
           id == Max({1} \cup above)
           r == q[id]
           d == r.step
           ceil == DIV_ROUND_UP(uV - r.min, d) * d + r.min
           s == spmi_regulator_select_voltage(q, lo, hi)
           k0 == CQuot(ceil - r.spMin, d)
<1>1. s = IF uV < limMin \/ uV > limMax \/ ceil > hi THEN EINVAL ELSE Before(q, id) + k0
  BY Zenon DEF spmi_regulator_select_voltage
<1>2. n \in 1..3 /\ 1 \in 1..n /\ n \in 1..n
  BY DEF Gapless, Counted
<1>3. \A m \in 1..n : /\ q[m].spMin \in Nat \ {0} /\ q[m].spMax \in Int /\ q[m].n \in Nat \ {0}
                      /\ q[m].step \in Nat \ {0} /\ q[m].spMax = q[m].spMin + (q[m].n - 1) * q[m].step
  <2> TAKE m \in 1..n
  <2>1. Even(q[m])
    BY DEF Gapless
  <2>2. q[m].spMin \in Nat \ {0} /\ q[m].n \in Nat \ {0} /\ q[m].step \in Nat \ {0}
        /\ q[m].spMax = q[m].spMin + (q[m].n - 1) * q[m].step
    BY <2>1 DEF Even
  <2> DEFINE k == q[m].n  e == q[m].step
  <2>3. (k - 1) * e \in Int
    <3>1. k \in Nat /\ e \in Nat
      BY <2>2
    <3> HIDE DEF k, e
    <3> QED BY <3>1
  <2> HIDE DEF n
  <2> QED BY <2>2, <2>3
<1>4. uV \in Int /\ uV >= lo /\ limMin \in Int /\ limMax \in Int
  BY <1>2, <1>3
<1>5. ASSUME limMin <= uV, uV <= limMax
      PROVE  /\ id \in 1..n /\ (id # 1 => q[id - 1].spMax < uV)
             /\ uV <= ceil /\ ceil < uV + d
             /\ k0 \in 0..(r.n - 1) /\ ceil = k0 * d + r.spMin
  <2> HIDE DEF uV
  <2>1. /\ id \in 1..n /\ (id # 1 => q[id - 1].spMax < uV)
        /\ uV <= ceil /\ ceil < uV + d
        /\ \E k \in 0..(r.n - 1) : ceil = k * d + r.spMin /\ k0 = k
    BY <1>4, <1>5, RangeOf, Zenon
  <2> HIDE DEF ceil, id, k0, d
  <2> QED BY <2>1, Zenon
<1> HIDE DEF id, d, k0, uV, s
<1>6. ASSUME limMin <= uV, uV <= limMax, ceil <= hi
      PROVE  id \in 1..n /\ Names(q, s, id, k0) /\ PointUV(q, id, k0) \in lo..hi
  <2>1. id \in 1..n /\ k0 \in 0..(r.n - 1) /\ ceil = k0 * d + r.spMin /\ uV <= ceil
    BY <1>5, <1>6
  <2>2. ceil \in Int
    <3>1. d \in Int /\ k0 \in Int /\ r.spMin \in Int
      BY <1>3, <2>1 DEF d
    <3> HIDE DEF r, ceil
    <3> QED BY <2>1, <3>1
  <2> HIDE DEF ceil
  <2>3. ~(uV < limMin \/ uV > limMax \/ ceil > hi)
    BY <1>4, <1>6, <2>2
  <2>4. s = Before(q, id) + k0
    BY <1>1, <2>3, Zenon
  <2>5. Names(q, s, id, k0)
    BY <2>1, <2>4 DEF Names
  <2>6. PointUV(q, id, k0) = ceil
    <3>1. r.spMin \in Int /\ k0 * d \in Int
      BY <1>3, <2>1 DEF d
    <3> QED BY <2>1, <3>1 DEF PointUV, d
  <2>7. ceil \in lo..hi
    BY <1>4, <1>6, <2>1, <2>2
  <2> QED BY <2>1, <2>5, <2>6, <2>7
<1>7. s = EINVAL \/ Meets(q, s, lo, hi, n)
  <2>1. CASE uV < limMin \/ uV > limMax \/ ceil > hi
    BY <1>1, <2>1, Zenon
  <2>2. CASE ~(uV < limMin \/ uV > limMax \/ ceil > hi)
    <3>1. limMin <= uV /\ uV <= limMax
      BY <1>4, <2>2
    <3>2. ceil \in Int
      <4>1. k0 \in Int /\ d \in Int /\ r.spMin \in Int /\ ceil = k0 * d + r.spMin
        BY <1>3, <1>5, <3>1 DEF d
      <4> HIDE DEF ceil, r
      <4> QED BY <4>1
    <3> HIDE DEF ceil
    <3>3. ceil <= hi
      BY <2>2, <3>2
    <3>4. id \in 1..n /\ Names(q, s, id, k0) /\ PointUV(q, id, k0) \in lo..hi
      BY <1>6, <3>1, <3>3
    <3> QED BY <3>4 DEF Meets
  <2> QED BY <2>1, <2>2
<1>8. ASSUME NEW j, HasPoint(q, lo, hi, j) PROVE Meets(q, s, lo, hi, j)
  <2>1. PICK p \in 0..(q[j].n - 1) : PointUV(q, j, p) \in lo..hi
    BY <1>8 DEF HasPoint
  <2>2. j \in 1..n
    BY <1>8 DEF HasPoint
  <2> DEFINE e == q[j].step
             up == q[j].spMin + p * e
  <2>3. /\ e \in Nat \ {0} /\ p \in Int /\ p * e \in Int /\ q[j].spMin \in Nat \ {0}
        /\ up \in Int /\ lo <= up /\ up <= hi
    <3>1. e \in Nat \ {0} /\ p \in Int /\ q[j].spMin \in Nat \ {0}
      BY <1>3, <2>1, <2>2
    <3> HIDE DEF e
    <3>2. p * e \in Int
      BY <3>1
    <3>3. up \in lo..hi
      BY <2>1 DEF PointUV, e
    <3> QED BY <3>1, <3>2, <3>3
  <2>4. q[j].spMin <= up /\ up <= q[j].spMax
    <3> DEFINE m == q[j].n - 1
    <3>1. m \in Int /\ 0 <= p /\ p <= m /\ q[j].spMax = q[j].spMin + m * e
      BY <1>3, <2>1, <2>2
    <3> HIDE DEF m, e
    <3>2. 0 <= p * e /\ p * e <= m * e /\ m * e \in Int
      BY <2>3, <3>1
    <3> QED BY <2>3, <3>1, <3>2
  <2>5. limMin <= up /\ up <= limMax
    <3>1. q[1].spMin <= q[j].spMin /\ q[j].spMax <= q[n].spMax
      BY <1>2, <2>2, RangesRise
    <3>2. q[j].spMin \in Int /\ q[j].spMax \in Int
      BY <1>3, <2>2
    <3> HIDE DEF up
    <3> QED BY <1>4, <2>3, <2>4, <3>1, <3>2, SMTT(30)
  <2> HIDE DEF e, up, limMin, limMax
  <2>6. limMin <= uV /\ uV <= limMax /\ uV <= up
    BY <1>4, <2>3, <2>5 DEF uV
  <2>7. /\ id \in 1..n /\ (id # 1 => q[id - 1].spMax < uV)
        /\ uV <= ceil /\ ceil < uV + d
        /\ k0 \in 0..(r.n - 1) /\ ceil = k0 * d + r.spMin
    BY <1>5, <2>6
  <2>8. /\ r.spMin \in Int /\ r.spMax \in Int /\ r.n \in Nat /\ d \in Nat \ {0}
        /\ r.spMax = r.spMin + (r.n - 1) * d
    BY <1>3, <2>7 DEF d
  <2>9. id <= j
    <3> SUFFICES ASSUME j < id PROVE FALSE
      BY <1>2, <2>2, <2>7
    <3>1. j <= id - 1 /\ id - 1 \in 1..n /\ id # 1
      BY <1>2, <2>2, <2>7
    <3>2. q[j].spMax <= q[id - 1].spMax
      BY <2>2, <3>1, RangesRise
    <3>3. q[j].spMax \in Int /\ q[id - 1].spMax \in Int /\ q[id - 1].spMax < uV
      BY <1>3, <2>2, <2>7, <3>1
    <3> QED BY <1>4, <2>3, <2>4, <2>6, <3>2, <3>3
  <2>10. ceil \in Int /\ k0 \in Int /\ k0 * d \in Int
    <3> HIDE DEF r, ceil
    <3>1. k0 \in Int
      BY <2>7
    <3> QED BY <2>7, <2>8, <3>1
  <2>11. ceil <= up
    <3>1. CASE id = j
      <4>1. d = e /\ r.spMin = q[j].spMin
        BY <3>1 DEF d, e
      <4> HIDE DEF r, ceil
      <4> DEFINE x == k0 * d  y == p * e
      <4>5. x \in Int /\ y \in Int /\ ceil = x + r.spMin /\ up = r.spMin + y
        BY <2>3, <2>7, <2>10, <4>1 DEF up
      <4>6. uV \in Int /\ uV <= up /\ ceil < uV + d /\ d \in Nat /\ r.spMin \in Int
        BY <1>4, <2>6, <2>7, <2>8
      <4> HIDE DEF x, y
      <4>7. x < y + d
        BY <4>5, <4>6
      <4>2. k0 * d < p * d + d
        BY <4>1, <4>7 DEF x, y
      <4>3. k0 <= p
        BY <2>3, <2>8, <2>10, <4>2, OnGrid
      <4>4. k0 * d <= p * d
        BY <2>3, <2>8, <2>10, <4>3, OnGrid
      <4>8. x <= y
        BY <4>1, <4>4 DEF x, y
      <4> QED BY <4>5, <4>6, <4>8
    <3>2. CASE id < j
      <4>1. r.spMax < q[j].spMin
        BY <2>2, <2>7, <3>2 DEF Gapless
      <4> DEFINE m == r.n - 1
      <4>2. m \in Int /\ k0 <= m /\ r.spMax = r.spMin + m * d
        BY <2>7, <2>8
      <4> HIDE DEF r, ceil, m
      <4>3. k0 * d <= m * d /\ m * d \in Int
        BY <2>8, <2>10, <4>2
      <4> DEFINE x == k0 * d  y == m * d
      <4>4. /\ x \in Int /\ y \in Int /\ x <= y /\ ceil = x + r.spMin /\ r.spMax = r.spMin + y
            /\ r.spMin \in Int
        BY <2>7, <2>8, <2>10, <4>2, <4>3
      <4> HIDE DEF x, y
      <4>5. q[j].spMin <= up /\ q[j].spMin \in Int /\ up \in Int
        BY <2>3, <2>4
      <4> QED BY <4>1, <4>4, <4>5
    <3> QED BY <1>2, <2>2, <2>7, <2>9, <3>1, <3>2
  <2>12. ceil <= hi
    <3> HIDE DEF ceil
    <3> QED BY <2>3, <2>10, <2>11
  <2>13. Names(q, s, id, k0) /\ PointUV(q, id, k0) \in lo..hi
    BY <1>6, <2>6, <2>12
  <2>14. id \in 1..j
    BY <1>2, <2>2, <2>7, <2>9
  <2> QED BY <2>13, <2>14 DEF Meets
<1> QED BY <1>7, <1>8 DEF s, n

LEMMA MeetsMore ==
  ASSUME NEW q, NEW s, NEW lo, NEW hi, NEW a \in Int, NEW b \in Int, a <= b,
         Meets(q, s, lo, hi, a)
  PROVE  Meets(q, s, lo, hi, b)
<1>1. PICK i \in 1..a : \E k : Names(q, s, i, k) /\ PointUV(q, i, k) \in lo..hi
  BY DEF Meets
<1>2. i \in 1..b
  OBVIOUS
<1> QED BY <1>1, <1>2 DEF Meets

(* A point of the grid of a range that lies in another is a set point there. *)
LEMMA GridPoint ==
  ASSUME NEW q, Gapless(q), NEW m \in 1..Len(q), NEW i \in 1..Len(q), i <= m,
         NEW c \in Int, NEW uV, uV = c * q[m].step + q[m].min,
         q[i].spMin <= uV, uV <= q[i].spMax
  PROVE  LET k == (uV - q[i].spMin) \div q[i].step
         IN k \in 0..(q[i].n - 1) /\ PointUV(q, i, k) = uV
<1> DEFINE a == q[i]
           b == q[m]
           d == a.step
           e == b.step
<1>1. /\ d \in Nat \ {0} /\ a.spMin \in Nat /\ a.min \in Nat /\ a.n \in Nat \ {0}
      /\ a.spMax = a.spMin + (a.n - 1) * d
      /\ Offset(a) \in Nat /\ a.spMin = a.min + Offset(a) * d
  BY DEF Gapless, Even
<1>2. e \in Nat \ {0} /\ b.min \in Nat
  BY DEF Gapless, Even
<1>3. \E k \in Int : uV = a.spMin + k * d
  <2>1. CASE i = m
    <3> DEFINE o == Offset(a)  k == c - o
    <3>1. a = b /\ d = e
      BY <2>1
    <3>2. o \in Int /\ d \in Nat /\ a.spMin = a.min + o * d /\ a.min \in Nat
      BY <1>1
    <3>3. uV = c * d + a.min
      BY <3>1
    <3> HIDE DEF o, a, b, d, e
    <3>4. k \in Int /\ k * d = c * d - o * d /\ o * d \in Int /\ c * d \in Int
      BY <3>2
    <3> HIDE DEF k
    <3>5. uV = a.spMin + k * d
      <4> DEFINE x == c * d  y == o * d  z == k * d
      <4>1. x \in Int /\ y \in Int /\ z = x - y /\ uV = x + a.min /\ a.spMin = a.min + y
            /\ a.min \in Nat
        BY <3>2, <3>3, <3>4
      <4> HIDE DEF x, y, z
      <4>2. uV = a.spMin + z
        BY <4>1
      <4> QED BY <4>2 DEF z
    <3> QED BY <3>4, <3>5
  <2>2. CASE i # m
    <3>1. i < m
      BY <2>2 DEF Gapless, Counted
    <3>2. Nested(a, b)
      BY <3>1 DEF Gapless
    <3> DEFINE f == e \div d  g == (b.min - a.spMin) \div d  k == g + c * f
    <3>3. f \in Int /\ g \in Int /\ e = f * d /\ b.min = a.spMin + g * d
      BY <3>2 DEF Nested
    <3>4. uV = c * e + b.min /\ d \in Nat /\ a.spMin \in Nat
      BY <1>1
    <3> HIDE DEF a, b, d, e, f, g
    <3>5. c * f \in Int /\ c * (f * d) = (c * f) * d
      BY <3>3, <3>4
    <3>6. k \in Int /\ k * d = g * d + (c * f) * d /\ g * d \in Int /\ (c * f) * d \in Int
      BY <3>3, <3>4, <3>5
    <3> HIDE DEF k
    <3>7. uV = a.spMin + k * d
      <4> DEFINE x == (c * f) * d  y == g * d  z == k * d
      <4>1. x \in Int /\ y \in Int /\ z = y + x /\ b.min = a.spMin + y /\ a.spMin \in Nat
        BY <3>3, <3>4, <3>6
      <4>2. uV = x + b.min
        BY <3>3, <3>4, <3>5
      <4> HIDE DEF x, y, z
      <4>3. uV = a.spMin + z
        BY <4>1, <4>2
      <4> QED BY <4>3 DEF z
    <3> QED BY <3>6, <3>7
  <2> QED BY <2>1, <2>2
<1>4. PICK k \in Int : uV = a.spMin + k * d
  BY <1>3
<1> DEFINE l == a.n - 1
<1>5. l \in Int /\ a.spMin \in Nat /\ d \in Nat \ {0} /\ a.spMax = a.spMin + l * d
  BY <1>1
<1>6. a.spMin <= uV /\ uV <= a.spMax
  OBVIOUS
<1> HIDE DEF a, b, d, e, l
<1>7. k * d \in Int /\ l * d \in Int
  BY <1>5
<1>8. 0 * d <= k * d /\ k * d <= l * d
  BY <1>4, <1>5, <1>6, <1>7, SMTT(30)
<1>9. 0 <= k /\ k <= l
  BY <1>5, <1>8, OnGrid
<1>10. (uV - a.spMin) \div d = k
  <2>1. uV - a.spMin = k * d
    BY <1>4, <1>5, <1>7, SMTT(30)
  <2> QED BY <1>5, <2>1, Multiple
<1>11. k \in 0..l
  BY <1>5, <1>9
<1>12. a.spMin + k * d = uV
  BY <1>4
<1> QED BY <1>10, <1>11, <1>12 DEF a, d, l, PointUV

(* select_voltage_same_range() likewise: it stays on the grid of the range   *)
(* the rail is in, or looks further.                                         *)
LEMMA SelectsSame ==
  ASSUME NEW q, Gapless(q), NEW lo \in Int, NEW hi \in Int, NEW known,
         NEW m \in 1..Len(q), q[m].max = q[m].spMax
  PROVE  LET s == spmi_regulator_select_voltage_same_range(q, known, q[m], lo, hi)
         IN /\ s = EINVAL \/ Meets(q, s, lo, hi, Len(q))
            /\ \A j : HasPoint(q, lo, hi, j) => Meets(q, s, lo, hi, Len(q))
            /\ m = 1 /\ HasPoint(q, lo, hi, 1) => Meets(q, s, lo, hi, 1)
<1> DEFINE n == Len(q)
           r == q[m]
           d == r.step
           uV == IF lo < r.min /\ hi >= r.min THEN r.min ELSE lo
           c == DIV_ROUND_UP(uV - r.min, d)
           ceil == c * d + r.min
           home == {i \in DOMAIN q : ceil \in q[i].spMin .. q[i].spMax}
           i == Min(home)
           s == spmi_regulator_select_voltage_same_range(q, known, r, lo, hi)
           t == spmi_regulator_select_voltage(q, lo, hi)
           here == known /\ uV \in r.min .. r.max /\ ceil <= hi /\ home # {}
           k == (ceil - q[i].spMin) \div q[i].step
<1>1. s = IF here THEN Before(q, i) + k ELSE t
  BY Zenon DEF spmi_regulator_select_voltage_same_range
<1>2. /\ t = EINVAL \/ Meets(q, t, lo, hi, n)
      /\ \A j : HasPoint(q, lo, hi, j) => Meets(q, t, lo, hi, j)
  BY Selects
<1>3. n \in 1..3 /\ DOMAIN q = 1..n
  BY DEF Gapless, Counted
<1>4. ASSUME here PROVE Meets(q, s, lo, hi, m)
  <2>1. /\ d \in Nat \ {0} /\ r.min \in Nat /\ r.spMin \in Nat /\ r.n \in Nat \ {0}
        /\ Offset(r) \in Nat /\ r.spMin = r.min + Offset(r) * d
        /\ r.spMax = r.spMin + (r.n - 1) * d
    BY DEF Gapless, Even
  <2>2. uV \in r.min .. r.max /\ ceil <= hi /\ home # {} /\ r.max = r.spMax
    BY <1>4
  <2>3. lo <= uV
    BY <2>1, SMTT(30)
  <2>4. uV \in Int
    BY <2>1
  <2> HIDE DEF uV
  <2> DEFINE o == Offset(r)  l == o + r.n - 1  u == r.n - 1
  <2>5. o \in Nat /\ u \in Nat /\ l \in Nat /\ l = o + u
    BY <2>1, SMTT(30)
  <2>6. r.spMin = r.min + o * d /\ r.spMax = r.spMin + u * d
    BY <2>1
  <2> HIDE DEF r, d, o, l, u
  <2>7. c \in Nat /\ uV - r.min <= c * d /\ c * d < (uV - r.min) + d
    <3>1. uV - r.min \in Int /\ (uV - r.min) + d > 0
      <4>1. r.min <= uV
        BY <2>2
      <4> QED BY <2>1, <2>4, <4>1, SMTT(30)
    <3> QED BY <2>1, <3>1, RoundsUp
  <2> HIDE DEF c
  <2>8. c * d \in Int /\ o * d \in Int /\ u * d \in Int /\ l * d = o * d + u * d
    <3>1. d \in Nat /\ o \in Nat /\ u \in Nat /\ c \in Nat
      BY <2>1, <2>5, <2>7
    <3>2. (o + u) * d = o * d + u * d
      BY <3>1
    <3> QED BY <2>5, <3>1, <3>2
  <2>9. ceil \in Int /\ uV <= ceil
    <3> DEFINE x == c * d
    <3>1. x \in Int /\ uV - r.min <= x /\ r.min \in Nat
      BY <2>1, <2>7, <2>8
    <3> HIDE DEF x
    <3>2. x + r.min \in Int /\ uV <= x + r.min
      BY <2>4, <3>1
    <3> QED BY <3>2 DEF x
  <2>10. ceil <= r.spMax
    <3> DEFINE x == c * d  y == l * d
    <3>1. x < (uV - r.min) + d /\ x \in Int /\ y \in Int /\ r.spMax = r.min + y
      <4> DEFINE v == o * d  w == u * d
      <4>1. /\ r.min \in Nat /\ v \in Int /\ w \in Int /\ y = v + w
            /\ r.spMin = r.min + v /\ r.spMax = r.spMin + w
        BY <2>1, <2>6, <2>8
      <4>2. x < (uV - r.min) + d /\ x \in Int
        BY <2>7, <2>8
      <4> HIDE DEF v, w, x, y
      <4> QED BY <4>1, <4>2
    <3>2. uV <= r.spMax
      BY <2>2
    <3> HIDE DEF x, y
    <3>3. x < y + d
      BY <2>1, <2>4, <3>1, <3>2
    <3>4. c <= l
      BY <2>1, <2>5, <2>7, <3>3, OnGrid DEF x, y
    <3>5. c * d <= l * d
      BY <2>1, <2>5, <2>7, <3>4, OnGrid
    <3> QED BY <2>1, <3>1, <3>5 DEF x, y
  <2>11. i \in home
    <3>1. home \subseteq {1, 2, 3}
      BY <1>3
    <3> HIDE DEF home
    <3>2. \E a \in home : \A b \in home : a <= b
      <4>1. CASE 1 \in home
        BY <3>1, <4>1
      <4>2. CASE 1 \notin home /\ 2 \in home
        BY <3>1, <4>2
      <4>3. CASE 1 \notin home /\ 2 \notin home
        <5>1. \A b \in home : b = 3
          BY <3>1, <4>3
        <5>2. PICK a \in home : TRUE
          BY <2>2
        <5>3. 3 \in home /\ \A b \in home : 3 <= b
          BY <5>1, <5>2
        <5> QED BY <5>3
      <4> QED BY <4>1, <4>2, <4>3
    <3> QED BY <3>2 DEF Min
  <2> HIDE DEF i
  <2>12. i \in 1..n /\ q[i].spMin <= ceil /\ ceil <= q[i].spMax
    BY <1>3, <2>11
  <2>13. i <= m
    <3> SUFFICES ASSUME m < i PROVE FALSE
      BY <1>3, <2>12
    <3>1. r.spMax < q[i].spMin
      BY <2>12 DEF Gapless, r
    <3>2. r.spMax \in Int /\ q[i].spMin \in Int
      <4>1. q[i].spMin \in Int
        BY <2>12 DEF Gapless, Even
      <4> DEFINE w == u * d
      <4>2. w \in Int /\ r.spMax = r.spMin + w /\ r.spMin \in Nat
        BY <2>1, <2>6, <2>8
      <4> HIDE DEF w
      <4> QED BY <4>1, <4>2
    <3> HIDE DEF ceil
    <3> QED BY <2>9, <2>10, <2>12, <3>1, <3>2
  <2>14. k \in 0..(q[i].n - 1) /\ PointUV(q, i, k) = ceil
    <3>1. c \in Int /\ ceil = c * q[m].step + q[m].min
      BY <2>7 DEF d, r
    <3> HIDE DEF ceil
    <3> QED BY <2>12, <2>13, <3>1, GridPoint
  <2> HIDE DEF k
  <2>15. Names(q, s, i, k)
    <3>1. s = Before(q, i) + k
      BY <1>1, <1>4
    <3> QED BY <2>12, <2>14, <3>1 DEF Names
  <2>16. PointUV(q, i, k) \in lo..hi
    <3> HIDE DEF ceil
    <3> QED BY <2>2, <2>3, <2>4, <2>9, <2>14
  <2>17. i \in 1..m
    BY <1>3, <2>12, <2>13
  <2> HIDE DEF s
  <2> QED BY <2>15, <2>16, <2>17 DEF Meets
<1> HIDE DEF s, t, here
<1>5. here => Meets(q, s, lo, hi, n)
  <2>1. m \in Int /\ n \in Int /\ m <= n
    BY <1>3
  <2> QED BY <1>4, <2>1, MeetsMore
<1>6. ~here => s = t
  BY <1>1
<1>7. \A j : HasPoint(q, lo, hi, j) => Meets(q, t, lo, hi, n)
  <2> SUFFICES ASSUME NEW j, HasPoint(q, lo, hi, j) PROVE Meets(q, t, lo, hi, n)
    OBVIOUS
  <2>1. j \in Int /\ n \in Int /\ j <= n
    BY <1>3 DEF HasPoint
  <2> QED BY <1>2, <2>1, MeetsMore
<1> HIDE DEF n
<1>8. /\ s = EINVAL \/ Meets(q, s, lo, hi, n)
      /\ \A j : HasPoint(q, lo, hi, j) => Meets(q, s, lo, hi, n)
      /\ m = 1 /\ HasPoint(q, lo, hi, 1) => Meets(q, s, lo, hi, 1)
  BY <1>2, <1>4, <1>5, <1>6, <1>7
<1> QED BY <1>8, Zenon DEF s, r, n

(***************************************************************************)
(* The rows of the table of regulators, and what the layouts need of theirs.*)
(***************************************************************************)
(* The tables by the layouts that use them.                                  *)
RangeTables == {"pldo", "nldo1", "smps", "ftsmps", "ftsmps2p5"}
SingleTables == {"boost", "boost_byp", "ult_ho_smps", "ult_nldo", "ult_pldo"}
MilliTables == {"ht_p600", "ht_p150", "hfs430", "ht_nldo", "ht_lvpldo", "nldo660", "pldo660",
                "ftsmps426", "nldo_510", "ftsmps510"}

(* The rows whose tables have no gap wider than a step and whose rate is not *)
(* zero.                                                                     *)
Served(m) == m.points \notin {"ln_ldo", "nldo2", "nldo3"} /\ m.logical # "LDO_510"

(* What a row says of its layout, its table and its ramp.                    *)
RowKind(m) ==
  \/ m.ops = "vs" /\ m.points = "none" /\ m.logical = "VS"
  \/ m.ops = "ldo" /\ m.points \in RangeTables /\ m.logical = "LDO"
  \/ m.ops = "smps" /\ m.points = "smps" /\ m.logical = "SMPS"
  \/ m.ops = "ftsmps" /\ m.points \in {"ftsmps", "ftsmps2p5"} /\ m.logical = "FTSMPS"
  \/ m.ops = "boost" /\ m.points \in SingleTables /\ m.logical \in {"BOOST", "BOOST_BYP"}
  \/ m.ops = "ult_ho_smps" /\ m.points = "ult_ho_smps" /\ m.logical = "ULT_HO_SMPS"
  \/ m.ops = "ult_ldo" /\ m.points \in SingleTables /\ m.logical = "ULT_LDO"
  \/ m.ops = "ult_lo_smps" /\ m.points = "ult_lo_smps" /\ m.logical = "ULT_LO_SMPS"
  \/ m.ops = "ftsmps426" /\ m.points \in MilliTables /\ m.logical = "FTSMPS426"
  \/ m.ops = "hfs430" /\ m.points \in MilliTables /\ m.logical = "HFS430"
  \/ m.ops = "hfsmps" /\ m.points \in MilliTables /\ m.logical \in {"HFSMPS", "FTSMPS3"}

LEMMA RowKinds == \A m \in Range(supported_regulators) : Served(m) => RowKind(m)
<1> DEFINE ok(m) == Served(m) => RowKind(m)
<1>1. ok(supported_regulators[1])
  <2>1. supported_regulators[1] = Vreg(LDO, {\h3d}, 0, INF, "HFS430", "hfs430", "ht_p600", 10000)
    BY DEF supported_regulators
  <2> QED BY <2>1 DEF Vreg, Served, RowKind, RangeTables, SingleTables, MilliTables
<1>2. ok(supported_regulators[2])
  <2>1. supported_regulators[2] = Vreg(LDO, {\h35}, 0, INF, "HFS430", "hfs430", "ht_p150", 10000)
    BY DEF supported_regulators
  <2> QED BY <2>1 DEF Vreg, Served, RowKind, RangeTables, SingleTables, MilliTables
<1>3. ok(supported_regulators[3])
  <2>1. supported_regulators[3] = Vreg(BUCK, {\h08}, 0, INF, "SMPS", "smps", "smps", 100000)
    BY DEF supported_regulators
  <2> QED BY <2>1 DEF Vreg, Served, RowKind, RangeTables, SingleTables, MilliTables
<1>4. ok(supported_regulators[4])
  <2>1. supported_regulators[4] = Vreg(BUCK, {\h0a}, 0, 3, "HFS430", "hfs430", "hfs430", 10000)
    BY DEF supported_regulators
  <2> QED BY <2>1 DEF Vreg, Served, RowKind, RangeTables, SingleTables, MilliTables
<1>5. ok(supported_regulators[5])
  <2>1. supported_regulators[5] = Vreg(BUCK, {\h0a}, 4, INF, "HFSMPS", "hfsmps", "hfs430", 100000)
    BY DEF supported_regulators
  <2> QED BY <2>1 DEF Vreg, Served, RowKind, RangeTables, SingleTables, MilliTables
<1>6. ok(supported_regulators[6])
  <2>1. supported_regulators[6] = Vreg(LDO, {\h03}, 0, INF, "LDO", "ldo", "nldo1", 10000)
    BY DEF supported_regulators
  <2> QED BY <2>1 DEF Vreg, Served, RowKind, RangeTables, SingleTables, MilliTables
<1>7. ok(supported_regulators[7])
  <2>1. supported_regulators[7] = Vreg(LDO, {\h04, \h05, \h06, \h07}, 0, 0, "LDO", "ldo", "nldo2", 10000)
    BY DEF supported_regulators
  <2> QED BY <2>1 DEF Vreg, Served, RowKind, RangeTables, SingleTables, MilliTables
<1>8. ok(supported_regulators[8])
  <2>1. supported_regulators[8] = Vreg(LDO, {\h04, \h05, \h06, \h07}, 1, INF, "LDO", "ldo", "nldo3", 10000)
    BY DEF supported_regulators
  <2> QED BY <2>1 DEF Vreg, Served, RowKind, RangeTables, SingleTables, MilliTables
<1>9. ok(supported_regulators[9])
  <2>1. supported_regulators[9] = Vreg(LDO, {\h08, \h28}, 0, INF, "LDO", "ldo", "pldo", 5000)
    BY DEF supported_regulators
  <2> QED BY <2>1 DEF Vreg, Served, RowKind, RangeTables, SingleTables, MilliTables
<1>10. ok(supported_regulators[10])
  <2>1. supported_regulators[10] = Vreg(LDO, {\h09, \h0a, \h0b, \h0c, \h29, \h2a, \h2b, \h2c}, 0, INF, "LDO", "ldo", "pldo", 10000)
    BY DEF supported_regulators
  <2> QED BY <2>1 DEF Vreg, Served, RowKind, RangeTables, SingleTables, MilliTables
<1>11. ok(supported_regulators[11])
  <2>1. supported_regulators[11] = Vreg(LDO, {\h10}, 0, INF, "LN_LDO", "ln_ldo", "ln_ldo", 0)
    BY DEF supported_regulators
  <2> QED BY <2>1 DEF Vreg, Served, RowKind, RangeTables, SingleTables, MilliTables
<1>12. ok(supported_regulators[12])
  <2>1. supported_regulators[12] = Vreg(LDO, {\h30, \h31, \h32}, 0, INF, "FTSMPS426", "ftsmps426", "ht_nldo", 30000)
    BY DEF supported_regulators
  <2> QED BY <2>1 DEF Vreg, Served, RowKind, RangeTables, SingleTables, MilliTables
<1>13. ok(supported_regulators[13])
  <2>1. supported_regulators[13] = Vreg(LDO, {\h3b, \h3c, \h4d, \h4f}, 0, INF, "FTSMPS426", "ftsmps426", "ht_lvpldo", 10000)
    BY DEF supported_regulators
  <2> QED BY <2>1 DEF Vreg, Served, RowKind, RangeTables, SingleTables, MilliTables
<1>14. ok(supported_regulators[14])
  <2>1. supported_regulators[14] = Vreg(LDO, {\h42, \h43}, 0, INF, "FTSMPS426", "ftsmps426", "nldo660", 10000)
    BY DEF supported_regulators
  <2> QED BY <2>1 DEF Vreg, Served, RowKind, RangeTables, SingleTables, MilliTables
<1>15. ok(supported_regulators[15])
  <2>1. supported_regulators[15] = Vreg(LDO, {\h46, \h47, \h49}, 0, INF, "FTSMPS426", "ftsmps426", "pldo660", 10000)
    BY DEF supported_regulators
  <2> QED BY <2>1 DEF Vreg, Served, RowKind, RangeTables, SingleTables, MilliTables
<1>16. ok(supported_regulators[16])
  <2>1. supported_regulators[16] = Vreg(VS, {\h01, \h02, \h08, \h09, \h10, \h11}, 0, INF, "VS", "vs", "none", 0)
    BY DEF supported_regulators
  <2> QED BY <2>1 DEF Vreg, Served, RowKind, RangeTables, SingleTables, MilliTables
<1>17. ok(supported_regulators[17])
  <2>1. supported_regulators[17] = Vreg(BOOST, {\h01}, 0, INF, "BOOST", "boost", "boost", 0)
    BY DEF supported_regulators
  <2> QED BY <2>1 DEF Vreg, Served, RowKind, RangeTables, SingleTables, MilliTables
<1>18. ok(supported_regulators[18])
  <2>1. supported_regulators[18] = Vreg(FTS, {\h08}, 0, INF, "FTSMPS", "ftsmps", "ftsmps", 100000)
    BY DEF supported_regulators
  <2> QED BY <2>1 DEF Vreg, Served, RowKind, RangeTables, SingleTables, MilliTables
<1>19. ok(supported_regulators[19])
  <2>1. supported_regulators[19] = Vreg(FTS, {\h09}, 0, INF, "FTSMPS", "ftsmps", "ftsmps2p5", 100000)
    BY DEF supported_regulators
  <2> QED BY <2>1 DEF Vreg, Served, RowKind, RangeTables, SingleTables, MilliTables
<1>20. ok(supported_regulators[20])
  <2>1. supported_regulators[20] = Vreg(FTS, {\h0a}, 0, INF, "FTSMPS426", "ftsmps426", "ftsmps426", 100000)
    BY DEF supported_regulators
  <2> QED BY <2>1 DEF Vreg, Served, RowKind, RangeTables, SingleTables, MilliTables
<1>21. ok(supported_regulators[21])
  <2>1. supported_regulators[21] = Vreg(BOOST_BYP, {\h01}, 0, INF, "BOOST_BYP", "boost", "boost_byp", 0)
    BY DEF supported_regulators
  <2> QED BY <2>1 DEF Vreg, Served, RowKind, RangeTables, SingleTables, MilliTables
<1>22. ok(supported_regulators[22])
  <2>1. supported_regulators[22] = Vreg(ULT_BUCK, {\h0d, \h0e, \h0f}, 0, INF, "ULT_LO_SMPS", "ult_lo_smps", "ult_lo_smps", 100000)
    BY DEF supported_regulators
  <2> QED BY <2>1 DEF Vreg, Served, RowKind, RangeTables, SingleTables, MilliTables
<1>23. ok(supported_regulators[23])
  <2>1. supported_regulators[23] = Vreg(ULT_BUCK, {\h10}, 0, INF, "ULT_HO_SMPS", "ult_ho_smps", "ult_ho_smps", 100000)
    BY DEF supported_regulators
  <2> QED BY <2>1 DEF Vreg, Served, RowKind, RangeTables, SingleTables, MilliTables
<1>24. ok(supported_regulators[24])
  <2>1. supported_regulators[24] = Vreg(ULT_LDO, {\h15, \h06, \h14, \h07}, 0, INF, "ULT_LDO", "ult_ldo", "ult_nldo", 10000)
    BY DEF supported_regulators
  <2> QED BY <2>1 DEF Vreg, Served, RowKind, RangeTables, SingleTables, MilliTables
<1>25. ok(supported_regulators[25])
  <2>1. supported_regulators[25] = Vreg(ULT_LDO, {\h28, \h29, \h2a, \h2d, \h0b, \h0a, \h09}, 0, INF, "ULT_LDO", "ult_ldo", "ult_pldo", 10000)
    BY DEF supported_regulators
  <2> QED BY <2>1 DEF Vreg, Served, RowKind, RangeTables, SingleTables, MilliTables
<1>26. ok(supported_regulators[26])
  <2>1. supported_regulators[26] = Vreg(ULT_LDO, {\h08}, 0, INF, "ULT_LDO", "ult_ldo", "ult_pldo", 5000)
    BY DEF supported_regulators
  <2> QED BY <2>1 DEF Vreg, Served, RowKind, RangeTables, SingleTables, MilliTables
<1>27. ok(supported_regulators[27])
  <2>1. supported_regulators[27] = Vreg(LDO, {\h71, \h72, \h73}, 0, INF, "LDO_510", "hfsmps", "ht_lvpldo", 10000)
    BY DEF supported_regulators
  <2> QED BY <2>1 DEF Vreg, Served, RowKind, RangeTables, SingleTables, MilliTables
<1>28. ok(supported_regulators[28])
  <2>1. supported_regulators[28] = Vreg(LDO, {\h7a, \h7b, \h7d}, 0, INF, "LDO_510", "hfsmps", "pldo660", 10000)
    BY DEF supported_regulators
  <2> QED BY <2>1 DEF Vreg, Served, RowKind, RangeTables, SingleTables, MilliTables
<1>29. ok(supported_regulators[29])
  <2>1. supported_regulators[29] = Vreg(LDO, {\h6a, \h6b, \h6c}, 0, INF, "LDO_510", "hfsmps", "nldo_510", 10000)
    BY DEF supported_regulators
  <2> QED BY <2>1 DEF Vreg, Served, RowKind, RangeTables, SingleTables, MilliTables
<1>30. ok(supported_regulators[30])
  <2>1. supported_regulators[30] = Vreg(FTS, {\h0b}, 0, INF, "FTSMPS3", "hfsmps", "ftsmps510", 100000)
    BY DEF supported_regulators
  <2> QED BY <2>1 DEF Vreg, Served, RowKind, RangeTables, SingleTables, MilliTables
<1> HIDE DEF ok
<1>31. DOMAIN supported_regulators = 1..30
  BY DEF supported_regulators
<1>32. \A i \in 1..30 : ok(supported_regulators[i])
  BY <1>1, <1>2, <1>3, <1>4, <1>5, <1>6, <1>7, <1>8, <1>9, <1>10, <1>11, <1>12, <1>13, <1>14, <1>15, <1>16, <1>17, <1>18, <1>19, <1>20, <1>21, <1>22, <1>23, <1>24, <1>25, <1>26, <1>27, <1>28, <1>29, <1>30
<1>33. \A m \in Range(supported_regulators) : ok(m)
  BY <1>31, <1>32, Zenon DEF Range
<1> QED BY <1>33 DEF ok

(* What the layouts need of their tables: codes that fit a byte and ranges   *)
(* told apart; codes that count from the first set point; whole millivolts.  *)
RangeTable(q) ==
  /\ Gapless(q)
  /\ \A i \in 1..Len(q) : /\ q[i].max = q[i].spMax /\ q[i].n + Offset(q[i]) <= 256
                          /\ q[i].step <= 50000
  /\ \A i, j \in 1..Len(q) : q[i].range_sel = q[j].range_sel => i = j

SingleTable(q) ==
  /\ Gapless(q) /\ Len(q) = 1
  /\ Offset(q[1]) = 0 /\ q[1].n <= 256 /\ q[1].step <= 50000

MilliTable(q) ==
  /\ Gapless(q) /\ Len(q) = 1
  /\ q[1].step \in {4000, 8000} /\ q[1].spMin = 1000 * (q[1].spMin \div 1000)
  /\ q[1].spMax <= 65535000 /\ q[1].spMin >= 4000 /\ q[1].spMin <= q[1].spMax

LEMMA GaplessOne == ASSUME NEW a, Even(a) PROVE Gapless(<<a>>)
<1> DEFINE q == <<a>>
<1>1. q \in Seq(Range(q)) /\ Len(q) = 1 /\ q[1] = a
  BY DEF Range
<1> HIDE DEF q
<1>2. Counted(q)
  BY <1>1 DEF Counted, Even
<1>3. Gapless(q)
  BY <1>1, <1>2 DEF Gapless
<1> QED BY <1>3 DEF q

LEMMA GaplessTwo ==
  ASSUME NEW a, NEW b, Even(a), Even(b), Nested(a, b), a.spMax < b.spMin,
         b.spMin - a.spMax <= b.step
  PROVE  Gapless(<<a, b>>)
<1> DEFINE q == <<a, b>>
<1>1. q \in Seq(Range(q)) /\ Len(q) = 2 /\ q[1] = a /\ q[2] = b
  BY DEF Range
<1> HIDE DEF q
<1>2. Counted(q)
  BY <1>1, SMTT(30) DEF Counted, Even
<1>3. Gapless(q)
  BY <1>1, <1>2 DEF Gapless
<1> QED BY <1>3 DEF q

LEMMA GaplessThree ==
  ASSUME NEW a, NEW b, NEW c, Even(a), Even(b), Even(c),
         Nested(a, b), Nested(a, c), Nested(b, c),
         a.spMax < b.spMin, a.spMax < c.spMin, b.spMax < c.spMin,
         b.spMin - a.spMax <= b.step, c.spMin - b.spMax <= c.step
  PROVE  Gapless(<<a, b, c>>)
<1> DEFINE q == <<a, b, c>>
<1>1. q \in Seq(Range(q)) /\ Len(q) = 3 /\ q[1] = a /\ q[2] = b /\ q[3] = c
  BY DEF Range
<1> HIDE DEF q
<1>4. a.n \in Nat /\ b.n \in Nat /\ c.n \in Nat
  BY DEF Even
<1>2. Counted(q)
  <2>1. \A i \in 1..3 : q[i].n \in Nat
    <3>1. \A i \in 1..3 : i \in {1, 2, 3}
      OBVIOUS
    <3> QED BY <1>1, <1>4, <3>1
  <2> QED BY <1>1, <2>1 DEF Counted
<1>3. Gapless(q)
  <2>1. \A i \in 1..3 : i \in {1, 2, 3}
    OBVIOUS
  <2> QED BY <1>1, <1>2, <2>1 DEF Gapless
<1> QED BY <1>3 DEF q

LEMMA RangeTablesServe == \A p \in RangeTables : RangeTable(set_points[p])
<1>1. RangeTable(set_points["pldo"])
  <2> DEFINE a == Volts(2, 750000, 750000, 1537500, 1537500, 12500)
             b == Volts(3, 1500000, 1550000, 3075000, 3075000, 25000)
             c == Volts(4, 1750000, 3100000, 4900000, 4900000, 50000)
  <2>1. set_points["pldo"] = <<a, b, c>>
    BY DEF set_points
  <2>2. Even(a) /\ Even(b) /\ Even(c)
    BY DEF Even, Volts, Offset
  <2>4. Nested(a, b) /\ Nested(a, c) /\ Nested(b, c)
    BY DEF Nested, Volts
  <2>5. /\ a.spMax < b.spMin
        /\ a.spMax < c.spMin
        /\ b.spMax < c.spMin
        /\ b.spMin - a.spMax <= b.step
        /\ c.spMin - b.spMax <= c.step
    BY DEF Volts
  <2>3. Gapless(<<a, b, c>>)
    BY <2>2, <2>4, <2>5, GaplessThree
  <2>6. /\ a.max = a.spMax /\ a.n + Offset(a) <= 256 /\ a.step <= 50000
        /\ b.max = b.spMax /\ b.n + Offset(b) <= 256 /\ b.step <= 50000
        /\ c.max = c.spMax /\ c.n + Offset(c) <= 256 /\ c.step <= 50000
    BY DEF Volts, Offset
  <2>7. a.range_sel # b.range_sel /\ a.range_sel # c.range_sel /\ b.range_sel # c.range_sel
    BY DEF Volts
  <2> HIDE DEF a, b, c
  <2> QED BY <2>1, <2>3, <2>6, <2>7 DEF RangeTable
<1>2. RangeTable(set_points["nldo1"])
  <2> DEFINE a == Volts(2, 750000, 750000, 1537500, 1537500, 12500)
  <2>1. set_points["nldo1"] = <<a>>
    BY DEF set_points
  <2>2. Even(a)
    BY DEF Even, Volts, Offset
  <2>3. Gapless(<<a>>)
    BY <2>2, GaplessOne
  <2>6. /\ a.max = a.spMax /\ a.n + Offset(a) <= 256 /\ a.step <= 50000
    BY DEF Volts, Offset
  <2> HIDE DEF a
  <2> QED BY <2>1, <2>3, <2>6 DEF RangeTable
<1>3. RangeTable(set_points["smps"])
  <2> DEFINE a == Volts(0, 375000, 375000, 1562500, 1562500, 12500)
             b == Volts(1, 1550000, 1575000, 3125000, 3125000, 25000)
  <2>1. set_points["smps"] = <<a, b>>
    BY DEF set_points
  <2>2. Even(a) /\ Even(b)
    BY DEF Even, Volts, Offset
  <2>4. Nested(a, b)
    BY DEF Nested, Volts
  <2>5. /\ a.spMax < b.spMin
        /\ b.spMin - a.spMax <= b.step
    BY DEF Volts
  <2>3. Gapless(<<a, b>>)
    BY <2>2, <2>4, <2>5, GaplessTwo
  <2>6. /\ a.max = a.spMax /\ a.n + Offset(a) <= 256 /\ a.step <= 50000
        /\ b.max = b.spMax /\ b.n + Offset(b) <= 256 /\ b.step <= 50000
    BY DEF Volts, Offset
  <2>7. a.range_sel # b.range_sel
    BY DEF Volts
  <2> HIDE DEF a, b
  <2> QED BY <2>1, <2>3, <2>6, <2>7 DEF RangeTable
<1>4. RangeTable(set_points["ftsmps"])
  <2> DEFINE a == Volts(0, 0, 350000, 1275000, 1275000, 5000)
             b == Volts(1, 0, 1280000, 2040000, 2040000, 10000)
  <2>1. set_points["ftsmps"] = <<a, b>>
    BY DEF set_points
  <2>2. Even(a) /\ Even(b)
    BY DEF Even, Volts, Offset
  <2>4. Nested(a, b)
    BY DEF Nested, Volts
  <2>5. /\ a.spMax < b.spMin
        /\ b.spMin - a.spMax <= b.step
    BY DEF Volts
  <2>3. Gapless(<<a, b>>)
    BY <2>2, <2>4, <2>5, GaplessTwo
  <2>6. /\ a.max = a.spMax /\ a.n + Offset(a) <= 256 /\ a.step <= 50000
        /\ b.max = b.spMax /\ b.n + Offset(b) <= 256 /\ b.step <= 50000
    BY DEF Volts, Offset
  <2>7. a.range_sel # b.range_sel
    BY DEF Volts
  <2> HIDE DEF a, b
  <2> QED BY <2>1, <2>3, <2>6, <2>7 DEF RangeTable
<1>5. RangeTable(set_points["ftsmps2p5"])
  <2> DEFINE a == Volts(0, 80000, 350000, 1355000, 1355000, 5000)
             b == Volts(1, 160000, 1360000, 2200000, 2200000, 10000)
  <2>1. set_points["ftsmps2p5"] = <<a, b>>
    BY DEF set_points
  <2>2. Even(a) /\ Even(b)
    BY DEF Even, Volts, Offset
  <2>4. Nested(a, b)
    BY DEF Nested, Volts
  <2>5. /\ a.spMax < b.spMin
        /\ b.spMin - a.spMax <= b.step
    BY DEF Volts
  <2>3. Gapless(<<a, b>>)
    BY <2>2, <2>4, <2>5, GaplessTwo
  <2>6. /\ a.max = a.spMax /\ a.n + Offset(a) <= 256 /\ a.step <= 50000
        /\ b.max = b.spMax /\ b.n + Offset(b) <= 256 /\ b.step <= 50000
    BY DEF Volts, Offset
  <2>7. a.range_sel # b.range_sel
    BY DEF Volts
  <2> HIDE DEF a, b
  <2> QED BY <2>1, <2>3, <2>6, <2>7 DEF RangeTable
<1> QED BY <1>1, <1>2, <1>3, <1>4, <1>5 DEF RangeTables

LEMMA SingleTablesServe == \A p \in SingleTables : SingleTable(set_points[p])
<1>1. SingleTable(set_points["boost"])
  <2> DEFINE a == Volts(0, 4000000, 4000000, 5550000, 5550000, 50000)
  <2>1. set_points["boost"] = <<a>>
    BY DEF set_points
  <2>2. Even(a)
    BY DEF Even, Volts, Offset
  <2>3. Gapless(<<a>>)
    BY <2>2, GaplessOne
  <2>6. Offset(a) = 0 /\ a.n <= 256 /\ a.step <= 50000
    BY DEF Volts, Offset
  <2> HIDE DEF a
  <2> QED BY <2>1, <2>3, <2>6 DEF SingleTable
<1>2. SingleTable(set_points["boost_byp"])
  <2> DEFINE a == Volts(0, 2500000, 2500000, 5200000, 5650000, 50000)
  <2>1. set_points["boost_byp"] = <<a>>
    BY DEF set_points
  <2>2. Even(a)
    BY DEF Even, Volts, Offset
  <2>3. Gapless(<<a>>)
    BY <2>2, GaplessOne
  <2>6. Offset(a) = 0 /\ a.n <= 256 /\ a.step <= 50000
    BY DEF Volts, Offset
  <2> HIDE DEF a
  <2> QED BY <2>1, <2>3, <2>6 DEF SingleTable
<1>3. SingleTable(set_points["ult_ho_smps"])
  <2> DEFINE a == Volts(0, 1550000, 1550000, 2325000, 2325000, 25000)
  <2>1. set_points["ult_ho_smps"] = <<a>>
    BY DEF set_points
  <2>2. Even(a)
    BY DEF Even, Volts, Offset
  <2>3. Gapless(<<a>>)
    BY <2>2, GaplessOne
  <2>6. Offset(a) = 0 /\ a.n <= 256 /\ a.step <= 50000
    BY DEF Volts, Offset
  <2> HIDE DEF a
  <2> QED BY <2>1, <2>3, <2>6 DEF SingleTable
<1>4. SingleTable(set_points["ult_nldo"])
  <2> DEFINE a == Volts(0, 375000, 375000, 1537500, 1537500, 12500)
  <2>1. set_points["ult_nldo"] = <<a>>
    BY DEF set_points
  <2>2. Even(a)
    BY DEF Even, Volts, Offset
  <2>3. Gapless(<<a>>)
    BY <2>2, GaplessOne
  <2>6. Offset(a) = 0 /\ a.n <= 256 /\ a.step <= 50000
    BY DEF Volts, Offset
  <2> HIDE DEF a
  <2> QED BY <2>1, <2>3, <2>6 DEF SingleTable
<1>5. SingleTable(set_points["ult_pldo"])
  <2> DEFINE a == Volts(0, 1750000, 1750000, 3337500, 3337500, 12500)
  <2>1. set_points["ult_pldo"] = <<a>>
    BY DEF set_points
  <2>2. Even(a)
    BY DEF Even, Volts, Offset
  <2>3. Gapless(<<a>>)
    BY <2>2, GaplessOne
  <2>6. Offset(a) = 0 /\ a.n <= 256 /\ a.step <= 50000
    BY DEF Volts, Offset
  <2> HIDE DEF a
  <2> QED BY <2>1, <2>3, <2>6 DEF SingleTable
<1> QED BY <1>1, <1>2, <1>3, <1>4, <1>5 DEF SingleTables

LEMMA MilliTablesServe == \A p \in MilliTables : MilliTable(set_points[p])
<1>1. MilliTable(set_points["ht_p600"])
  <2> DEFINE a == Volts(0, 1704000, 1704000, 1896000, 1896000, 8000)
  <2>1. set_points["ht_p600"] = <<a>>
    BY DEF set_points
  <2>2. Even(a)
    BY DEF Even, Volts, Offset
  <2>3. Gapless(<<a>>)
    BY <2>2, GaplessOne
  <2>6. a.step \in {4000, 8000} /\ a.spMin = 1000 * (a.spMin \div 1000) /\ a.spMax <= 65535000
        /\ a.spMin >= 4000 /\ a.spMin <= a.spMax
    BY DEF Volts
  <2> HIDE DEF a
  <2> QED BY <2>1, <2>3, <2>6 DEF MilliTable
<1>2. MilliTable(set_points["ht_p150"])
  <2> DEFINE a == Volts(0, 1616000, 1616000, 3304000, 3304000, 8000)
  <2>1. set_points["ht_p150"] = <<a>>
    BY DEF set_points
  <2>2. Even(a)
    BY DEF Even, Volts, Offset
  <2>3. Gapless(<<a>>)
    BY <2>2, GaplessOne
  <2>6. a.step \in {4000, 8000} /\ a.spMin = 1000 * (a.spMin \div 1000) /\ a.spMax <= 65535000
        /\ a.spMin >= 4000 /\ a.spMin <= a.spMax
    BY DEF Volts
  <2> HIDE DEF a
  <2> QED BY <2>1, <2>3, <2>6 DEF MilliTable
<1>3. MilliTable(set_points["hfs430"])
  <2> DEFINE a == Volts(0, 320000, 320000, 2040000, 2040000, 8000)
  <2>1. set_points["hfs430"] = <<a>>
    BY DEF set_points
  <2>2. Even(a)
    BY DEF Even, Volts, Offset
  <2>3. Gapless(<<a>>)
    BY <2>2, GaplessOne
  <2>6. a.step \in {4000, 8000} /\ a.spMin = 1000 * (a.spMin \div 1000) /\ a.spMax <= 65535000
        /\ a.spMin >= 4000 /\ a.spMin <= a.spMax
    BY DEF Volts
  <2> HIDE DEF a
  <2> QED BY <2>1, <2>3, <2>6 DEF MilliTable
<1>4. MilliTable(set_points["ht_nldo"])
  <2> DEFINE a == Volts(0, 312000, 312000, 1304000, 1304000, 8000)
  <2>1. set_points["ht_nldo"] = <<a>>
    BY DEF set_points
  <2>2. Even(a)
    BY DEF Even, Volts, Offset
  <2>3. Gapless(<<a>>)
    BY <2>2, GaplessOne
  <2>6. a.step \in {4000, 8000} /\ a.spMin = 1000 * (a.spMin \div 1000) /\ a.spMax <= 65535000
        /\ a.spMin >= 4000 /\ a.spMin <= a.spMax
    BY DEF Volts
  <2> HIDE DEF a
  <2> QED BY <2>1, <2>3, <2>6 DEF MilliTable
<1>5. MilliTable(set_points["ht_lvpldo"])
  <2> DEFINE a == Volts(0, 1504000, 1504000, 2000000, 2000000, 8000)
  <2>1. set_points["ht_lvpldo"] = <<a>>
    BY DEF set_points
  <2>2. Even(a)
    BY DEF Even, Volts, Offset
  <2>3. Gapless(<<a>>)
    BY <2>2, GaplessOne
  <2>6. a.step \in {4000, 8000} /\ a.spMin = 1000 * (a.spMin \div 1000) /\ a.spMax <= 65535000
        /\ a.spMin >= 4000 /\ a.spMin <= a.spMax
    BY DEF Volts
  <2> HIDE DEF a
  <2> QED BY <2>1, <2>3, <2>6 DEF MilliTable
<1>6. MilliTable(set_points["nldo660"])
  <2> DEFINE a == Volts(0, 320000, 320000, 1304000, 1304000, 8000)
  <2>1. set_points["nldo660"] = <<a>>
    BY DEF set_points
  <2>2. Even(a)
    BY DEF Even, Volts, Offset
  <2>3. Gapless(<<a>>)
    BY <2>2, GaplessOne
  <2>6. a.step \in {4000, 8000} /\ a.spMin = 1000 * (a.spMin \div 1000) /\ a.spMax <= 65535000
        /\ a.spMin >= 4000 /\ a.spMin <= a.spMax
    BY DEF Volts
  <2> HIDE DEF a
  <2> QED BY <2>1, <2>3, <2>6 DEF MilliTable
<1>7. MilliTable(set_points["pldo660"])
  <2> DEFINE a == Volts(0, 1504000, 1504000, 3544000, 3544000, 8000)
  <2>1. set_points["pldo660"] = <<a>>
    BY DEF set_points
  <2>2. Even(a)
    BY DEF Even, Volts, Offset
  <2>3. Gapless(<<a>>)
    BY <2>2, GaplessOne
  <2>6. a.step \in {4000, 8000} /\ a.spMin = 1000 * (a.spMin \div 1000) /\ a.spMax <= 65535000
        /\ a.spMin >= 4000 /\ a.spMin <= a.spMax
    BY DEF Volts
  <2> HIDE DEF a
  <2> QED BY <2>1, <2>3, <2>6 DEF MilliTable
<1>8. MilliTable(set_points["ftsmps426"])
  <2> DEFINE a == Volts(0, 0, 320000, 1352000, 1352000, 4000)
  <2>1. set_points["ftsmps426"] = <<a>>
    BY DEF set_points
  <2>2. Even(a)
    BY DEF Even, Volts, Offset
  <2>3. Gapless(<<a>>)
    BY <2>2, GaplessOne
  <2>6. a.step \in {4000, 8000} /\ a.spMin = 1000 * (a.spMin \div 1000) /\ a.spMax <= 65535000
        /\ a.spMin >= 4000 /\ a.spMin <= a.spMax
    BY DEF Volts
  <2> HIDE DEF a
  <2> QED BY <2>1, <2>3, <2>6 DEF MilliTable
<1>9. MilliTable(set_points["nldo_510"])
  <2> DEFINE a == Volts(0, 320000, 320000, 1304000, 1304000, 8000)
  <2>1. set_points["nldo_510"] = <<a>>
    BY DEF set_points
  <2>2. Even(a)
    BY DEF Even, Volts, Offset
  <2>3. Gapless(<<a>>)
    BY <2>2, GaplessOne
  <2>6. a.step \in {4000, 8000} /\ a.spMin = 1000 * (a.spMin \div 1000) /\ a.spMax <= 65535000
        /\ a.spMin >= 4000 /\ a.spMin <= a.spMax
    BY DEF Volts
  <2> HIDE DEF a
  <2> QED BY <2>1, <2>3, <2>6 DEF MilliTable
<1>10. MilliTable(set_points["ftsmps510"])
  <2> DEFINE a == Volts(0, 300000, 300000, 1372000, 1372000, 4000)
  <2>1. set_points["ftsmps510"] = <<a>>
    BY DEF set_points
  <2>2. Even(a)
    BY DEF Even, Volts, Offset
  <2>3. Gapless(<<a>>)
    BY <2>2, GaplessOne
  <2>6. a.step \in {4000, 8000} /\ a.spMin = 1000 * (a.spMin \div 1000) /\ a.spMax <= 65535000
        /\ a.spMin >= 4000 /\ a.spMin <= a.spMax
    BY DEF Volts
  <2> HIDE DEF a
  <2> QED BY <2>1, <2>3, <2>6 DEF MilliTable
<1> QED BY <1>1, <1>2, <1>3, <1>4, <1>5, <1>6, <1>7, <1>8, <1>9, <1>10 DEF MilliTables

(* The lowest point of a grid that is not below a voltage.                   *)
LEMMA FirstPoint ==
  ASSUME NEW d \in Nat \ {0}, NEW x \in Int
  PROVE  LET p == Max({0, DIV_ROUND_UP(x, d)})
         IN p \in Nat /\ p * d >= x /\ \A k \in Nat : k * d >= x => p <= k
<1> DEFINE c == DIV_ROUND_UP(x, d)
           p == Max({0, c})
<1>1. c \in Int
  <2>1. x + d - 1 \in Int /\ -(x + d - 1) \in Int
    OBVIOUS
  <2>2. ((x + d - 1) \div d) \in Int /\ ((-(x + d - 1)) \div d) \in Int
    BY <2>1, Quotient
  <2> QED BY <2>1, <2>2 DEF DIV_ROUND_UP, CQuot
<1>2. p \in {0, c} /\ p >= 0 /\ p >= c
  <2> HIDE DEF c
  <2>1. \E m \in {0, c} : \A y \in {0, c} : m >= y
    <3>1. CASE c <= 0
      BY <1>1, <3>1
    <3>2. CASE c > 0
      BY <1>1, <3>2
    <3> QED BY <1>1, <3>1, <3>2
  <2>2. Max({0, c}) \in {0, c} /\ \A y \in {0, c} : Max({0, c}) >= y
    BY <2>1 DEF Max
  <2> QED BY <2>2
<1>3. CASE x + d > 0
  <2>1. c \in Nat /\ x <= c * d /\ c * d < x + d
    BY <1>3, RoundsUp
  <2> HIDE DEF c, p
  <2>2. p = c
    BY <1>2, <2>1
  <2>3. ASSUME NEW k \in Nat, k * d >= x PROVE c <= k
    <3>1. k * d \in Int /\ c * d \in Int
      BY <2>1
    <3>2. c * d < k * d + d
      BY <2>1, <2>3, <3>1
    <3> QED BY <2>1, <3>2, OnGrid
  <2> QED BY <2>1, <2>2, <2>3 DEF p, c
<1>4. CASE x + d <= 0
  <2>1. c <= 0
    <3> DEFINE y == -(x + d - 1)
    <3>1. y \in Int /\ y >= 1 /\ c = -(y \div d)
      BY <1>4 DEF DIV_ROUND_UP, CQuot
    <3> HIDE DEF y
    <3>2. y \div d \in Int /\ y < (y \div d) * d + d
      BY <3>1, Quotient
    <3> DEFINE f == y \div d
    <3> HIDE DEF f
    <3>3. f >= 0
      <4> SUFFICES ASSUME f + 1 <= 0 PROVE FALSE
        BY <3>2 DEF f
      <4>1. f \in Int /\ y < f * d + d
        BY <3>2 DEF f
      <4>2. (f + 1) * d <= 0 * d /\ (f + 1) * d = f * d + d /\ f * d \in Int
        BY <4>1
      <4> QED BY <3>1, <4>1, <4>2
    <3>4. c = -f
      BY <3>1 DEF f
    <3> HIDE DEF c
    <3> QED BY <3>2, <3>3, <3>4 DEF f
  <2> HIDE DEF c, p
  <2>2. p = 0
    BY <1>1, <1>2, <2>1
  <2>3. p * d = 0
    BY <2>2
  <2>4. p \in Nat /\ p * d >= x /\ \A k \in Nat : p <= k
    BY <1>4, <2>2, <2>3
  <2> QED BY <2>4 DEF p, c
<1>5. x + d > 0 \/ x + d <= 0
  OBVIOUS
<1> QED BY <1>3, <1>4, <1>5, Zenon

(* The table of the split layout has one range of set points.                *)
SplitTable(q) ==
  /\ Counted(q) /\ Len(q) = 2
  /\ q[1].n = 96 /\ q[1].spMin = 375000 /\ q[1].min = 375000 /\ q[1].step = 12500
  /\ q[1].spMax = 1562500 /\ q[1].range_sel = 0 /\ Offset(q[1]) = 0
  /\ q[2].n = 0 /\ q[2].range_sel = 1 /\ q[2].step = 25000 /\ q[2].spMin = 0

LEMMA SplitTableServes == SplitTable(set_points["ult_lo_smps"])
<1> DEFINE a == Volts(0, 375000, 375000, 1562500, 1562500, 12500)
           b == Volts(1, 750000, 0, 0, 1525000, 25000)
           q == <<a, b>>
<1>1. set_points["ult_lo_smps"] = q
  BY DEF set_points
<1>2. /\ a.n = 96 /\ a.spMin = 375000 /\ a.min = 375000 /\ a.step = 12500
      /\ a.spMax = 1562500 /\ a.range_sel = 0 /\ Offset(a) = 0
      /\ b.n = 0 /\ b.range_sel = 1 /\ b.step = 25000 /\ b.spMin = 0
  BY DEF Volts, Offset
<1> HIDE DEF a, b
<1>3. q \in Seq(Range(q)) /\ Len(q) = 2 /\ q[1] = a /\ q[2] = b
  BY DEF Range
<1> HIDE DEF q
<1>4. Counted(q)
  BY <1>2, <1>3 DEF Counted
<1> QED BY <1>1, <1>2, <1>3, <1>4 DEF SplitTable

(* The regulator core goes through the selectors from the lowest.            *)
LEMMA IteratesSplit ==
  ASSUME NEW q, SplitTable(q), NEW lo \in Int, NEW hi \in Int
  PROVE  LET s == MapIterate(q, lo, hi)
         IN /\ s = EINVAL \/ Meets(q, s, lo, hi, 1)
            /\ HasPoint(q, lo, hi, 1) => Meets(q, s, lo, hi, 1)
<1> DEFINE fits == {s \in 0 .. spmi_calculate_num_voltages(q) - 1 :
                      spmi_regulator_common_list_voltage(q, s) \in lo .. hi}
           s == MapIterate(q, lo, hi)
<1>1. Before(q, 1) = 0 /\ Before(q, 2) = 96 /\ Before(q, 3) = 96
  <2>1. /\ Before(q, 1) = 0
        /\ \A i \in 1..2 : Before(q, i + 1) = Before(q, i) + q[i].n
    BY BeforeSums DEF SplitTable
  <2> QED BY <2>1 DEF SplitTable
<1>2. spmi_calculate_num_voltages(q) = 96
  BY <1>1 DEF spmi_calculate_num_voltages, SplitTable
<1>3. ASSUME NEW k \in 0..95
      PROVE  /\ Names(q, k, 1, k) /\ PointUV(q, 1, k) = 375000 + k * 12500
             /\ spmi_regulator_common_list_voltage(q, k) = PointUV(q, 1, k)
  <2>1. Names(q, k, 1, k)
    BY <1>1 DEF Names, SplitTable
  <2>2. spmi_regulator_common_list_voltage(q, k) = k * q[1].step + q[1].spMin
    BY <2>1, ListAt DEF SplitTable
  <2> QED BY <2>1, <2>2 DEF PointUV, SplitTable
<1>4. fits = {k \in 0..95 : 375000 + k * 12500 \in lo..hi}
  BY <1>2, <1>3
<1>5. s = IF fits = {} THEN EINVAL ELSE Min(fits)
  BY DEF MapIterate
<1>6. fits # {} => Min(fits) \in fits
  <2> SUFFICES ASSUME fits # {} PROVE \E p \in fits : \A k \in fits : p <= k
    BY Zenon DEF Min
  <2>1. PICK z \in 0..95 : 375000 + z * 12500 \in lo..hi
    BY <1>4
  <2> DEFINE x == lo - 375000  d == 12500  p == Max({0, DIV_ROUND_UP(x, d)})
  <2>6. x \in Int /\ d \in Nat \ {0} /\ x = lo - 375000 /\ d = 12500
    OBVIOUS
  <2> HIDE DEF x, d
  <2>9. x \in Int /\ d \in Nat \ {0}
    BY <2>6
  <2>7. p \in Nat /\ p * d >= x /\ \A k \in Nat : k * d >= x => p <= k
    BY <2>9, FirstPoint, Zenon
  <2>2. p \in Nat /\ p * 12500 >= lo - 375000 /\ \A k \in Nat : k * 12500 >= lo - 375000 => p <= k
    <3> HIDE DEF p
    <3> QED BY <2>6, <2>7
  <2> HIDE DEF p
  <2>3. p <= z
    BY <2>1, <2>2
  <2>4. p \in 0..95 /\ 375000 + p * 12500 \in lo..hi
    BY <2>1, <2>2, <2>3
  <2>5. \A k \in fits : p <= k
    BY <1>4, <2>2
  <2>8. p \in fits
    BY <1>4, <2>4
  <2> HIDE DEF fits
  <2> QED BY <2>5, <2>8
<1> HIDE DEF fits, s
<1>7. fits # {} => Meets(q, s, lo, hi, 1)
  <2> SUFFICES ASSUME fits # {} PROVE Meets(q, s, lo, hi, 1)
    OBVIOUS
  <2>1. s \in fits
    BY <1>5, <1>6
  <2>2. s \in 0..95 /\ 375000 + s * 12500 \in lo..hi
    BY <1>4, <2>1
  <2>3. Names(q, s, 1, s) /\ PointUV(q, 1, s) \in lo..hi
    BY <1>3, <2>2
  <2> QED BY <2>3 DEF Meets
<1>8. HasPoint(q, lo, hi, 1) => fits # {}
  <2> SUFFICES ASSUME HasPoint(q, lo, hi, 1) PROVE fits # {}
    OBVIOUS
  <2>1. PICK k \in 0..95 : PointUV(q, 1, k) \in lo..hi
    BY DEF HasPoint, SplitTable
  <2>2. k \in fits
    BY <1>3, <1>4, <2>1
  <2> QED BY <2>2
<1> QED BY <1>5, <1>7, <1>8 DEF s

(* Every layout with the tables made for it.                                 *)
Placed ==
  \/ Layout = "range" /\ RangeTable(pts)
  \/ Layout = "single" /\ SingleTable(pts)
  \/ Layout = "split" /\ SplitTable(pts)
  \/ Layout = "mv" /\ MilliTable(pts)
  \/ Layout = "none" /\ row.points = "none"

LEMMA AllPlaced == ASSUME RowKind(row) PROVE Placed
<1>1. row.points \in RangeTables => RangeTable(pts)
  BY RangeTablesServe DEF pts
<1>2. row.points \in SingleTables => SingleTable(pts)
  BY SingleTablesServe DEF pts
<1>3. row.points \in MilliTables => MilliTable(pts)
  BY MilliTablesServe DEF pts
<1>4. row.points = "ult_lo_smps" => SplitTable(pts)
  BY SplitTableServes DEF pts
<1>5. CASE row.ops \in {"ldo", "smps", "ftsmps"}
  <2>1. row.points \in RangeTables
    BY <1>5 DEF RowKind, RangeTables
  <2>2. Layout = "range"
    BY <1>5 DEF Layout
  <2> QED BY <1>1, <2>1, <2>2 DEF Placed
<1>6. CASE row.ops \in {"boost", "ult_ho_smps", "ult_ldo"}
  <2>1. row.points \in SingleTables
    BY <1>6 DEF RowKind, SingleTables
  <2>2. Layout = "single"
    BY <1>6 DEF Layout
  <2> QED BY <1>2, <2>1, <2>2 DEF Placed
<1>7. CASE row.ops \in {"ftsmps426", "hfs430", "hfsmps"}
  <2>1. row.points \in MilliTables
    BY <1>7 DEF RowKind, MilliTables
  <2>2. Layout = "mv"
    BY <1>7 DEF Layout
  <2> QED BY <1>3, <2>1, <2>2 DEF Placed
<1>8. CASE row.ops = "ult_lo_smps"
  <2>1. row.points = "ult_lo_smps"
    BY <1>8 DEF RowKind
  <2>2. Layout = "split"
    BY <1>8 DEF Layout
  <2> QED BY <1>4, <2>1, <2>2 DEF Placed
<1>9. CASE row.ops = "vs"
  <2>1. row.points = "none"
    BY <1>9 DEF RowKind
  <2>2. Layout = "none"
    BY <1>9 DEF Layout
  <2> QED BY <2>1, <2>2 DEF Placed
<1> QED BY <1>5, <1>6, <1>7, <1>8, <1>9 DEF RowKind

(* The ranges of a table are told apart.                                     *)
Distinct(q) ==
  /\ q \in Seq(Range(q)) /\ Len(q) \in 1..3
  /\ \A i, j \in 1..Len(q) : q[i].range_sel = q[j].range_sel => i = j

LEMMA RangeFound ==
  ASSUME NEW q, Distinct(q), NEW code
  PROVE  LET known == {i \in DOMAIN q : q[i].range_sel = code}
             found == IF known = {} THEN 0 ELSE Min(known)
         IN /\ found = 0 \/ (found \in 1..Len(q) /\ q[found].range_sel = code)
            /\ \A j \in 1..Len(q) : q[j].range_sel = code => found = j
<1> DEFINE n == Len(q)
           known == {i \in DOMAIN q : q[i].range_sel = code}
           found == IF known = {} THEN 0 ELSE Min(known)
<1>1. n \in 1..3 /\ DOMAIN q = 1..n
  BY DEF Distinct
<1>2. CASE known = {}
  BY <1>1, <1>2
<1>3. CASE known # {}
  <2>1. PICK i \in known : TRUE
    BY <1>3
  <2>2. known = {i} /\ i \in 1..n /\ q[i].range_sel = code
    BY <1>1, <2>1 DEF Distinct
  <2>3. Min({i}) = i
    BY <1>1, <2>2 DEF Min
  <2>4. found = i
    <3> HIDE DEF known
    <3> QED BY <1>3, <2>2, <2>3
  <2>5. \A j \in 1..n : q[j].range_sel = code => i = j
    BY <2>2 DEF Distinct
  <2> QED BY <2>2, <2>4, <2>5
<1> QED BY <1>2, <1>3

LEMMA FindsRange ==
  ASSUME Distinct(pts)
  PROVE  LET i == spmi_regulator_find_range
         IN /\ i = 0 \/ (i \in 1..Len(pts) /\ pts[i].range_sel = reg.range)
            /\ \A j \in 1..Len(pts) : pts[j].range_sel = reg.range => i = j
  BY RangeFound DEF spmi_regulator_find_range

LEMMA RangesApart ==
  /\ \A q : RangeTable(q) => Distinct(q)
  /\ \A q : SplitTable(q) => Distinct(q)
<1>1. \A q : RangeTable(q) => Distinct(q)
  BY DEF RangeTable, Gapless, Counted, Distinct
<1>2. ASSUME NEW q, SplitTable(q) PROVE Distinct(q)
  <2>1. Len(q) = 2 /\ q[1].range_sel = 0 /\ q[2].range_sel = 1 /\ q \in Seq(Range(q))
    BY <1>2 DEF SplitTable, Counted
  <2> QED BY <2>1 DEF Distinct
<1> QED BY <1>1, <1>2

(* A selector that map_voltage() names is a set point of the request, and    *)
(* one is named when there is one.                                           *)
LEMMA Maps ==
  ASSUME Placed, row.points # "none", NEW lo \in Int, NEW hi \in Int
  PROVE  LET s == MapVoltage(lo, hi)
         IN /\ s = EINVAL \/ Meets(pts, s, lo, hi, Len(pts))
            /\ \A j : HasPoint(pts, lo, hi, j) => Meets(pts, s, lo, hi, Len(pts))
            /\ /\ Layout = "range" /\ reg.range = 0 /\ pts[1].range_sel = 0
               /\ HasPoint(pts, lo, hi, 1)
               => Meets(pts, s, lo, hi, 1)
<1> DEFINE s == MapVoltage(lo, hi)
           n == Len(pts)
<1>1. CASE Layout = "range" /\ RangeTable(pts)
  <2> DEFINE i == spmi_regulator_find_range
             m == Max({i, 1})
  <2>1. Gapless(pts) /\ n \in 1..3
    BY <1>1 DEF RangeTable, Gapless, Counted
  <2>2. /\ i = 0 \/ (i \in 1..n /\ pts[i].range_sel = reg.range)
        /\ \A j \in 1..n : pts[j].range_sel = reg.range => i = j
    BY <1>1, FindsRange, RangesApart
  <2>3. s = spmi_regulator_select_voltage_same_range(pts, i # 0, pts[m], lo, hi)
    BY <1>1 DEF MapVoltage
  <2> HIDE DEF i
  <2>4. m \in 1..n /\ (i = 1 => m = 1)
    <3>1. {i, 1} \subseteq {1, 2, 3} \/ i = 0
      BY <2>1, <2>2
    <3>2. CASE i = 0
      <4>1. m = 1
        BY <3>2 DEF Max
      <4> QED BY <2>1, <3>2, <4>1
    <3>3. CASE i # 0
      <4>1. m = i
        <5>1. i \in {i, 1} /\ i \in Int /\ \A y \in {i, 1} : i >= y
          BY <2>1, <2>2, <3>3
        <5>2. \A x \in {i, 1} : (\A y \in {i, 1} : x >= y) => x = i
          BY <5>1
        <5> QED BY <5>1, <5>2 DEF Max
      <4> QED BY <2>2, <3>3, <4>1
    <3> QED BY <3>2, <3>3
  <2> HIDE DEF m
  <2>5. pts[m].max = pts[m].spMax
    BY <1>1, <2>4 DEF RangeTable
  <2>6. /\ s = EINVAL \/ Meets(pts, s, lo, hi, n)
        /\ \A j : HasPoint(pts, lo, hi, j) => Meets(pts, s, lo, hi, n)
        /\ m = 1 /\ HasPoint(pts, lo, hi, 1) => Meets(pts, s, lo, hi, 1)
    BY <2>1, <2>3, <2>4, <2>5, SelectsSame
  <2>7. reg.range = 0 /\ pts[1].range_sel = 0 => m = 1
    BY <2>1, <2>2, <2>4
  <2> QED BY <2>6, <2>7
<1>2. CASE Layout \in {"single", "mv"} /\ Gapless(pts)
  <2>1. s = spmi_regulator_select_voltage(pts, lo, hi)
    BY <1>2 DEF MapVoltage
  <2>2. n \in 1..3
    BY <1>2 DEF Gapless, Counted
  <2>3. /\ s = EINVAL \/ Meets(pts, s, lo, hi, n)
        /\ \A j : HasPoint(pts, lo, hi, j) => Meets(pts, s, lo, hi, j)
    BY <1>2, <2>1, Selects
  <2>4. ASSUME NEW j, HasPoint(pts, lo, hi, j) PROVE Meets(pts, s, lo, hi, n)
    <3>1. j \in Int /\ n \in Int /\ j <= n
      BY <2>2, <2>4 DEF HasPoint
    <3> QED BY <2>3, <2>4, <3>1, MeetsMore
  <2> QED BY <1>2, <2>3, <2>4
<1>3. CASE Layout = "split" /\ SplitTable(pts)
  <2>1. s = MapIterate(pts, lo, hi)
    BY <1>3 DEF MapVoltage
  <2>2. /\ s = EINVAL \/ Meets(pts, s, lo, hi, 1)
        /\ HasPoint(pts, lo, hi, 1) => Meets(pts, s, lo, hi, 1)
    BY <1>3, <2>1, IteratesSplit
  <2>3. n = 2
    BY <1>3 DEF SplitTable
  <2>4. Meets(pts, s, lo, hi, 1) => Meets(pts, s, lo, hi, n)
    BY <2>3, MeetsMore
  <2>5. \A j : HasPoint(pts, lo, hi, j) => HasPoint(pts, lo, hi, 1)
    BY <1>3 DEF HasPoint, SplitTable
  <2> QED BY <1>3, <2>2, <2>4, <2>5
<1> QED BY <1>1, <1>2, <1>3 DEF Placed, SingleTable, MilliTable

(***************************************************************************)
(* What a rail puts out, what is read back, and that no request is refused.*)
(***************************************************************************)
(* A rail that the SAW drives has its table's first range selected, which    *)
(* the first row of its table is.                                            *)
LeaderFirst == Leader => Layout = "range" /\ reg.range = 0 /\ pts[1].range_sel = 0

LEMMA HoldsRange ==
  ASSUME NEW i \in 1..Len(pts), pts' = pts, Distinct(pts), reg'.range = pts[i].range_sel
  PROVE  spmi_regulator_find_range' = i
<1> DEFINE q == pts
           known(code) == {j \in DOMAIN q : q[j].range_sel = code}
           found(code) == IF known(code) = {} THEN 0 ELSE Min(known(code))
<1>1. ASSUME NEW code, code = q[i].range_sel PROVE found(code) = i
  <2>1. \A j \in 1..Len(q) : q[j].range_sel = code => found(code) = j
    BY RangeFound
  <2> HIDE DEF found
  <2> QED BY <1>1, <2>1
<1>2. found(q[i].range_sel) = i
  BY <1>1
<1>3. spmi_regulator_find_range' = found(reg'.range)
  BY DEF spmi_regulator_find_range
<1> HIDE DEF found, q
<1> QED BY <1>2, <1>3 DEF q

(* The selector read from a range's code is the one of the voltage that the  *)
(* hardware makes of it, and a set point's code has one.                     *)
LEMMA Decodes ==
  ASSUME NEW q, Counted(q), NEW id \in 1..Len(q), Even(q[id]), NEW code \in Nat
  PROVE  LET s == spmi_hw_selector_to_sw(q, code, id)
             k == code - Offset(q[id])
         IN /\ \/ s = EINVAL
               \/ Names(q, s, id, k) /\ PointUV(q, id, k) = q[id].min + code * q[id].step
            /\ k \in 0..(q[id].n - 1) => s >= 0
<1> DEFINE r == q[id]  d == r.step  n == r.n  o == Offset(r)  u == r.min
           s == spmi_hw_selector_to_sw(q, code, id)
           k == code - o
<1> SUFFICES /\ s = EINVAL \/ (Names(q, s, id, k) /\ PointUV(q, id, k) = q[id].min + code * q[id].step)
             /\ k \in 0..(q[id].n - 1) => s >= 0
  OBVIOUS
<1>1. d \in Nat \ {0} /\ n \in Nat \ {0} /\ o \in Nat /\ u \in Nat /\ Before(q, id) \in Nat
  BY BeforeSums DEF Even
<1>2. r.spMin = u + o * d /\ r.spMax = r.spMin + (n - 1) * d
  BY DEF Even
<1>3. (r.spMax - u) \div d = n - 1 + o
  <2> DEFINE m == n - 1 + o  b == n - 1
  <2>1. m \in Int /\ b \in Int /\ m = b + o
    BY <1>1
  <2> HIDE DEF r, d, n, o, u, m, b
  <2>2. m * d = b * d + o * d /\ b * d \in Int /\ o * d \in Int /\ m * d \in Int
    BY <1>1, <2>1
  <2>3. r.spMax = (u + o * d) + b * d
    BY <1>2 DEF b
  <2> DEFINE x == b * d  y == o * d  z == m * d  t == r.spMax
  <2>4. z = x + y /\ t = u + y + x /\ u \in Nat /\ x \in Int /\ y \in Int
    BY <1>1, <2>2, <2>3
  <2> HIDE DEF x, y, z, t
  <2>5. t - u = z
    BY <2>4
  <2>6. (m * d) \div d = m
    BY <1>1, <2>1, Multiple
  <2>7. (t - u) \div d = m
    BY <2>5, <2>6, Zenon DEF z
  <2> QED BY <2>7 DEF t, m
<1>4. s = IF n = 0 \/ code < o \/ code > (r.spMax - u) \div d THEN EINVAL
          ELSE Before(q, id) + code - o
  BY DEF spmi_hw_selector_to_sw, Offset
<1>5. CASE code < o \/ code > n - 1 + o
  <2> HIDE DEF s, d, n, o, u, r
  <2>1. s = EINVAL
    BY <1>3, <1>4, <1>5
  <2>2. ~(code - o \in 0..(n - 1))
    BY <1>1, <1>5
  <2>3. k = code - o /\ q[id].n = n
    BY DEF n, r
  <2> HIDE DEF k
  <2>4. k \in 0..(q[id].n - 1) => s >= 0
    BY <2>2, <2>3
  <2> QED BY <2>1, <2>4
<1>6. CASE code >= o /\ code <= n - 1 + o
  <2>1. s = Before(q, id) + code - o
    <3> DEFINE x == (r.spMax - u) \div d
    <3>1. x = n - 1 + o
      BY <1>3
    <3> HIDE DEF x, s, n, o
    <3> QED BY <1>1, <1>4, <1>6, <3>1 DEF x
  <2> DEFINE b == Before(q, id)
  <2>2. k \in 0..(n - 1) /\ s = b + k
    <3> HIDE DEF s, n, o, b
    <3> QED BY <1>1, <1>6, <2>1 DEF b
  <2>3. Names(q, s, id, k)
    BY <2>2 DEF Names
  <2>4. PointUV(q, id, k) = u + code * d
    <3>1. PointUV(q, id, k) = r.spMin + k * d
      BY DEF PointUV
    <3>2. code = k + o /\ k \in Int
      BY <1>1
    <3> HIDE DEF k, o, d, u, r
    <3>3. code * d = k * d + o * d /\ k * d \in Int /\ o * d \in Int
      BY <1>1, <3>2
    <3> DEFINE x == k * d  y == o * d  z == code * d  p == r.spMin
    <3>4. z = x + y /\ p = u + y /\ x \in Int /\ y \in Int /\ u \in Nat
      BY <1>1, <1>2, <3>3
    <3> HIDE DEF x, y, z, p
    <3>5. p + x = u + z
      BY <3>4
    <3> QED BY <3>1, <3>5 DEF x, z, p
  <2>5. s >= 0
    <3> HIDE DEF s, b, k
    <3> QED BY <1>1, <2>2 DEF b
  <2> QED BY <2>3, <2>4, <2>5
<1> QED BY <1>1, <1>5, <1>6

(* A set point written is what the rail puts out, and a rail that can be     *)
(* read can still be read.                                                   *)
LEMMA Puts ==
  ASSUME Placed, LeaderFirst, row.points # "none", row' = row, "late" \notin SawFaults,
         NEW S, reg \in RailRegs(S),
         NEW s, NEW i, NEW k, Names(pts, s, i, k), Settable(s), reg' \in SetVoltageSel(s)
  PROVE  OutUV' = PointUV(pts, i, k) /\ (GetSel >= 0 => GetSel' >= 0)
<1> DEFINE hw == spmi_sw_selector_to_hw(pts, s)
           r == pts[i]
           d == r.step
           o == Offset(r)
<1>1. Layout' = Layout /\ pts' = pts
  BY DEF Layout, pts
<1>2. Counted(pts) /\ i \in 1..Len(pts) /\ k \in 0..(r.n - 1)
  BY DEF Placed, RangeTable, SingleTable, MilliTable, SplitTable, Gapless, Names
<1>3. hw = [range |-> r.range_sel, vset |-> (k + o) % 256]
  BY <1>2, HardwareAt
<1>4. List(s) = PointUV(pts, i, k)
  <2>1. List(s) = k * r.step + r.spMin
    BY <1>2, ListAt DEF List
  <2>2. r.spMin \in Int /\ r.step \in Int /\ k \in Int
    BY <1>2 DEF Placed, RangeTable, SingleTable, MilliTable, SplitTable, Gapless, Even, Names
  <2> DEFINE e == r.step  u == r.spMin
  <2> HIDE DEF e, u, r
  <2>3. k * e \in Int
    BY <2>2 DEF e
  <2>4. k * e + u = u + k * e
    BY <2>2, <2>3 DEF u
  <2> QED BY <2>1, <2>4 DEF PointUV, r, e, u
<1>5. r.spMin \in Int /\ d \in Nat /\ k \in Int /\ PointUV(pts, i, k) = r.spMin + k * d
  BY <1>2 DEF PointUV, Placed, RangeTable, SingleTable, MilliTable, SplitTable, Gapless, Even
<1>6. CASE Layout = "range" /\ RangeTable(pts)
  <2>1. /\ r.min \in Nat /\ o \in Nat /\ r.spMin = r.min + o * d /\ r.n + o <= 256 /\ r.n \in Nat
    BY <1>2, <1>6 DEF RangeTable, Gapless, Even
  <2>2. (k + o) % 256 = k + o
    <3> HIDE DEF o
    <3>1. k + o \in 0..255
      BY <1>2, <2>1
    <3> QED BY <3>1
  <2>3. hw.range = r.range_sel /\ hw.vset = k + o
    BY <1>3, <2>2
  <2> HIDE DEF hw
  <2>4. reg'.range = r.range_sel /\ reg'.vset = k + o
    <3>1. CASE Leader
      <4>1. reg' = [reg EXCEPT !.vset = hw.vset] /\ hw.range = 0
        BY <3>1 DEF SetVoltageSel, spmi_saw_set_vdd, Settable, hw
      <4>2. reg'.vset = hw.vset /\ reg'.range = reg.range
        BY <4>1 DEF RailRegs
      <4> QED BY <2>3, <3>1, <4>1, <4>2 DEF LeaderFirst
    <3>2. CASE ~Leader
      <4>1. reg' = [reg EXCEPT !.range = hw.range, !.vset = hw.vset]
        BY <1>6, <3>2 DEF SetVoltageSel, SetSel, hw
      <4>2. reg'.vset = hw.vset /\ reg'.range = hw.range
        BY <4>1 DEF RailRegs
      <4> QED BY <2>3, <4>2
    <3> QED BY <3>1, <3>2
  <2>5. spmi_regulator_find_range' = i
    BY <1>1, <1>2, <1>6, <2>4, HoldsRange, RangesApart
  <2>6. OutUV' = r.min + (k + o) * d
    <3>1. OutUV' = LET f == spmi_regulator_find_range'
                   IN IF f = 0 THEN -1 ELSE pts[f].min + reg'.vset * pts[f].step
      BY <1>1, <1>6 DEF OutUV
    <3>2. i # 0
      BY <1>2
    <3> QED BY <2>4, <2>5, <3>1, <3>2
  <2>7. r.min + (k + o) * d = r.spMin + k * d
    <3> HIDE DEF r, d, o
    <3>1. (k + o) * d = k * d + o * d /\ k * d \in Int /\ o * d \in Int
      BY <1>5, <2>1
    <3> QED BY <1>5, <2>1, <3>1
  <2>8. GetSel' = spmi_hw_selector_to_sw(pts, k + o, i)
    <3>1. i # 0
      BY <1>2
    <3> QED BY <1>1, <1>6, <2>4, <2>5, <3>1 DEF GetSel
  <2>9. spmi_hw_selector_to_sw(pts, k + o, i) >= 0
    <3>1. Even(r) /\ k + o \in Nat /\ (k + o) - o = k
      <4>1. Even(r)
        BY <1>2, <1>6 DEF RangeTable, Gapless
      <4> HIDE DEF o
      <4> QED BY <1>2, <2>1, <4>1
    <3> DEFINE code == k + o
    <3>2. code \in Nat /\ code - Offset(pts[i]) = k /\ Even(pts[i])
      BY <3>1
    <3> HIDE DEF code
    <3>3. spmi_hw_selector_to_sw(pts, code, i) >= 0
      BY <1>2, <3>2, Decodes
    <3> QED BY <3>3 DEF code
  <2> QED BY <1>5, <2>6, <2>7, <2>8, <2>9
<1>7. ASSUME Layout \in {"single", "mv", "split"} PROVE reg' = SetSel(s)
  <2>1. ~Leader
    BY <1>7 DEF LeaderFirst
  <2> QED BY <2>1 DEF SetVoltageSel
<1>8. CASE Layout = "single" /\ SingleTable(pts)
  <2>1. i = 1 /\ o = 0 /\ r.n <= 256 /\ r.n \in Nat
    BY <1>2, <1>8 DEF SingleTable, Gapless, Even
  <2>2. s = k
    <3>1. Before(pts, 1) = 0
      BY <1>2, BeforeSums
    <3> QED BY <1>2, <2>1, <3>1 DEF Names
  <2>3. s % 256 = k
    BY <1>2, <2>1, <2>2
  <2>4. reg' = [reg EXCEPT !.vset = s % 256]
    BY <1>7, <1>8 DEF SetSel
  <2>5. reg'.vset = k
    BY <2>3, <2>4 DEF RailRegs
  <2>6. OutUV' = pts[1].min + k * pts[1].step
    BY <1>1, <1>8, <2>5 DEF OutUV
  <2>7. pts[1].min = r.spMin
    <3>1. r.spMin = r.min + o * d /\ r.min \in Nat
      BY <1>2, <1>8 DEF SingleTable, Gapless, Even
    <3>2. 0 * d = 0
      BY <1>5
    <3> QED BY <2>1, <3>1, <3>2
  <2>8. GetSel' >= 0
    <3>1. GetSel' = k
      BY <1>1, <1>8, <2>5 DEF GetSel
    <3> QED BY <1>2, <3>1
  <2> QED BY <1>5, <2>1, <2>6, <2>7, <2>8
<1>9. CASE Layout = "mv" /\ MilliTable(pts)
  <2>1. i = 1 /\ d \in {4000, 8000} /\ r.spMin = 1000 * (r.spMin \div 1000)
    BY <1>2, <1>9 DEF MilliTable
  <2> DEFINE m == r.spMin \div 1000
  <2>2. m \in Int /\ r.spMin = 1000 * m
    BY <1>5, <2>1
  <2>3. List(s) = 1000 * m + k * d
    BY <1>4, <1>5, <2>2
  <2> HIDE DEF m
  <2>4. (List(s) \div 1000) * 1000 = List(s)
    <3>1. CASE d = 4000
      <4>1. List(s) = 1000 * (m + 4 * k)
        BY <1>5, <2>2, <2>3, <3>1
      <4>2. m + 4 * k \in Int
        BY <1>5, <2>2
      <4> DEFINE a == m + 4 * k  l == List(s)
      <4> HIDE DEF a, l
      <4>3. l = a * 1000 /\ a \in Int
        BY <4>1, <4>2 DEF a, l
      <4>4. (a * 1000) \div 1000 = a
        BY <4>3, Multiple
      <4>5. (l \div 1000) * 1000 = l
        BY <4>3, <4>4
      <4> QED BY <4>5 DEF l
    <3>2. CASE d = 8000
      <4>1. List(s) = 1000 * (m + 8 * k)
        BY <1>5, <2>2, <2>3, <3>2
      <4>2. m + 8 * k \in Int
        BY <1>5, <2>2
      <4> DEFINE a == m + 8 * k  l == List(s)
      <4> HIDE DEF a, l
      <4>3. l = a * 1000 /\ a \in Int
        BY <4>1, <4>2 DEF a, l
      <4>4. (a * 1000) \div 1000 = a
        BY <4>3, Multiple
      <4>5. (l \div 1000) * 1000 = l
        BY <4>3, <4>4
      <4> QED BY <4>5 DEF l
    <3> QED BY <2>1, <3>1, <3>2
  <2>5. reg' = [reg EXCEPT !.vset = List(s) \div 1000]
    BY <1>7, <1>9 DEF SetSel, MilliVolts
  <2>6. reg'.vset = List(s) \div 1000
    BY <2>5 DEF RailRegs
  <2>7. OutUV' = reg'.vset * 1000
    BY <1>1, <1>9 DEF OutUV
  <2>8. ASSUME NEW v, NEW l, NEW u, NEW K, v = l \div K, u = v * K, (l \div K) * K = l
        PROVE  u = l
    BY <2>8, Zenon
  <2> DEFINE K == 1000  l == List(s)  v == reg'.vset  u == OutUV'
  <2>9. v = l \div K /\ u = v * K /\ (l \div K) * K = l
    BY <2>4, <2>6, <2>7
  <2> HIDE DEF K, l, v, u
  <2>10. u = l
    BY <2>8, <2>9
  <2>11. GetSel' >= 0
    <3> DEFINE p == r.spMin  x == k * d
    <3>1. GetSel' = CQuot(reg'.vset * 1000 - pts[1].spMin, pts[1].step)
      BY <1>1, <1>9 DEF GetSel
    <3>2. GetSel' = CQuot(u - p, d)
      BY <2>1, <2>7, <3>1 DEF u
    <3>3. u = p + x /\ p \in Int /\ x \in Int /\ x >= 0 /\ d \in Nat \ {0} /\ k \in Int /\ k >= 0
      <4>1. l = p + x
        BY <1>4, <1>5 DEF l
      <4>2. x \in Int /\ x >= 0
        BY <1>2, <1>5, <2>1
      <4> QED BY <1>2, <1>5, <2>1, <2>10, <4>1, <4>2
    <3> HIDE DEF p, d
    <3>4. x \div d = k
      BY <3>3, Multiple
    <3> HIDE DEF x
    <3>5. u - p = x
      BY <3>3
    <3>6. CQuot(x, d) = k
      BY <3>3, <3>4 DEF CQuot
    <3> QED BY <3>2, <3>3, <3>5, <3>6
  <2> QED BY <1>4, <2>10, <2>11 DEF l, u
<1>10. CASE Layout = "split" /\ SplitTable(pts)
  <2>1. i = 1
    BY <1>2, <1>10 DEF SplitTable
  <2>2. o = 0 /\ r.range_sel = 0 /\ r.n = 96 /\ pts[1].min = 375000 /\ d = 12500 /\ r.spMin = 375000
    BY <1>10, <2>1 DEF SplitTable
  <2>3. hw.range = 0 /\ hw.vset = k
    <3>1. (k + 0) % 256 = k
      BY <1>2, <2>2
    <3> QED BY <1>3, <2>2, <3>1
  <2> HIDE DEF hw
  <2>4. reg' = [reg EXCEPT !.vset = hw.vset]
    BY <1>7, <1>10, <2>3 DEF SetSel, hw
  <2>5. reg'.vset = k
    BY <2>3, <2>4 DEF RailRegs
  <2>6. k < ULT_SMPS_RANGE_SPLIT
    BY <1>2, <2>2 DEF ULT_SMPS_RANGE_SPLIT
  <2>7. OutUV' = pts[1].min + k * pts[1].step
    BY <1>1, <1>10, <2>5, <2>6 DEF OutUV
  <2>8. ASSUME GetSel >= 0 PROVE GetSel' >= 0
    <3> DEFINE f == spmi_regulator_find_range
    <3>1. f = 0 \/ (f \in 1..Len(pts) /\ pts[f].range_sel = reg.range)
      BY <1>10, FindsRange, RangesApart
    <3>2. f # 0
      BY <1>10, <2>8 DEF GetSel, EINVAL
    <3>3. f # 2
      <4> SUFFICES ASSUME f = 2 PROVE FALSE
        OBVIOUS
      <4>1. \E x : GetSel = spmi_hw_selector_to_sw(pts, x, 2)
        BY <1>10 DEF GetSel
      <4> QED BY <1>10, <2>8, <4>1 DEF spmi_hw_selector_to_sw, SplitTable, EINVAL
    <3>4. reg.range = pts[1].range_sel /\ 1 \in 1..Len(pts)
      BY <1>10, <3>1, <3>2, <3>3 DEF SplitTable
    <3> HIDE DEF f
    <3>5. reg'.range = reg.range
      BY <2>4 DEF RailRegs
    <3>6. spmi_regulator_find_range' = 1
      BY <1>1, <1>10, <3>4, <3>5, HoldsRange, RangesApart
    <3>7. Max({1, 1}) = 1
      BY TopOf
    <3>8. GetSel' = spmi_hw_selector_to_sw(pts, k, 1)
      BY <1>1, <1>10, <2>1, <2>2, <2>5, <3>6, <3>7 DEF GetSel
    <3>9. Even(pts[1]) /\ k \in Nat /\ k - Offset(pts[1]) = k
      BY <1>2, <1>10, <2>1, <2>2 DEF SplitTable, Even
    <3> QED BY <1>2, <2>1, <3>4, <3>8, <3>9, Decodes
  <2> QED BY <1>5, <2>1, <2>2, <2>7, <2>8
<1> QED BY <1>6, <1>8, <1>9, <1>10 DEF Placed

(* The codes of a layout's voltage register.                                 *)
Code(n) == n \in Nat /\ n <= IF Layout = "mv" THEN 65535 ELSE 255

LEMMA InMillivolts ==
  ASSUME NEW l \in Nat, l <= 65535000 PROVE l \div 1000 \in Nat /\ l \div 1000 <= 65535
OBVIOUS

LEMMA FitsByte == ASSUME NEW x \in Int PROVE x % 256 \in 0 .. 255
OBVIOUS

(* What is written is a code, and the SAW changes no range.                  *)
LEMMA Writes ==
  ASSUME Placed, LeaderFirst, row.points # "none", "late" \notin SawFaults,
         NEW S, reg \in RailRegs(S),
         NEW s, NEW i, NEW k, Names(pts, s, i, k), NEW g \in SetVoltageSel(s)
  PROVE  Code(g.vset) /\ (Leader => g.range = reg.range)
<1> DEFINE hw == spmi_sw_selector_to_hw(pts, s)
           r == pts[i]
<1>1. Counted(pts) /\ i \in 1..Len(pts) /\ k \in 0..(r.n - 1)
  BY DEF Placed, RangeTable, SingleTable, MilliTable, SplitTable, Gapless, Names
<1>2. hw = [range |-> r.range_sel, vset |-> (k + Offset(r)) % 256]
  BY <1>1, HardwareAt
<1>3. ASSUME Layout # "mv" PROVE hw.range = r.range_sel /\ hw.vset \in 0..255
  <2>1. k \in Int
    BY <1>1 DEF Counted
  <2>2. Offset(r) \in Int
    <3>1. CASE Layout = "split" /\ SplitTable(pts)
      <4>1. i = 1
        <5>1. i = 2 => FALSE
          BY <1>1, <3>1 DEF SplitTable
        <5> QED BY <1>1, <3>1, <5>1 DEF SplitTable
      <4> QED BY <3>1, <4>1 DEF SplitTable
    <3>2. CASE Gapless(pts)
      BY <1>1, <3>2 DEF Gapless, Even
    <3> QED BY <1>3, <3>1, <3>2 DEF Placed, RangeTable, SingleTable
  <2> DEFINE x == k + Offset(r)
  <2>3. x \in Int
    BY <2>1, <2>2
  <2> HIDE DEF x
  <2>4. x % 256 \in 0..255
    BY <2>3, FitsByte
  <2> QED BY <1>2, <2>4 DEF x
<1>4. CASE Layout = "range"
  <2> HIDE DEF hw
  <2>1. CASE Leader
    <3>1. g = [reg EXCEPT !.vset = hw.vset]
      BY <2>1 DEF SetVoltageSel, spmi_saw_set_vdd, hw
    <3>2. g.vset = hw.vset /\ g.range = reg.range
      BY <3>1 DEF RailRegs
    <3> QED BY <1>3, <1>4, <3>2 DEF Code
  <2>2. CASE ~Leader
    <3>1. g = [reg EXCEPT !.range = hw.range, !.vset = hw.vset]
      BY <1>4, <2>2 DEF SetVoltageSel, SetSel, hw
    <3>2. g.vset = hw.vset
      BY <3>1 DEF RailRegs
    <3> QED BY <1>3, <1>4, <2>2, <3>2 DEF Code
  <2> QED BY <2>1, <2>2
<1>5. ASSUME Layout # "range" PROVE g = SetSel(s) /\ ~Leader
  BY <1>5 DEF SetVoltageSel, LeaderFirst
<1>6. CASE Layout = "single"
  <2>1. s \in Int
    BY <1>1, OneRange
  <2>2. g = [reg EXCEPT !.vset = s % 256]
    BY <1>5, <1>6 DEF SetSel
  <2>3. g.vset = s % 256
    BY <2>2 DEF RailRegs
  <2> QED BY <1>5, <1>6, <2>1, <2>3, FitsByte DEF Code
<1>7. CASE Layout = "split" /\ SplitTable(pts)
  <2>1. i = 1 /\ r.range_sel = 0
    BY <1>1, <1>7 DEF SplitTable
  <2> HIDE DEF hw
  <2>2. g = [reg EXCEPT !.vset = hw.vset]
    BY <1>3, <1>5, <1>7, <2>1 DEF SetSel, hw
  <2>3. g.vset = hw.vset
    BY <2>2 DEF RailRegs
  <2> QED BY <1>3, <1>5, <1>7, <2>3 DEF Code
<1>8. CASE Layout = "mv" /\ MilliTable(pts)
  <2>1. List(s) = k * r.step + r.spMin
    BY <1>1, ListAt DEF List
  <2>2. /\ r.spMin \in Nat /\ r.step \in Nat \ {0} /\ k \in Int /\ r.n \in Nat /\ k >= 0 /\ k <= r.n - 1
        /\ r.spMax = r.spMin + (r.n - 1) * r.step /\ r.spMax <= 65535000
    BY <1>1, <1>8 DEF MilliTable, Gapless, Even
  <2>3. List(s) \in Nat /\ List(s) <= 65535000
    <3> DEFINE e == r.step  u == r.spMin  n == r.n
    <3> HIDE DEF e, u, n, r
    <3>1. k * e <= (n - 1) * e /\ k * e \in Nat /\ (n - 1) * e \in Int
      <4>1. k <= n - 1 <=> k * e <= (n - 1) * e
        BY <2>2, OnGrid DEF e, n
      <4>2. k * e \in Int /\ (n - 1) * e \in Int
        BY <2>2 DEF e, n
      <4>3. k * e >= 0
        BY <2>2 DEF e
      <4> QED BY <2>2, <4>1, <4>2, <4>3 DEF n
    <3> DEFINE x == k * e  y == (n - 1) * e
    <3>2. List(s) = x + u /\ y + u <= 65535000 /\ x <= y /\ x \in Nat /\ u \in Nat /\ y \in Int
      BY <2>1, <2>2, <3>1 DEF e, u, n
    <3> HIDE DEF x, y
    <3> QED BY <3>2
  <2>4. g = [reg EXCEPT !.vset = List(s) \div 1000]
    BY <1>5, <1>8 DEF SetSel, MilliVolts
  <2>5. g.vset = List(s) \div 1000
    BY <2>4 DEF RailRegs
  <2>6. List(s) \div 1000 \in Nat /\ List(s) \div 1000 <= 65535
    BY <2>3, InMillivolts
  <2> QED BY <1>5, <1>8, <2>5, <2>6 DEF Code
<1> QED BY <1>4, <1>6, <1>7, <1>8 DEF Placed

(* A granted request is a set point of it.                                   *)
LEMMA Grants ==
  ASSUME Placed, row.points # "none", NEW lo \in Int, NEW hi \in Int, Granted(lo, hi)
  PROVE  \E i, k : Names(pts, MapVoltage(lo, hi), i, k) /\ PointUV(pts, i, k) \in lo..hi
<1> DEFINE s == MapVoltage(lo, hi)
<1>1. s = EINVAL \/ Meets(pts, s, lo, hi, Len(pts))
  BY Maps
<1>2. s >= 0
  BY DEF Granted
<1> HIDE DEF s
<1>3. Meets(pts, s, lo, hi, Len(pts))
  BY <1>1, <1>2 DEF EINVAL
<1> QED BY <1>3 DEF Meets, s

(* A request is met by what the rail puts out from then on, and the rail can *)
(* be read.                                                                  *)
LEMMA SetVoltageMeets ==
  ASSUME Placed, LeaderFirst, "late" \notin SawFaults, NEW S, reg \in RailRegs(S),
         NEW R, NEW D, NEW M, want \in [lo : R, hi : R, mode : M, dt : D],
         NEW lo \in Int, NEW hi \in Int, SetVoltage(lo, hi)
  PROVE  RequestMet' /\ Readable' /\ Code(reg'.vset) /\ (Leader => reg'.range = reg.range)
<1>1. /\ row.points # "none" /\ row' = row /\ Granted(lo, hi)
      /\ reg' \in SetVoltageSel(MapVoltage(lo, hi))
      /\ want' = [want EXCEPT !.lo = lo, !.hi = hi]
  BY DEF SetVoltage
<1>2. PICK i, k : Names(pts, MapVoltage(lo, hi), i, k) /\ PointUV(pts, i, k) \in lo..hi
  BY <1>1, Grants
<1>3. Settable(MapVoltage(lo, hi))
  BY <1>1 DEF Granted
<1>4. OutUV' = PointUV(pts, i, k) /\ (GetSel >= 0 => GetSel' >= 0)
  BY <1>1, <1>2, <1>3, Puts
<1>5. want'.lo = lo /\ want'.hi = hi
  BY <1>1
<1>6. RequestMet'
  BY <1>2, <1>4, <1>5 DEF RequestMet
<1>7. Readable'
  BY <1>1, <1>4 DEF SetVoltage, Readable, HasTime
<1> QED BY <1>1, <1>2, <1>6, <1>7, Writes

(* A selector lists the voltage of its set point, or none.                   *)
LEMMA Lists ==
  ASSUME NEW q, Counted(q), \A i \in 1..Len(q) : q[i].step \in Int /\ q[i].spMin \in Int,
         NEW sel \in Int
  PROVE  LET v == spmi_regulator_common_list_voltage(q, sel)
         IN v \in Int /\ (v # 0 => \E i, k : Names(q, sel, i, k))
<1> DEFINE in == {i \in DOMAIN q : sel >= Before(q, i) /\ sel - Before(q, i) < q[i].n}
           v == spmi_regulator_common_list_voltage(q, sel)
<1>1. v = 0 \/ (sel >= 0 /\ in # {})
  BY DEF spmi_regulator_common_list_voltage
<1>2. CASE sel >= 0 /\ in # {}
  <2>1. PICK i \in 1..Len(q) : sel >= Before(q, i) /\ sel - Before(q, i) < q[i].n
    BY <1>2 DEF Counted
  <2>2. Before(q, i) \in Nat /\ q[i].n \in Nat
    BY BeforeSums DEF Counted
  <2> DEFINE k == sel - Before(q, i)
  <2>3. k \in 0..(q[i].n - 1) /\ sel = Before(q, i) + k /\ k \in Int
    BY <2>1, <2>2
  <2>4. Names(q, sel, i, k)
    BY <2>3 DEF Names
  <2>5. v = k * q[i].step + q[i].spMin
    BY <2>4, ListAt
  <2> HIDE DEF v, k
  <2>6. v \in Int
    BY <2>3, <2>5
  <2> QED BY <2>4, <2>6 DEF v
<1> HIDE DEF v
<1>3. CASE v = 0
  BY <1>3 DEF v
<1> QED BY <1>1, <1>2, <1>3

LEMMA TablesCounted ==
  ASSUME Placed, row.points # "none"
  PROVE  Counted(pts) /\ \A i \in 1..Len(pts) : pts[i].step \in Nat \ {0} /\ pts[i].spMin \in Int
<1>1. CASE SplitTable(pts)
  <2>1. Counted(pts) /\ Len(pts) = 2
    BY <1>1 DEF SplitTable
  <2>2. pts[1].step \in Nat \ {0} /\ pts[2].step \in Nat \ {0}
    BY <1>1 DEF SplitTable
  <2>3. pts[1].spMin \in Int /\ pts[2].spMin \in Int
    BY <1>1 DEF SplitTable
  <2>4. \A i \in 1..2 : i = 1 \/ i = 2
    OBVIOUS
  <2> QED BY <2>1, <2>2, <2>3, <2>4
<1>2. CASE Gapless(pts)
  BY <1>2 DEF Gapless, Even
<1> QED BY <1>1, <1>2 DEF Placed, RangeTable, SingleTable, MilliTable

(* The quotient that C rounds towards zero is less than a step away.         *)
LEMMA NearQuotient ==
  ASSUME NEW x \in Int, NEW d \in Nat \ {0}
  PROVE  LET c == CQuot(x, d)
         IN c \in Int /\ (c >= 0 => c * d - x > -d /\ c * d - x < d)
<1>1. CASE x >= 0
  <2> DEFINE c == x \div d  y == c * d
  <2>1. c \in Int /\ y <= x /\ x < y + d
    BY Quotient
  <2>2. y \in Int
    <3> HIDE DEF c
    <3> QED BY <2>1
  <2>3. CQuot(x, d) = c
    BY <1>1 DEF CQuot
  <2> HIDE DEF c, y
  <2>4. y - x > -d /\ y - x < d
    BY <2>1, <2>2
  <2> QED BY <2>1, <2>3, <2>4 DEF y
<1>2. CASE x < 0
  <2> DEFINE c == (-x) \div d  y == c * d
  <2>1. c \in Int /\ y <= -x /\ -x < y + d
    BY Quotient
  <2>2. CQuot(x, d) = -c
    BY <1>2 DEF CQuot
  <2> HIDE DEF c
  <2>3. c >= 0
    <3> SUFFICES ASSUME c <= -1 PROVE FALSE
      BY <2>1
    <3>1. c <= -1 <=> c * d <= (-1) * d
      BY <2>1, OnGrid
    <3>2. (-1) * d = -d /\ y \in Int
      BY <2>1
    <3> HIDE DEF y
    <3> QED BY <1>2, <2>1, <3>1, <3>2 DEF y
  <2>4. -c >= 0 => c = 0
    BY <2>1, <2>3
  <2>5. c = 0 => (-c) * d = 0 /\ y = 0
    BY <2>1
  <2> HIDE DEF y
  <2> QED BY <1>2, <2>1, <2>2, <2>4, <2>5
<1> QED BY <1>1, <1>2

(* What is read back is what the rail puts out.                              *)
LEMMA Reads ==
  ASSUME Placed, row.points # "none", Code(reg.vset)
  PROVE  /\ GetSel \in Int
         /\ List(GetSel) \in Int
         /\ GetSel >= 0 /\ List(GetSel) # 0 =>
              LET off == List(GetSel) - OutUV
              IN IF Layout = "mv" THEN off > -pts[1].step /\ off < pts[1].step ELSE off = 0
<1> DEFINE s == GetSel
           i == spmi_regulator_find_range
           c == reg.vset
<1>1. /\ Counted(pts) /\ \A j \in 1..Len(pts) : pts[j].step \in Nat \ {0} /\ pts[j].spMin \in Int
      /\ c \in Nat
  BY TablesCounted DEF Code
<1>2. ASSUME s \in Int
      PROVE  List(s) \in Int /\ (List(s) # 0 => \E j, k : Names(pts, s, j, k))
  <2>1. \A j \in 1..Len(pts) : pts[j].step \in Int /\ pts[j].spMin \in Int
    BY <1>1
  <2> HIDE DEF s
  <2> QED BY <1>1, <1>2, <2>1, Lists DEF List
<1>3. ASSUME NEW j, NEW k, Names(pts, s, j, k) PROVE List(s) = PointUV(pts, j, k) /\ s \in Int
  <2>1. List(s) = k * pts[j].step + pts[j].spMin /\ s \in Int
    BY <1>1, <1>3, ListAt, OneRange DEF List
  <2>2. j \in 1..Len(pts) /\ k \in Int
    BY <1>1, <1>3 DEF Names, Counted
  <2>3. pts[j].step \in Int /\ pts[j].spMin \in Int
    BY <1>1, <2>2
  <2> DEFINE e == pts[j].step  u == pts[j].spMin
  <2> HIDE DEF e, u
  <2>4. k * e + u = u + k * e
    BY <2>2, <2>3 DEF e, u
  <2> QED BY <2>1, <2>4 DEF PointUV, e, u
<1>4. CASE Layout = "range" /\ RangeTable(pts)
  <2>1. i = 0 \/ i \in 1..Len(pts)
    BY <1>4, FindsRange, RangesApart
  <2>2. CASE i = 0
    <3>1. s = EINVAL
      BY <1>4, <2>2 DEF GetSel
    <3> QED BY <1>2, <3>1 DEF EINVAL
  <2>3. CASE i \in 1..Len(pts)
    <3>1. s = spmi_hw_selector_to_sw(pts, c, i) /\ i # 0
      BY <1>4, <2>3 DEF GetSel
    <3>2. OutUV = pts[i].min + c * pts[i].step
      BY <1>4, <3>1 DEF OutUV
    <3>3. Even(pts[i])
      BY <1>4, <2>3 DEF RangeTable, Gapless
    <3> DEFINE k == c - Offset(pts[i])
    <3>4. s = EINVAL \/ (Names(pts, s, i, k) /\ PointUV(pts, i, k) = pts[i].min + c * pts[i].step)
      BY <1>1, <2>3, <3>1, <3>3, Decodes
    <3> HIDE DEF k, s, i
    <3>5. CASE s = EINVAL
      BY <1>2, <3>5 DEF EINVAL, s
    <3>6. CASE Names(pts, s, i, k) /\ PointUV(pts, i, k) = pts[i].min + c * pts[i].step
      <4>1. List(s) = OutUV /\ s \in Int
        BY <1>3, <3>2, <3>6
      <4>2. List(s) \in Int
        BY <1>2, <4>1
      <4> QED BY <1>4, <4>1, <4>2 DEF s
    <3> QED BY <3>4, <3>5, <3>6
  <2> QED BY <2>1, <2>2, <2>3
<1>5. CASE Layout = "single" /\ SingleTable(pts)
  <2>1. s = c
    BY <1>5 DEF GetSel
  <2>2. OutUV = pts[1].min + c * pts[1].step
    BY <1>5 DEF OutUV
  <2>3. pts[1].spMin = pts[1].min /\ 1 \in 1..Len(pts)
    <3> DEFINE d == pts[1].step  m == pts[1].min
    <3>1. pts[1].spMin = m + Offset(pts[1]) * d /\ m \in Nat /\ d \in Nat /\ Offset(pts[1]) = 0
      BY <1>5 DEF SingleTable, Gapless, Even
    <3> HIDE DEF d, m
    <3>2. 0 * d = 0
      BY <3>1
    <3>3. pts[1].spMin = m
      BY <3>1, <3>2
    <3> QED BY <1>5, <3>3 DEF SingleTable, m
  <2>4. List(s) # 0 => List(s) = OutUV
    <3> SUFFICES ASSUME NEW j, NEW k, Names(pts, s, j, k) PROVE List(s) = OutUV
      BY <1>1, <1>2, <2>1
    <3>1. j = 1
      BY <1>5 DEF Names, SingleTable
    <3>2. s = k
      <4>1. Before(pts, 1) = 0 /\ k \in Int
        BY <1>1, <3>1, BeforeSums DEF Names, Counted
      <4> QED BY <3>1, <4>1 DEF Names
    <3>3. List(s) = pts[1].spMin + k * pts[1].step
      BY <1>3, <3>1 DEF PointUV
    <3> QED BY <2>1, <2>2, <2>3, <3>2, <3>3
  <2>5. s \in Int /\ List(s) \in Int
    BY <1>1, <1>2, <2>1
  <2> HIDE DEF s
  <2> QED BY <1>5, <2>4, <2>5 DEF s
<1>6. CASE Layout = "split" /\ SplitTable(pts)
  <2>1. i = 0 \/ (i \in 1..Len(pts) /\ pts[i].range_sel = reg.range)
    BY <1>6, FindsRange, RangesApart
  <2>2. CASE i = 0
    <3>1. s = EINVAL
      BY <1>6, <2>2 DEF GetSel
    <3> QED BY <1>2, <3>1 DEF EINVAL
  <2>3. CASE i = 2
    <3>1. \E x : s = spmi_hw_selector_to_sw(pts, x, 2)
      BY <1>6, <2>3 DEF GetSel
    <3>2. s = EINVAL
      BY <1>6, <3>1 DEF spmi_hw_selector_to_sw, SplitTable
    <3> QED BY <1>2, <3>2 DEF EINVAL
  <2>4. CASE i = 1
    <3>1. s = spmi_hw_selector_to_sw(pts, c, 1)
      <4>1. i # 0 /\ Max({i, 1}) = 1
        <5>1. Max({i, 1}) \in {i, 1}
          BY <2>4, TopOf
        <5> QED BY <2>4, <5>1
      <4>2. pts[1].range_sel # 1
        BY <1>6 DEF SplitTable
      <4> QED BY <1>6, <2>4, <4>1, <4>2 DEF GetSel
    <3>2. Even(pts[1]) /\ 1 \in 1..Len(pts)
      BY <1>6 DEF SplitTable, Even
    <3> DEFINE k == c - Offset(pts[1])
    <3>3. s = EINVAL \/ (Names(pts, s, 1, k) /\ PointUV(pts, 1, k) = pts[1].min + c * pts[1].step)
      BY <1>1, <3>1, <3>2, Decodes
    <3> HIDE DEF k, s, i
    <3>4. CASE s = EINVAL
      BY <1>2, <3>4 DEF EINVAL, s
    <3>5. CASE Names(pts, s, 1, k) /\ PointUV(pts, 1, k) = pts[1].min + c * pts[1].step
      <4>1. c < ULT_SMPS_RANGE_SPLIT
        <5>1. k <= 95 /\ Offset(pts[1]) = 0 /\ k = c - 0
          BY <1>6, <3>5 DEF Names, SplitTable, k
        <5> QED BY <1>1, <5>1 DEF ULT_SMPS_RANGE_SPLIT
      <4>2. OutUV = pts[1].min + c * pts[1].step
        BY <1>6, <4>1 DEF OutUV
      <4>3. List(s) = OutUV /\ s \in Int
        BY <1>3, <3>5, <4>2
      <4>4. List(s) \in Int
        BY <1>2, <4>3
      <4> QED BY <1>6, <4>3, <4>4 DEF s
    <3> QED BY <3>3, <3>4, <3>5
  <2> QED BY <1>6, <2>1, <2>2, <2>3, <2>4 DEF SplitTable
<1>7. CASE Layout = "mv" /\ MilliTable(pts)
  <2> DEFINE d == pts[1].step  m == pts[1].spMin  x == c * 1000 - m
  <2>1. s = CQuot(x, d)
    BY <1>7 DEF GetSel
  <2>2. d \in Nat \ {0} /\ m \in Int /\ x \in Int
    BY <1>1, <1>7 DEF MilliTable
  <2>3. OutUV = c * 1000 /\ c * 1000 \in Int
    BY <1>1, <1>7 DEF OutUV
  <2>4. x = OutUV - m /\ OutUV \in Int
    BY <2>3
  <2> HIDE DEF s, d, m, x, c
  <2>5. s \in Int /\ (s >= 0 => s * d - x > -d /\ s * d - x < d)
    BY <2>1, <2>2, NearQuotient
  <2>6. ASSUME List(s) # 0, s >= 0 PROVE List(s) - OutUV > -d /\ List(s) - OutUV < d
    <3>1. PICK j, k : Names(pts, s, j, k)
      BY <1>2, <2>5, <2>6
    <3>2. j = 1
      BY <1>7, <3>1 DEF Names, MilliTable
    <3>3. s = k
      <4>1. Before(pts, 1) = 0 /\ k \in Int
        BY <1>1, <3>1, <3>2, BeforeSums DEF Names, Counted
      <4> QED BY <3>1, <3>2, <4>1 DEF Names
    <3>4. List(s) = m + s * d
      BY <1>3, <3>1, <3>2, <3>3 DEF PointUV, d, m
    <3> DEFINE y == s * d
    <3>5. y \in Int /\ y - x > -d /\ y - x < d /\ List(s) = m + y
      BY <2>2, <2>5, <2>6, <3>4
    <3> HIDE DEF y
    <3> QED BY <2>2, <2>4, <3>5
  <2> QED BY <1>2, <1>7, <2>5, <2>6 DEF s, d
<1> QED BY <1>4, <1>5, <1>6, <1>7 DEF Placed

(* The ranges that have set points.                                          *)
LEMMA FilledEven ==
  ASSUME Placed, row.points # "none", NEW i \in 1..Len(pts), pts[i].n > 0
  PROVE  Even(pts[i])
<1>1. CASE SplitTable(pts)
  <2>1. i = 1
    <3>1. i = 1 \/ i = 2
      BY <1>1 DEF SplitTable
    <3>2. i = 2 => pts[i].n = 0
      BY <1>1 DEF SplitTable
    <3> QED BY <3>1, <3>2
  <2>2. Even(pts[1])
    BY <1>1 DEF SplitTable, Even
  <2> QED BY <2>1, <2>2
<1>2. CASE Gapless(pts)
  BY <1>2 DEF Gapless
<1> QED BY <1>1, <1>2 DEF Placed, RangeTable, SingleTable, MilliTable

LEMMA MarksInt ==
  ASSUME Placed, row.points # "none"
  PROVE  Marks \subseteq Int
<1>1. ASSUME NEW i \in {j \in DOMAIN pts : pts[j].n > 0}
      PROVE  {pts[i].spMin - 1, pts[i].spMin, pts[i].spMin + pts[i].step + 1,
              pts[i].spMax, pts[i].spMax + 1} \subseteq Int
  <2>1. i \in 1..Len(pts)
    BY TablesCounted DEF Counted
  <2>2. Even(pts[i])
    BY <1>1, <2>1, FilledEven
  <2> DEFINE x == (pts[i].n - 1) * pts[i].step
  <2>3. pts[i].spMin \in Int /\ pts[i].step \in Int /\ pts[i].spMax = pts[i].spMin + x /\ x \in Int
    BY <2>2 DEF Even
  <2> HIDE DEF x
  <2> QED BY <2>3
<1> QED BY <1>1 DEF Marks

(* A set point in the request is one of a range.                             *)
LEMMA PointIn ==
  ASSUME Placed, row.points # "none", NEW lo \in Int, NEW hi \in Int, SetPointIn(lo, hi)
  PROVE  \E i \in 1..Len(pts) : HasPoint(pts, lo, hi, i) /\ (Leader => pts[i].range_sel = 0)
<1>1. PICK i \in DOMAIN pts :
        LET r == pts[i]
            up == Max({0, DIV_ROUND_UP(lo - r.spMin, r.step)}) * r.step + r.spMin
        IN r.n > 0 /\ up <= hi /\ up <= r.spMax /\ (Leader => r.range_sel = 0)
  BY DEF SetPointIn
<1>2. i \in 1..Len(pts)
  BY TablesCounted DEF Counted
<1> DEFINE d == pts[i].step  u == pts[i].spMin  n == pts[i].n  t == pts[i].spMax
           p == Max({0, DIV_ROUND_UP(lo - u, d)})
<1>3. /\ d \in Nat \ {0} /\ u \in Nat /\ n \in Nat \ {0} /\ t = u + (n - 1) * d
  BY <1>1, <1>2, FilledEven DEF Even
<1>4. p * d + u <= hi /\ p * d + u <= t
  BY <1>1
<1> HIDE DEF d, u, n, t
<1>5. p \in Nat /\ p * d >= lo - u
  <2> DEFINE x == lo - u
  <2>1. x \in Int
    BY <1>3
  <2> HIDE DEF x
  <2>2. LET c == Max({0, DIV_ROUND_UP(x, d)}) IN c \in Nat /\ c * d >= x
    BY <1>3, <2>1, FirstPoint
  <2> QED BY <2>2 DEF x
<1> HIDE DEF p
<1>6. p * d \in Int /\ (n - 1) * d \in Int /\ n - 1 \in Int
  BY <1>3, <1>5
<1>7. p <= n - 1
  <2> DEFINE x == p * d  b == n - 1  y == b * d
  <2>1. x \in Int /\ y \in Int /\ b \in Int /\ t = u + y /\ x + u <= t /\ u \in Nat
    BY <1>3, <1>4, <1>6
  <2> HIDE DEF x, y, b
  <2>2. x <= y
    BY <2>1
  <2>3. p <= b <=> p * d <= b * d
    BY <1>3, <1>5, <2>1, OnGrid
  <2> QED BY <2>2, <2>3 DEF x, y, b
<1>8. PointUV(pts, i, p) \in lo..hi
  <2> DEFINE x == p * d
  <2>1. x \in Int /\ x + u <= hi /\ x >= lo - u /\ u \in Nat
    BY <1>3, <1>4, <1>5, <1>6
  <2>2. PointUV(pts, i, p) = u + x
    BY DEF PointUV, d, u
  <2> HIDE DEF x
  <2>3. u + x \in lo..hi
    BY <2>1
  <2> QED BY <2>2, <2>3
<1>9. p \in 0..(n - 1)
  BY <1>3, <1>5, <1>7
<1>10. HasPoint(pts, lo, hi, i)
  BY <1>2, <1>8, <1>9 DEF HasPoint, n
<1> QED BY <1>1, <1>2, <1>10

(* A request that a set point meets is granted.                              *)
LEMMA Grantable ==
  ASSUME Placed, LeaderFirst, row.points # "none", NEW lo \in Int, NEW hi \in Int,
         SetPointIn(lo, hi)
  PROVE  Granted(lo, hi)
<1> DEFINE s == MapVoltage(lo, hi)
<1>1. PICK j \in 1..Len(pts) : HasPoint(pts, lo, hi, j) /\ (Leader => pts[j].range_sel = 0)
  BY PointIn
<1>2. Meets(pts, s, lo, hi, Len(pts))
  BY <1>1, Maps
<1>3. ASSUME Leader PROVE Meets(pts, s, lo, hi, 1) /\ pts[1].range_sel = 0
  <2>1. Layout = "range" /\ reg.range = 0 /\ pts[1].range_sel = 0
    BY <1>3 DEF LeaderFirst
  <2>2. RangeTable(pts)
    BY <2>1 DEF Placed
  <2>3. j = 1
    <3>1. 1 \in 1..Len(pts)
      BY <1>1, TablesCounted DEF Counted
    <3> QED BY <1>1, <1>3, <2>1, <2>2, <3>1 DEF RangeTable
  <2> QED BY <1>1, <2>1, <2>3, Maps
<1> HIDE DEF s
<1>4. Counted(pts) /\ \A i \in 1..Len(pts) : pts[i].step \in Nat \ {0} /\ pts[i].spMin \in Int
  BY TablesCounted
<1>5. s >= 0 /\ List(s) \in lo..hi
  <2>1. PICK i \in 1..Len(pts) : \E k : Names(pts, s, i, k) /\ PointUV(pts, i, k) \in lo..hi
    BY <1>2 DEF Meets
  <2>2. PICK k : Names(pts, s, i, k) /\ PointUV(pts, i, k) \in lo..hi
    BY <2>1
  <2>3. s \in Nat /\ List(s) = k * pts[i].step + pts[i].spMin
    BY <1>4, <2>2, OneRange, ListAt DEF List
  <2>4. k \in Int /\ pts[i].step \in Int /\ pts[i].spMin \in Int
    BY <1>4, <2>1, <2>2 DEF Names, Counted
  <2> DEFINE e == pts[i].step  u == pts[i].spMin
  <2> HIDE DEF e, u
  <2>5. k * e + u = u + k * e
    BY <2>4 DEF e, u
  <2> QED BY <2>2, <2>3, <2>5 DEF PointUV, e, u
<1>6. Settable(s)
  <2> SUFFICES ASSUME Leader PROVE spmi_sw_selector_to_hw(pts, s).range = 0
    BY DEF Settable
  <2>1. PICK i \in 1..1 : \E k : Names(pts, s, i, k)
    BY <1>3 DEF Meets
  <2>2. PICK k : Names(pts, s, 1, k)
    BY <2>1
  <2>3. spmi_sw_selector_to_hw(pts, s).range = pts[1].range_sel
    BY <1>4, <2>2, HardwareAt
  <2> QED BY <1>3, <2>3
<1> QED BY <1>5, <1>6 DEF Granted, s

(***************************************************************************)
(* The rates, and how long a change is waited for.                         *)
(***************************************************************************)
(* The powers of two that the set-up of STEP_CTRL divides by.                *)
LEMMA Power == ASSUME NEW s \in 0..7 PROVE 2^s \in Nat /\ 1 <= 2^s /\ 2^s <= 128
<1>1. 2^0 = 1 /\ 2^1 = 2 /\ 2^2 = 4 /\ 2^3 = 8
  OBVIOUS
<1>2. 2^4 = 16 /\ 2^5 = 32 /\ 2^6 = 64 /\ 2^7 = 128
  OBVIOUS
<1>4. ASSUME NEW x \in {1, 2, 4, 8, 16, 32, 64, 128} PROVE x \in Nat /\ 1 <= x /\ x <= 128
  OBVIOUS
<1>5. 2^s \in {1, 2, 4, 8, 16, 32, 64, 128}
  <2>1. CASE s \in 0..3
    <3>1. s = 0 \/ s = 1 \/ s = 2 \/ s = 3
      BY <2>1
    <3> QED BY <1>1, <3>1
  <2>2. CASE s \in 4..7
    <3>1. s = 4 \/ s = 5 \/ s = 6 \/ s = 7
      BY <2>2
    <3>2. CASE s = 4
      BY <1>2, <3>2
    <3>3. CASE s = 5
      BY <1>2, <3>3
    <3>4. CASE s = 6
      BY <1>2, <3>4
    <3>5. CASE s = 7
      BY <1>2, <3>5
    <3> QED BY <3>1, <3>2, <3>3, <3>4, <3>5
  <2>3. s \in 0..3 \/ s \in 4..7
    OBVIOUS
  <2> QED BY <2>1, <2>2, <2>3
<1> QED BY <1>4, <1>5

LEMMA MaxTwo ==
  ASSUME NEW a \in Int, NEW b \in Int
  PROVE  Max({a, b}) = IF a >= b THEN a ELSE b
<1> DEFINE m == IF a >= b THEN a ELSE b
<1>1. m \in {a, b} /\ \A y \in {a, b} : m >= y
  OBVIOUS
<1>2. \A x \in {a, b} : (\A y \in {a, b} : x >= y) => x = m
  OBVIOUS
<1> HIDE DEF m
<1>3. Max({a, b}) = CHOOSE x \in {a, b} : \A y \in {a, b} : x >= y
  BY DEF Max
<1>4. (CHOOSE x \in {a, b} : \A y \in {a, b} : x >= y) = m
  BY <1>1, <1>2
<1> QED BY <1>3, <1>4 DEF m

LEMMA QuotientRises ==
  ASSUME NEW a \in Nat, NEW b \in Nat, a <= b, NEW m \in Nat \ {0}
  PROVE  a \div m \in Nat /\ b \div m \in Nat /\ a \div m <= b \div m
<1> DEFINE x == a \div m  y == b \div m
<1>1. x \in Int /\ x * m <= a /\ a < x * m + m
  BY Quotient
<1>2. y \in Int /\ y * m <= b /\ b < y * m + m
  BY Quotient
<1>3. x >= 0 /\ y >= 0
  OBVIOUS
<1> HIDE DEF x, y
<1> DEFINE p == x * m  q == y * m
<1>4. p \in Int /\ q \in Int
  BY <1>1, <1>2
<1>5. p < q + m <=> x <= y
  BY <1>1, <1>2, OnGrid
<1> HIDE DEF p, q
<1>6. p < q + m
  BY <1>1, <1>2, <1>4 DEF p, q
<1> QED BY <1>1, <1>2, <1>3, <1>5, <1>6 DEF x, y

(* A divisor of at least l leaves no more than an l-th.                      *)
LEMMA QuotientSmall ==
  ASSUME NEW a \in Nat, NEW m \in Nat, NEW l \in Nat \ {0}, l <= m
  PROVE  a \div m \in Nat /\ l * (a \div m) <= a
<1> DEFINE x == a \div m
<1>1. m \in Nat \ {0}
  OBVIOUS
<1>2. x \in Int /\ x * m <= a
  BY <1>1, Quotient
<1>3. x >= 0
  BY <1>1
<1> HIDE DEF x
<1>4. l * x <= x * m
  <2>1. x * (m - l) >= 0 /\ x * (m - l) = x * m - x * l /\ x * l = l * x
    BY <1>2, <1>3
  <2>2. x * m \in Int /\ x * l \in Int
    BY <1>2
  <2> DEFINE p == x * m  q == x * l
  <2> HIDE DEF p, q
  <2> QED BY <2>1, <2>2 DEF p, q
<1>5. l * x \in Int /\ x * m \in Int
  BY <1>2
<1> DEFINE p == x * m  q == l * x
<1> HIDE DEF p, q
<1> QED BY <1>2, <1>3, <1>4, <1>5 DEF p, q, x

LEMMA ProductRises ==
  ASSUME NEW a \in Nat, NEW b \in Nat, a <= b, NEW c \in Nat
  PROVE  a * c \in Nat /\ b * c \in Nat /\ a * c <= b * c
<1>1. (b - a) * c >= 0 /\ (b - a) * c = b * c - a * c
  OBVIOUS
<1>2. a * c \in Nat /\ b * c \in Nat
  OBVIOUS
<1> DEFINE p == a * c  q == b * c
<1> HIDE DEF p, q
<1> QED BY <1>1, <1>2 DEF p, q

(* The slower a ramp is taken to be, the longer it is waited for.            *)
LEMMA SlowerWaits ==
  ASSUME NEW n \in Nat, NEW r \in Nat \ {0}, NEW R \in Nat, r <= R
  PROVE  DIV_ROUND_UP(n, r) >= DIV_ROUND_UP(n, R)
<1> DEFINE a == DIV_ROUND_UP(n, r)  b == DIV_ROUND_UP(n, R)
<1>1. a \in Nat /\ n <= a * r
  BY RoundsUp
<1>2. b \in Nat /\ b * R < n + R
  BY RoundsUp
<1> HIDE DEF a, b
<1>3. a * r <= a * R /\ a * r \in Int /\ a * R \in Int /\ b * R \in Int
  <2>1. r * a \in Nat /\ R * a \in Nat /\ r * a <= R * a
    BY <1>1, ProductRises
  <2>2. r * a = a * r /\ R * a = a * R
    BY <1>1
  <2>3. b * R \in Int
    BY <1>2
  <2> DEFINE p == a * r  q == a * R  s == b * R
  <2> HIDE DEF p, q, s
  <2> QED BY <2>1, <2>2, <2>3 DEF p, q, s
<1> DEFINE p == a * r  q == a * R  s == b * R
<1>4. s < q + R <=> b <= a
  BY <1>1, <1>2, OnGrid
<1> HIDE DEF p, q, s
<1>5. s < q + R
  BY <1>1, <1>2, <1>3 DEF p, q, s
<1> QED BY <1>1, <1>2, <1>4, <1>5 DEF a, b

Ctrl == reg.ctrl.step \in 0..3 /\ reg.ctrl.delay \in 0..7

(* A clock of so many ticks, slowed down.                                    *)
LEMMA StepRises ==
  ASSUME NEW P \in Nat, NEW m \in Nat \ {0}, NEW a \in Nat, NEW b \in Nat, a <= b
  PROVE  LET f(u) == (((19200 * u) \div 1000) * P) \div m
         IN f(a) \in Nat /\ f(b) \in Nat /\ f(a) <= f(b)
<1> DEFINE x == (19200 * a) \div 1000  y == (19200 * b) \div 1000
<1>1. x \in Nat /\ y \in Nat /\ x <= y
  <2> DEFINE v == 19200 * a  w == 19200 * b
  <2>1. v \in Nat /\ w \in Nat /\ v <= w
    OBVIOUS
  <2> HIDE DEF v, w
  <2>2. v \div 1000 \in Nat /\ w \div 1000 \in Nat /\ v \div 1000 <= w \div 1000
    BY <2>1, QuotientRises
  <2> QED BY <2>2 DEF v, w
<1> HIDE DEF x, y
<1> DEFINE p == x * P  q == y * P
<1>2. p \in Nat /\ q \in Nat /\ p <= q
  BY <1>1, ProductRises
<1> HIDE DEF p, q
<1>3. p \div m \in Nat /\ q \div m \in Nat /\ p \div m <= q \div m
  BY <1>2, QuotientRises
<1> QED BY <1>3 DEF p, q, x, y

LEMMA ClockRises ==
  ASSUME NEW c \in Nat, NEW m \in Nat \ {0}, NEW a \in Nat, NEW b \in Nat, a <= b
  PROVE  LET f(u) == (c * u) \div m
         IN f(a) \in Nat /\ f(b) \in Nat /\ f(a) <= f(b)
<1> DEFINE p == a * c  q == b * c
<1>1. p \in Nat /\ q \in Nat /\ p <= q
  BY ProductRises
<1>2. p = c * a /\ q = c * b
  OBVIOUS
<1> HIDE DEF p, q
<1>3. p \div m \in Nat /\ q \div m \in Nat /\ p \div m <= q \div m
  BY <1>1, QuotientRises
<1> QED BY <1>2, <1>3

LEMMA Divisors ==
  ASSUME Ctrl
  PROVE  LET s == reg.ctrl.step  d == reg.ctrl.delay
         IN /\ 2^s \in Nat \ {0} /\ 2^s \in Nat
            /\ 8 * 2^d \in Nat \ {0} /\ 8 * 2^d >= 8
            /\ 20 * 2^d \in Nat \ {0} /\ 20 * 2^d >= 20
            /\ 1000 * (2 * 2^(d % 4)) \in Nat \ {0} /\ 1000 * (2 * 2^(d % 4)) >= 2000
            /\ 2^(d % 4) \in Nat \ {0} /\ 2^(d % 4) <= 128
<1> DEFINE s == reg.ctrl.step  d == reg.ctrl.delay
<1>1. s \in 0..7 /\ d \in 0..7
  BY DEF Ctrl
<1> HIDE DEF s, d
<1>2. d % 4 \in 0..7
  BY <1>1
<1> DEFINE P == 2^s  Q == 2^d  W == 2^(d % 4)
<1>3. P \in Nat /\ P >= 1 /\ Q \in Nat /\ Q >= 1 /\ W \in Nat /\ W >= 1 /\ W <= 128
  BY <1>1, <1>2, Power
<1> HIDE DEF P, Q, W
<1>4. /\ P \in Nat \ {0} /\ P \in Nat /\ 8 * Q \in Nat \ {0} /\ 8 * Q >= 8
      /\ 20 * Q \in Nat \ {0} /\ 20 * Q >= 20
      /\ 1000 * (2 * W) \in Nat \ {0} /\ 1000 * (2 * W) >= 2000
      /\ W \in Nat \ {0} /\ W <= 128
  BY <1>3
<1> QED BY <1>4 DEF P, Q, W, s, d

Stepped == row.logical \in {"ULT_LO_SMPS", "ULT_HO_SMPS", "SMPS"}
Clocked == row.logical \in {"HFSMPS", "FTSMPS3"}

(* The ramps, type by type.                                                  *)
LEMMA Ramps ==
  ASSUME NEW u
  PROVE  LET s == reg.ctrl.step  d == reg.ctrl.delay
         IN /\ row.logical = "FTSMPS" => Ramp(u) = (((19200 * u) \div 1000) * 2^s) \div (8 * 2^d)
            /\ Stepped => Ramp(u) = (((19200 * u) \div 1000) * 2^s) \div (20 * 2^d)
            /\ row.logical = "FTSMPS426" => Ramp(u) = (4800 * u) \div (1000 * (2 * 2^(d % 4)))
            /\ row.logical = "HFS430" => Ramp(u) = (1600 * u) \div (1000 * (2 * 2^(d % 4)))
            /\ Clocked => Ramp(u) = 38400 \div 2^(d % 4)
            /\ ~Stepped /\ ~Clocked /\ row.logical \notin {"FTSMPS", "FTSMPS426", "HFS430"} => Ramp(u) = 0
<1> DEFINE s == reg.ctrl.step  d == reg.ctrl.delay  l == row.logical
           A == (((19200 * u) \div 1000) * 2^s) \div (8 * 2^d)
           B == (((19200 * u) \div 1000) * 2^s) \div (20 * 2^d)
           C == (4800 * u) \div (1000 * (2 * 2^(d % 4)))
           D == (1600 * u) \div (1000 * (2 * 2^(d % 4)))
           E == 38400 \div 2^(d % 4)
<1>1. Ramp(u) = CASE l = "FTSMPS" -> A
                  [] l \in {"ULT_LO_SMPS", "ULT_HO_SMPS", "SMPS"} -> B
                  [] l = "FTSMPS426" -> C [] l = "HFS430" -> D
                  [] l \in {"HFSMPS", "FTSMPS3"} -> E [] OTHER -> 0
  BY DEF Ramp
<1> HIDE DEF A, B, C, D, E
<1>2. CASE l = "FTSMPS"
  BY <1>1, <1>2 DEF A, Stepped, Clocked
<1>3. CASE Stepped
  BY <1>1, <1>3 DEF B, Stepped, Clocked
<1>4. CASE l = "FTSMPS426"
  BY <1>1, <1>4 DEF C, Stepped, Clocked
<1>5. CASE l = "HFS430"
  BY <1>1, <1>5 DEF D, Stepped, Clocked
<1>6. CASE Clocked
  BY <1>1, <1>6 DEF E, Stepped, Clocked
<1>7. CASE ~Stepped /\ ~Clocked /\ l \notin {"FTSMPS", "FTSMPS426", "HFS430"}
  BY <1>1, <1>7 DEF Stepped, Clocked
<1> QED BY <1>2, <1>3, <1>4, <1>5, <1>6, <1>7

(* Coarser steps ramp at least as fast.                                      *)
LEMMA RampRises ==
  ASSUME Ctrl, NEW a \in Nat, NEW b \in Nat, a <= b
  PROVE  Ramp(a) \in Nat /\ Ramp(b) \in Nat /\ Ramp(a) <= Ramp(b)
<1> DEFINE P == 2^(reg.ctrl.step)  m == 8 * 2^(reg.ctrl.delay)  n == 20 * 2^(reg.ctrl.delay)
           w == 1000 * (2 * 2^(reg.ctrl.delay % 4))  e == 2^(reg.ctrl.delay % 4)
<1>1. P \in Nat /\ m \in Nat \ {0} /\ n \in Nat \ {0} /\ w \in Nat \ {0} /\ e \in Nat \ {0}
  BY Divisors
<1>2. \A u : /\ row.logical = "FTSMPS" => Ramp(u) = (((19200 * u) \div 1000) * P) \div m
             /\ Stepped => Ramp(u) = (((19200 * u) \div 1000) * P) \div n
             /\ row.logical = "FTSMPS426" => Ramp(u) = (4800 * u) \div w
             /\ row.logical = "HFS430" => Ramp(u) = (1600 * u) \div w
             /\ Clocked => Ramp(u) = 38400 \div e
             /\ ~Stepped /\ ~Clocked /\ row.logical \notin {"FTSMPS", "FTSMPS426", "HFS430"} => Ramp(u) = 0
  BY Ramps
<1> HIDE DEF P, m, n, w, e
<1>3. CASE row.logical = "FTSMPS"
  <2>1. LET f(u) == (((19200 * u) \div 1000) * P) \div m
        IN f(a) \in Nat /\ f(b) \in Nat /\ f(a) <= f(b)
    BY <1>1, StepRises
  <2>2. Ramp(a) = (((19200 * a) \div 1000) * P) \div m /\ Ramp(b) = (((19200 * b) \div 1000) * P) \div m
    BY <1>2, <1>3
  <2> DEFINE x == (((19200 * a) \div 1000) * P) \div m  y == (((19200 * b) \div 1000) * P) \div m
  <2>3. x \in Nat /\ y \in Nat /\ x <= y
    BY <2>1
  <2>4. Ramp(a) = x /\ Ramp(b) = y
    BY <2>2
  <2> HIDE DEF x, y
  <2> QED BY <2>3, <2>4
<1>4. CASE Stepped
  <2>1. LET f(u) == (((19200 * u) \div 1000) * P) \div n
        IN f(a) \in Nat /\ f(b) \in Nat /\ f(a) <= f(b)
    BY <1>1, StepRises
  <2>2. Ramp(a) = (((19200 * a) \div 1000) * P) \div n /\ Ramp(b) = (((19200 * b) \div 1000) * P) \div n
    BY <1>2, <1>4
  <2> DEFINE x == (((19200 * a) \div 1000) * P) \div n  y == (((19200 * b) \div 1000) * P) \div n
  <2>3. x \in Nat /\ y \in Nat /\ x <= y
    BY <2>1
  <2>4. Ramp(a) = x /\ Ramp(b) = y
    BY <2>2
  <2> HIDE DEF x, y
  <2> QED BY <2>3, <2>4
<1>5. CASE row.logical = "FTSMPS426"
  <2>1. LET f(u) == (4800 * u) \div w IN f(a) \in Nat /\ f(b) \in Nat /\ f(a) <= f(b)
    BY <1>1, ClockRises
  <2>2. Ramp(a) = (4800 * a) \div w /\ Ramp(b) = (4800 * b) \div w
    BY <1>2, <1>5
  <2> DEFINE x == (4800 * a) \div w  y == (4800 * b) \div w
  <2>3. x \in Nat /\ y \in Nat /\ x <= y
    BY <2>1
  <2>4. Ramp(a) = x /\ Ramp(b) = y
    BY <2>2
  <2> HIDE DEF x, y
  <2> QED BY <2>3, <2>4
<1>6. CASE row.logical = "HFS430"
  <2>1. LET f(u) == (1600 * u) \div w IN f(a) \in Nat /\ f(b) \in Nat /\ f(a) <= f(b)
    BY <1>1, ClockRises
  <2>2. Ramp(a) = (1600 * a) \div w /\ Ramp(b) = (1600 * b) \div w
    BY <1>2, <1>6
  <2> DEFINE x == (1600 * a) \div w  y == (1600 * b) \div w
  <2>3. x \in Nat /\ y \in Nat /\ x <= y
    BY <2>1
  <2>4. Ramp(a) = x /\ Ramp(b) = y
    BY <2>2
  <2> HIDE DEF x, y
  <2> QED BY <2>3, <2>4
<1>7. CASE Clocked
  <2>1. 38400 \div e \in Nat /\ 38400 \div e <= 38400 \div e
    BY <1>1, QuotientRises
  <2>2. Ramp(a) = 38400 \div e /\ Ramp(b) = 38400 \div e
    BY <1>2, <1>7
  <2> DEFINE x == 38400 \div e  y == 38400 \div e
  <2>3. x \in Nat /\ y \in Nat /\ x <= y
    BY <2>1
  <2>4. Ramp(a) = x /\ Ramp(b) = y
    BY <2>2
  <2> HIDE DEF x, y
  <2> QED BY <2>3, <2>4
<1>8. CASE ~Stepped /\ ~Clocked /\ row.logical \notin {"FTSMPS", "FTSMPS426", "HFS430"}
  BY <1>2, <1>8
<1> QED BY <1>3, <1>4, <1>5, <1>6, <1>7, <1>8

(* A rate with a margin taken off, at least one.                             *)
LEMMA Margin ==
  ASSUME NEW r \in Nat, NEW c \in Nat, NEW k \in Nat \ {0}, c <= k, r <= MaxSlewRate
  PROVE  LET v == Max({1, (r * c) \div k})
         IN v \in Nat /\ 1 <= v /\ v <= MaxSlewRate /\ v <= Max({1, r})
<1> DEFINE q == (r * c) \div k  l == MaxSlewRate
<1>1. q \in Nat /\ q <= r
  <2> DEFINE p == r * c  b == r * k
  <2>1. p \in Nat /\ b \in Nat /\ p <= b
    <3>1. c * r \in Nat /\ k * r \in Nat /\ c * r <= k * r
      BY ProductRises
    <3>2. c * r = r * c /\ k * r = r * k
      OBVIOUS
    <3> HIDE DEF p, b
    <3> QED BY <3>1, <3>2 DEF p, b
  <2>2. b \div k = r
    BY Multiple
  <2> HIDE DEF p, b
  <2>3. p \div k \in Nat /\ p \div k <= b \div k
    BY <2>1, QuotientRises
  <2> QED BY <2>2, <2>3 DEF p
<1>2. l \in Nat /\ l >= 1
  BY DEF MaxSlewRate
<1> HIDE DEF q, l
<1>3. Max({1, q}) = IF 1 >= q THEN 1 ELSE q
  BY <1>1, MaxTwo
<1>4. Max({1, r}) = IF 1 >= r THEN 1 ELSE r
  BY MaxTwo
<1>5. r <= l
  BY DEF l
<1> DEFINE v == Max({1, q})  w == Max({1, r})
<1> HIDE DEF v, w
<1>6. v \in Nat /\ 1 <= v /\ v <= l /\ v <= w
  BY <1>1, <1>2, <1>3, <1>4, <1>5 DEF v, w
<1> QED BY <1>6 DEF v, w, q, l

(* Before the products overflow, a ramp is within the bound.                 *)
LEMMA StepLimit ==
  ASSUME NEW P \in Nat, NEW m \in Nat, m >= 8, NEW u \in Nat, u * P < OverflowsAt
  PROVE  (((19200 * u) \div 1000) * P) \div m <= MaxSlewRate
<1> DEFINE v == 19200 * u  x == v \div 1000  y == x * P  z == u * P
<1>1. v \in Nat /\ x \in Nat /\ 1000 * x <= v
  <2>1. v \in Nat
    OBVIOUS
  <2> HIDE DEF v
  <2> QED BY <2>1, QuotientSmall
<1>2. 1000 * y <= 19200 * z /\ y \in Nat /\ z \in Nat
  <2> HIDE DEF x
  <2>1. x * 1000 <= u * 19200 /\ x * 1000 \in Nat /\ u * 19200 \in Nat
    BY <1>1
  <2> DEFINE a == x * 1000  b == u * 19200
  <2> HIDE DEF a, b
  <2>2. a * P \in Nat /\ b * P \in Nat /\ a * P <= b * P
    BY <2>1, ProductRises DEF a, b
  <2>3. a * P = 1000 * y /\ b * P = 19200 * z /\ y \in Nat /\ z \in Nat
    BY <1>1 DEF a, b
  <2> QED BY <2>2, <2>3
<1>3. z < 111849
  BY DEF OverflowsAt
<1> HIDE DEF x, y, z
<1>4. y <= 2147500
  BY <1>2, <1>3
<1>5. y \div m \in Nat /\ 8 * (y \div m) <= y
  BY <1>2, QuotientSmall
<1> DEFINE r == y \div m
<1> HIDE DEF r
<1>6. r <= 268438
  BY <1>2, <1>4, <1>5 DEF r
<1> QED BY <1>5, <1>6 DEF r, y, x, MaxSlewRate

(* The steps of the tables, and how the clocks of the newer types are slowed. *)
Fine(u) == u \in Nat /\ u <= 50000
Slowed(c, m) == c \in Nat /\ c <= 4800 /\ m \in Nat /\ m >= 2000

LEMMA ClockLimit ==
  ASSUME NEW c, NEW m, NEW u, Slowed(c, m), Fine(u)
  PROVE  (c * u) \div m <= MaxSlewRate
<1>0. c \in Nat /\ c <= 4800 /\ m \in Nat /\ m >= 2000 /\ u \in Nat /\ u <= 50000
  BY DEF Slowed, Fine
<1> DEFINE y == c * u
<1>1. y \in Nat /\ y <= 240000000
  <2>1. c * u \in Nat /\ 4800 * u \in Nat /\ c * u <= 4800 * u
    BY <1>0, ProductRises
  <2> HIDE DEF y
  <2> QED BY <1>0, <2>1 DEF y
<1> HIDE DEF y
<1>2. y \div m \in Nat /\ 2000 * (y \div m) <= y
  BY <1>0, <1>1, QuotientSmall
<1> DEFINE r == y \div m
<1> HIDE DEF r
<1>3. r <= 120000
  BY <1>1, <1>2 DEF r
<1> QED BY <1>2, <1>3 DEF r, y, MaxSlewRate

LEMMA Rates ==
  ASSUME NEW u
  PROVE  /\ row.logical = "FTSMPS" \/ Stepped => SlewRate(u) = spmi_regulator_init_slew_rate(u)
         /\ row.logical \in {"FTSMPS426", "HFS430"} => SlewRate(u) = spmi_regulator_init_slew_rate_ftsmps426(u)
         /\ Clocked => SlewRate(u) = Ramp(0)
         /\ ~Stepped /\ ~Clocked /\ row.logical \notin {"FTSMPS", "FTSMPS426", "HFS430"} => SlewRate(u) = 0
<1> DEFINE l == row.logical
           A == spmi_regulator_init_slew_rate(u)
           B == spmi_regulator_init_slew_rate_ftsmps426(u)
           C == Ramp(0)
<1>1. SlewRate(u) = CASE l \in {"FTSMPS", "ULT_LO_SMPS", "ULT_HO_SMPS", "SMPS"} -> A
                      [] l \in {"FTSMPS426", "HFS430"} -> B
                      [] l \in {"HFSMPS", "FTSMPS3"} -> C [] OTHER -> 0
  BY DEF SlewRate, spmi_regulator_init_slew_rate_hfsmps
<1> HIDE DEF A, B, C
<1>2. CASE l = "FTSMPS" \/ Stepped
  BY <1>1, <1>2 DEF A, Stepped, Clocked
<1>3. CASE l \in {"FTSMPS426", "HFS430"}
  BY <1>1, <1>3 DEF B, Stepped, Clocked
<1>4. CASE Clocked
  BY <1>1, <1>4 DEF C, Stepped, Clocked
<1>5. CASE ~Stepped /\ ~Clocked /\ l \notin {"FTSMPS", "FTSMPS426", "HFS430"}
  BY <1>1, <1>5 DEF Stepped, Clocked
<1> QED BY <1>2, <1>3, <1>4, <1>5

(* The rate is never zero where it is divided by, and never above the ramp.  *)
LEMMA RateSlow ==
  ASSUME Ctrl, NEW u, Fine(u),
         \/ row.logical = "FTSMPS" \/ Stepped \/ Clocked \/ row.logical \in {"FTSMPS426", "HFS430"}
  PROVE  LET v == SlewRate(u)
         IN v \in Nat /\ 1 <= v /\ v <= MaxSlewRate /\ v <= Max({1, Ramp(u)})
<1> DEFINE P == 2^(reg.ctrl.step)  m == 8 * 2^(reg.ctrl.delay)  n == 20 * 2^(reg.ctrl.delay)
           w == 1000 * (2 * 2^(reg.ctrl.delay % 4))  e == 2^(reg.ctrl.delay % 4)
           v == SlewRate(u)  ramp == Ramp(u)
<1>1. /\ P \in Nat /\ m \in Nat /\ m >= 8 /\ n \in Nat /\ n >= 8 /\ w \in Nat /\ w >= 2000
      /\ e \in Nat \ {0} /\ e <= 128
  BY Divisors
<1>2. /\ row.logical = "FTSMPS" => ramp = (((19200 * u) \div 1000) * P) \div m
      /\ Stepped => ramp = (((19200 * u) \div 1000) * P) \div n
      /\ row.logical = "FTSMPS426" => ramp = (4800 * u) \div w
      /\ row.logical = "HFS430" => ramp = (1600 * u) \div w
  BY Ramps
<1>3. ramp \in Nat /\ u \in Nat
  BY RampRises DEF Fine
<1>4. Max({1, ramp}) \in Nat /\ Max({1, ramp}) >= 1 /\ Max({1, ramp}) >= ramp
  <2> HIDE DEF ramp
  <2>1. Max({1, ramp}) = IF 1 >= ramp THEN 1 ELSE ramp
    BY <1>3, MaxTwo
  <2> QED BY <1>3, <2>1
<1> DEFINE top == Max({1, ramp})
<1>5. CASE row.logical = "FTSMPS" \/ Stepped
  <2>1. v = IF u * P >= OverflowsAt THEN 1 ELSE Max({1, (ramp * 4) \div 5})
    BY <1>5, Rates DEF spmi_regulator_init_slew_rate
  <2> HIDE DEF P, m, n, w, e, v, ramp
  <2>2. CASE u * P >= OverflowsAt
    <3>1. v = 1
      BY <2>1, <2>2
    <3> QED BY <1>4, <3>1 DEF v, ramp, MaxSlewRate
  <2>3. CASE ~(u * P >= OverflowsAt)
    <3>1. u * P < OverflowsAt
      BY <1>1, <1>3, <2>3 DEF OverflowsAt
    <3>2. ramp <= MaxSlewRate
      BY <1>1, <1>2, <1>3, <1>5, <3>1, StepLimit
    <3>3. LET x == Max({1, (ramp * 4) \div 5})
          IN x \in Nat /\ 1 <= x /\ x <= MaxSlewRate /\ x <= Max({1, ramp})
      <4> DEFINE c == 4  k == 5
      <4>1. c \in Nat /\ k \in Nat \ {0} /\ c <= k
        OBVIOUS
      <4> HIDE DEF c, k
      <4>2. LET x == Max({1, (ramp * c) \div k})
            IN x \in Nat /\ 1 <= x /\ x <= MaxSlewRate /\ x <= Max({1, ramp})
        BY <1>3, <3>2, <4>1, Margin, Zenon
      <4> QED BY <4>2 DEF c, k
    <3>4. v = Max({1, (ramp * 4) \div 5})
      BY <2>1, <2>3
    <3>5. v \in Nat /\ 1 <= v /\ v <= MaxSlewRate /\ v <= Max({1, ramp})
      BY <3>3, <3>4
    <3> QED BY <3>5 DEF v, ramp
  <2> QED BY <2>2, <2>3
<1>6. CASE row.logical \in {"FTSMPS426", "HFS430"}
  <2>1. v = Max({1, (ramp * 10) \div 11})
    BY <1>6, Rates DEF spmi_regulator_init_slew_rate_ftsmps426
  <2> HIDE DEF P, m, n, w, e, v, ramp
  <2>2. ramp <= MaxSlewRate
    <3> DEFINE c == 4800  b == 1600
    <3>0. Slowed(c, w) /\ Slowed(b, w)
      BY <1>1 DEF Slowed
    <3> HIDE DEF c, b
    <3>1. (c * u) \div w <= MaxSlewRate
      BY <3>0, ClockLimit
    <3>2. (b * u) \div w <= MaxSlewRate
      BY <3>0, ClockLimit
    <3>3. CASE row.logical = "FTSMPS426"
      BY <1>2, <3>1, <3>3 DEF c
    <3>4. CASE row.logical = "HFS430"
      BY <1>2, <3>2, <3>4 DEF b
    <3> QED BY <1>6, <3>3, <3>4
  <2>3. LET x == Max({1, (ramp * 10) \div 11})
        IN x \in Nat /\ 1 <= x /\ x <= MaxSlewRate /\ x <= Max({1, ramp})
    <3> DEFINE c == 10  k == 11
    <3>1. c \in Nat /\ k \in Nat \ {0} /\ c <= k
      OBVIOUS
    <3> HIDE DEF c, k
    <3>2. LET x == Max({1, (ramp * c) \div k})
          IN x \in Nat /\ 1 <= x /\ x <= MaxSlewRate /\ x <= Max({1, ramp})
      BY <1>3, <2>2, <3>1, Margin, Zenon
    <3> QED BY <3>2 DEF c, k
  <2>4. v \in Nat /\ 1 <= v /\ v <= MaxSlewRate /\ v <= Max({1, ramp})
    BY <2>1, <2>3
  <2> QED BY <2>4 DEF v, ramp
<1>7. CASE Clocked
  <2>1. v = Ramp(0)
    BY <1>7, Rates
  <2>2. Ramp(0) = 38400 \div e /\ ramp = 38400 \div e
    BY <1>7, Ramps
  <2> HIDE DEF P, m, n, w, e, v, ramp
  <2>3. v = 38400 \div e /\ ramp = v
    BY <2>1, <2>2
  <2> DEFINE c == 38400
  <2>4. c \in Nat /\ c >= 128
    OBVIOUS
  <2> HIDE DEF c
  <2>5. c \div e \in Nat /\ 1 * (c \div e) <= c
    BY <1>1, <2>4, QuotientSmall
  <2>6. e \div e = 1
    <3>1. (1 * e) \div e = 1 /\ 1 * e = e
      BY <1>1, Multiple
    <3> QED BY <3>1
  <2>7. e \div e <= c \div e
    BY <1>1, <2>4, QuotientRises
  <2>8. v = c \div e
    BY <2>3 DEF c
  <2>9. v \in Nat /\ 1 <= v /\ v <= c
    BY <2>5, <2>6, <2>7, <2>8
  <2>10. v <= MaxSlewRate
    BY <2>9 DEF c, MaxSlewRate
  <2>11. v <= Max({1, ramp})
    <3> DEFINE t == Max({1, ramp})
    <3>1. t \in Nat /\ t >= ramp
      BY <1>4 DEF ramp
    <3> HIDE DEF t
    <3>2. v <= t
      BY <2>3, <2>9, <3>1
    <3> QED BY <3>2 DEF t
  <2>12. v \in Nat /\ 1 <= v /\ v <= MaxSlewRate /\ v <= Max({1, ramp})
    BY <2>9, <2>10, <2>11
  <2> QED BY <2>12 DEF v, ramp
<1> QED BY <1>5, <1>6, <1>7

LEMMA BottomOf ==
  ASSUME NEW S, S \subseteq {1, 2, 3}, S # {}
  PROVE  Min(S) \in S
<1>1. \E x \in S : \A y \in S : x <= y
  <2>1. CASE 1 \in S
    BY <2>1
  <2>2. CASE 1 \notin S /\ 2 \in S
    BY <2>2
  <2>3. CASE 1 \notin S /\ 2 \notin S
    <3>1. \A y \in S : y = 3
      BY <2>3
    <3>2. PICK y \in S : TRUE
      OBVIOUS
    <3>3. 3 \in S /\ \A z \in S : 3 <= z
      BY <3>1, <3>2
    <3> QED BY <3>3
  <2> QED BY <2>1, <2>2, <2>3
<1> QED BY <1>1 DEF Min

(* What a row's kind says of its table and its ramp.                         *)
LEMMA Timed ==
  ASSUME RowKind(row), HasTime
  PROVE  /\ row.points # "none"
         /\ \/ row.logical = "FTSMPS" \/ Stepped \/ Clocked \/ row.logical \in {"FTSMPS426", "HFS430"}
<1>1. row.ops # "vs" /\ row.ops # "ldo" /\ row.ops # "boost" /\ row.ops # "ult_ldo"
  BY DEF HasTime
<1> QED BY <1>1 DEF RowKind, SingleTables, MilliTables, Stepped, Clocked

LEMMA FineSteps ==
  ASSUME Placed, row.points # "none", NEW i \in 1..Len(pts)
  PROVE  Fine(pts[i].step)
<1>1. pts[i].step \in Nat
  BY TablesCounted
<1>2. CASE RangeTable(pts)
  BY <1>1, <1>2 DEF RangeTable, Fine
<1>3. CASE SingleTable(pts)
  <2>1. i = 1
    BY <1>3 DEF SingleTable
  <2> QED BY <1>1, <1>3, <2>1 DEF SingleTable, Fine
<1>4. CASE MilliTable(pts)
  <2>1. i = 1 /\ pts[1].step \in {4000, 8000}
    BY <1>4 DEF MilliTable
  <2> DEFINE e == pts[i].step
  <2>2. e = 4000 \/ e = 8000
    BY <2>1
  <2> HIDE DEF e
  <2>3. e <= 50000
    BY <2>2
  <2> QED BY <1>1, <2>3 DEF Fine, e
<1>5. CASE SplitTable(pts)
  <2>1. i = 1 \/ i = 2
    BY <1>5 DEF SplitTable
  <2> DEFINE e == pts[i].step
  <2>2. e = 12500 \/ e = 25000
    BY <1>5, <2>1 DEF SplitTable
  <2> HIDE DEF e
  <2>3. e <= 50000
    BY <2>2
  <2> QED BY <1>1, <2>3 DEF Fine, e
<1> QED BY <1>2, <1>3, <1>4, <1>5 DEF Placed

(* The rate is the one of the steps it was computed for.                     *)
Paced ==
  /\ slew.rate \in Nat /\ slew.rate <= MaxSlewRate
  /\ phase = "up" /\ HasTime => Fine(slew.step) /\ slew.rate = SlewRate(slew.step)

LEMMA Settles ==
  ASSUME Placed, RowKind(row), Paced, HasTime => Ctrl, Code(reg.vset)
  PROVE  SettleCovered
<1> SUFFICES ASSUME phase = "up", HasTime, GetSel >= 0, NEW v \in Marks, Granted(v, v),
                    NEW s, s = MapVoltage(v, v)
             PROVE  LET i == Min({j \in DOMAIN pts : s < Before(pts, j + 1)} \cup {Len(pts)})
                        diff == IF List(s) > List(GetSel) THEN List(s) - List(GetSel)
                                ELSE List(GetSel) - List(s)
                    IN pts[i].step >= slew.step =>
                         spmi_regulator_set_voltage_time_sel(GetSel, s)
                           >= DIV_ROUND_UP(diff, Max({1, Ramp(pts[i].step)}))
  BY DEF SettleCovered
<1>1. row.points # "none"
  BY Timed
<1>2. /\ Counted(pts) /\ \A j \in 1..Len(pts) : pts[j].step \in Nat \ {0} /\ pts[j].spMin \in Int
  BY <1>1, TablesCounted
<1>3. GetSel \in Int /\ List(GetSel) \in Int
  BY <1>1, Reads
<1> DEFINE S == {j \in DOMAIN pts : s < Before(pts, j + 1)} \cup {Len(pts)}
           i == Min(S)
           diff == IF List(s) > List(GetSel) THEN List(s) - List(GetSel) ELSE List(GetSel) - List(s)
<1>4. s \in Int
  <2>1. v \in Int
    BY <1>1, MarksInt
  <2>2. PICK j, k : Names(pts, MapVoltage(v, v), j, k)
    BY <1>1, <2>1, Grants
  <2> QED BY <1>2, <2>2, OneRange
<1>5. i \in 1..Len(pts)
  <2> DEFINE n == Len(pts)
  <2>1. DOMAIN pts = 1..n /\ n \in 1..3
    BY <1>2 DEF Counted
  <2>2. S \subseteq 1..n /\ S # {}
    BY <2>1
  <2> HIDE DEF S, n
  <2>3. 1..n \subseteq {1, 2, 3}
    BY <2>1
  <2>4. S \subseteq {1, 2, 3}
    BY <2>2, <2>3
  <2> QED BY <2>2, <2>4, BottomOf DEF n
<1>6. List(s) \in Int
  <2>1. \A j \in 1..Len(pts) : pts[j].step \in Int /\ pts[j].spMin \in Int
    BY <1>2
  <2> QED BY <1>2, <1>4, <2>1, Lists DEF List
<1>7. diff \in Nat
  <2> DEFINE x == List(s)  y == List(GetSel)
  <2>1. x \in Int /\ y \in Int
    BY <1>3, <1>6
  <2> HIDE DEF x, y
  <2>2. (IF x > y THEN x - y ELSE y - x) \in Nat
    BY <2>1
  <2> QED BY <2>2 DEF x, y
<1> DEFINE a == slew.step  b == pts[i].step  r == slew.rate  R == Max({1, Ramp(b)})
<1>8. spmi_regulator_set_voltage_time_sel(GetSel, s) = DIV_ROUND_UP(diff, r)
  BY DEF spmi_regulator_set_voltage_time_sel
<1> HIDE DEF S, i, diff
<1>9. ASSUME b >= a PROVE r \in Nat \ {0} /\ R \in Nat /\ r <= R
  <2>1. Fine(a) /\ r = SlewRate(a) /\ a \in Nat
    BY DEF Paced, Fine
  <2>2. b \in Nat
    BY <1>2, <1>5
  <2> DEFINE w == SlewRate(a)
  <2>3. w \in Nat /\ 1 <= w /\ w <= MaxSlewRate /\ w <= Max({1, Ramp(a)})
    BY <2>1, Timed, RateSlow
  <2>4. Ramp(a) \in Nat /\ Ramp(b) \in Nat /\ Ramp(a) <= Ramp(b)
    <3> HIDE DEF a, b
    <3> QED BY <1>9, <2>1, <2>2, RampRises
  <2> DEFINE p == Ramp(a)  q == Ramp(b)
  <2> HIDE DEF a, b, r, w, p, q
  <2>5. /\ Max({1, p}) = IF 1 >= p THEN 1 ELSE p
        /\ Max({1, q}) = IF 1 >= q THEN 1 ELSE q
    BY <2>4, MaxTwo DEF p, q
  <2>6. r = w
    BY <2>1 DEF w
  <2>7. w \in Nat /\ 1 <= w /\ w <= Max({1, p})
    BY <2>3 DEF p
  <2>8. p \in Nat /\ q \in Nat /\ p <= q
    BY <2>4 DEF p, q
  <2>9. r \in Nat \ {0} /\ Max({1, q}) \in Nat /\ r <= Max({1, q})
    BY <2>5, <2>6, <2>7, <2>8
  <2> QED BY <2>9 DEF q
<1> HIDE DEF a, b, r, R
<1>10. b >= a => DIV_ROUND_UP(diff, r) >= DIV_ROUND_UP(diff, R)
  BY <1>7, <1>9, SlowerWaits
<1> QED BY <1>8, <1>10 DEF S, i, diff, a, b, R

(***************************************************************************)
(* The rows of devices, and the trips that are counted.                    *)
(***************************************************************************)
LEMMA LeastOf == ASSUME NEW T, T \subseteq Nat, T # {} PROVE Min(T) \in T
<1>1. PICK x \in T : \A y \in T : <<y, x>> \notin OpToRel(<, Nat)
  BY NatLessThanWellFounded, WFMin
<1>2. ASSUME NEW y \in T PROVE x <= y
  <2>1. x \in Nat /\ y \in Nat
    BY <1>2
  <2>2. y < x => <<y, x>> \in OpToRel(<, Nat)
    BY <2>1 DEF OpToRel
  <2>3. ~(y < x)
    BY <1>1, <1>2, <2>2, Zenon
  <2> QED BY <2>1, <2>3
<1> QED BY <1>2 DEF Min

(* A device is driven by a row of the table.                                 *)
LEMMA Matched ==
  ASSUME NEW type, NEW subtype, NEW rev, spmi_regulator_match(type, subtype, rev) # << >>
  PROVE  spmi_regulator_match(type, subtype, rev)[1] \in Range(supported_regulators)
<1> DEFINE t == supported_regulators
           rows == {i \in DOMAIN t : LET m == t[i]
                                     IN m.type = type /\ subtype \in m.subtypes /\ rev \in m.lo .. m.hi}
           hit == t[Min(rows)]
<1>1. DOMAIN t \subseteq Nat
  BY DEF supported_regulators
<1>2. spmi_regulator_match(type, subtype, rev) = IF rows = {} THEN << >> ELSE <<hit>>
  BY DEF spmi_regulator_match
<1>3. rows # {}
  <2> HIDE DEF rows, hit
  <2> QED BY <1>2
<1> HIDE DEF t
<1>4. rows \subseteq Nat
  BY <1>1
<1> HIDE DEF rows
<1>5. Min(rows) \in rows
  BY <1>3, <1>4, LeastOf
<1>6. Min(rows) \in DOMAIN t
  BY <1>5 DEF rows
<1>7. hit \in Range(t)
  BY <1>6 DEF Range
<1> HIDE DEF hit
<1>8. spmi_regulator_match(type, subtype, rev)[1] = hit
  BY <1>2, <1>3
<1> QED BY <1>7, <1>8 DEF t

(* Every trip that is counted or about to be has happened: the count is      *)
(* behind the trips by those still to be read and stored, whoever switches   *)
(* the rail off in between.                                                  *)
Due == IF vs.edge THEN 1 ELSE 0
Behind ==
  /\ vs.shorts <= MaxShorts
  /\ vs.count + Due <= vs.shorts
  /\ isr.pc \in {"read", "count"} => vs.count + 1 + Due <= vs.shorts
  /\ isr.pc = "count" => isr.n + Due <= vs.shorts

TallyInv == SwitchShape /\ Behind

LEMMA InitTally == RegulatorInit => TallyInv
<1> SUFFICES ASSUME RegulatorInit PROVE TallyInv
  OBVIOUS
<1>1. SwitchShape
  BY InitRetry DEF RetryInv
<1>2. vs.shorts = 0 /\ vs.count = 0 /\ ~vs.edge /\ isr.pc = "idle"
  BY DEF RegulatorInit
<1>3. MaxShorts \in Nat
  BY SpmiAssumption DEF MaxShorts
<1> QED BY <1>1, <1>2, <1>3 DEF TallyInv, Behind, Due

LEMMA StillTally ==
  ASSUME TallyInv, UNCHANGED <<vs, isr, work>>
  PROVE  TallyInv'
  BY DEF TallyInv, SwitchShape, Behind, Due

LEMMA VsResetTallies ==
  ASSUME TallyInv, VsReset
  PROVE  TallyInv'
<1>1. SwitchShape'
  BY DEF TallyInv, SwitchShape, Switches, VsReset, Switch
<1>2. Behind'
  BY SpmiAssumption DEF TallyInv, SwitchShape, Switches, Behind, Due, MaxShorts, VsReset, Switch
<1> QED BY <1>1, <1>2 DEF TallyInv

LEMMA VsEnableTallies ==
  ASSUME TallyInv, VsEnable
  PROVE  TallyInv'
<1>1. SwitchShape'
  BY DEF TallyInv, SwitchShape, Switches, VsEnable, Switch
<1>2. Behind'
  BY SpmiAssumption DEF TallyInv, SwitchShape, Switches, Behind, Due, MaxShorts, VsEnable, Switch
<1> QED BY <1>1, <1>2 DEF TallyInv

LEMMA VsDisableTallies ==
  ASSUME TallyInv, VsDisable
  PROVE  TallyInv'
<1>1. SwitchShape'
  BY DEF TallyInv, SwitchShape, Switches, VsDisable, Switch
<1>2. Behind'
  BY SpmiAssumption DEF TallyInv, SwitchShape, Switches, Behind, Due, MaxShorts, VsDisable, Switch
<1> QED BY <1>1, <1>2 DEF TallyInv

LEMMA ShortTallies ==
  ASSUME TallyInv, Short
  PROVE  TallyInv'
<1>1. SwitchShape'
  <2>1. vs \in Switches /\ vs.shorts + 1 \in Nat
    BY DEF TallyInv, SwitchShape, Switches
  <2>2. vs' = [vs EXCEPT !.tripped = TRUE, !.edge = TRUE, !.shorts = vs.shorts + 1]
    BY DEF Short
  <2>3. vs' \in Switches
    BY <2>1, <2>2 DEF Switches
  <2> QED BY <2>3 DEF TallyInv, SwitchShape, Short
<1>2. Behind'
  BY SpmiAssumption DEF TallyInv, SwitchShape, Switches, Behind, Due, MaxShorts, Short, Switch
<1> QED BY <1>1, <1>2 DEF TallyInv

LEMMA LateTallies ==
  ASSUME TallyInv, Late
  PROVE  TallyInv'
<1>1. SwitchShape'
  BY DEF TallyInv, SwitchShape, Switches, Late, Switch
<1>2. Behind'
  BY SpmiAssumption DEF TallyInv, SwitchShape, Switches, Behind, Due, MaxShorts, Late, Switch
<1> QED BY <1>1, <1>2 DEF TallyInv

LEMMA IsrStartTallies ==
  ASSUME TallyInv, IsrStart
  PROVE  TallyInv'
<1>1. SwitchShape'
  BY DEF TallyInv, SwitchShape, Switches, IsrStart
<1>2. Behind'
  BY SpmiAssumption DEF TallyInv, SwitchShape, Switches, Behind, Due, MaxShorts, IsrStart
<1> QED BY <1>1, <1>2 DEF TallyInv

LEMMA IsrReadTallies ==
  ASSUME TallyInv, IsrRead
  PROVE  TallyInv'
<1>1. SwitchShape'
  BY DEF TallyInv, SwitchShape, Switches, IsrRead
<1>2. Behind'
  BY SpmiAssumption DEF TallyInv, SwitchShape, Switches, Behind, Due, MaxShorts, IsrRead
<1> QED BY <1>1, <1>2 DEF TallyInv

LEMMA IsrCountTallies ==
  ASSUME TallyInv, IsrCount
  PROVE  TallyInv'
<1>1. SwitchShape'
  BY DEF TallyInv, SwitchShape, Switches, IsrCount
<1>2. Behind'
  BY SpmiAssumption DEF TallyInv, SwitchShape, Switches, Behind, Due, MaxShorts, IsrCount
<1> QED BY <1>1, <1>2 DEF TallyInv

LEMMA IsrClearTallies ==
  ASSUME TallyInv, IsrClear
  PROVE  TallyInv'
<1>1. SwitchShape'
  <2>1. vs \in Switches /\ vs.clears + 1 \in Nat
    BY DEF TallyInv, SwitchShape, Switches
  <2>2. [vs EXCEPT !.on = FALSE, !.tripped = FALSE, !.late = FALSE, !.clears = vs.clears + 1] \in Switches
    BY <2>1 DEF Switches
  <2>3. [vs EXCEPT !.on = TRUE] \in Switches
    BY <2>1 DEF Switches
  <2>4. vs' \in Switches
    BY <2>2, <2>3 DEF IsrClear, Cleared
  <2> QED BY <2>4 DEF TallyInv, SwitchShape, IsrClear
<1>2. Behind'
  BY SpmiAssumption DEF TallyInv, SwitchShape, Switches, Behind, Due, MaxShorts, IsrClear, Cleared
<1> QED BY <1>1, <1>2 DEF TallyInv

LEMMA WorkStartTallies ==
  ASSUME TallyInv, WorkStart
  PROVE  TallyInv'
<1>1. SwitchShape'
  BY DEF TallyInv, SwitchShape, Switches, WorkStart
<1>2. Behind'
  BY SpmiAssumption DEF TallyInv, SwitchShape, Switches, Behind, Due, MaxShorts, WorkStart
<1> QED BY <1>1, <1>2 DEF TallyInv

LEMMA WorkClearTallies ==
  ASSUME TallyInv, WorkClear
  PROVE  TallyInv'
<1>1. SwitchShape'
  <2>1. vs \in Switches /\ vs.clears + 1 \in Nat
    BY DEF TallyInv, SwitchShape, Switches
  <2>2. [vs EXCEPT !.on = FALSE, !.tripped = FALSE, !.late = FALSE, !.clears = vs.clears + 1] \in Switches
    BY <2>1 DEF Switches
  <2>3. [vs EXCEPT !.on = TRUE] \in Switches
    BY <2>1 DEF Switches
  <2>4. vs' \in Switches
    BY <2>2, <2>3 DEF WorkClear, Cleared
  <2> QED BY <2>4 DEF TallyInv, SwitchShape, WorkClear
<1>2. Behind'
  BY SpmiAssumption DEF TallyInv, SwitchShape, Switches, Behind, Due, MaxShorts, WorkClear, Cleared
<1> QED BY <1>1, <1>2 DEF TallyInv

LEMMA NextTally == TallyInv /\ [RegulatorNext]_regulatorVars => TallyInv'
<1> SUFFICES ASSUME TallyInv, [RegulatorNext]_regulatorVars PROVE TallyInv'
  OBVIOUS
<1>1. CASE Register \/ LeaveSlave
  BY <1>1, StillTally DEF Register, LeaveSlave
<1>2. CASE \E lo, hi \in Marks : lo <= hi /\ SetVoltage(lo, hi)
  BY <1>2, StillTally DEF SetVoltage
<1>3. CASE \E m \in {"normal", "fast", "idle"} : SetMode(m)
  BY <1>3, StillTally DEF SetMode
<1>4. CASE \E load \in {row.hpm - 1, row.hpm} : spmi_regulator_common_set_load(load)
  BY <1>4, StillTally DEF spmi_regulator_common_set_load
<1>5. CASE \E b \in BOOLEAN : spmi_regulator_common_set_bypass(b)
  BY <1>5, StillTally DEF spmi_regulator_common_set_bypass
<1>6. CASE VsReset \/ VsEnable \/ VsDisable \/ Short \/ Late
  BY <1>6, VsResetTallies, VsEnableTallies, VsDisableTallies, ShortTallies, LateTallies
<1>7. CASE IsrStart \/ IsrRead \/ IsrCount \/ IsrClear
  BY <1>7, IsrStartTallies, IsrReadTallies, IsrCountTallies, IsrClearTallies
<1>8. CASE WorkStart \/ WorkClear
  BY <1>8, WorkStartTallies, WorkClearTallies
<1>9. CASE UNCHANGED regulatorVars
  BY <1>9, StillTally DEF regulatorVars
<1> QED BY <1>1, <1>2, <1>3, <1>4, <1>5, <1>6, <1>7, <1>8, <1>9 DEF RegulatorNext

(***************************************************************************)
(* The rails that serve their requests.                                    *)
(***************************************************************************)
(* The pins, the soft start and the limit are ones the registers can hold.   *)
PinTypes ==
  /\ reg.mode_pins \subseteq 0 .. 4 /\ reg.enable_pins \subseteq 0 .. 3 /\ reg.soft \in 0 .. 3
  /\ reg.limit \in {NoLimit} \cup 0 .. 7

(* A rail that was granted a request can be read.                            *)
Kept == want.lo >= 0 => Readable

(* A rail of a row that serves its requests: the registers hold codes of its *)
(* layout, its rate is the one of its steps, and what was granted is met.    *)
ServeInv ==
  /\ RailShape /\ row \in Range(supported_regulators) /\ RowKind(row)
  /\ HasTime => Ctrl
  /\ Code(reg.vset) /\ PinTypes /\ LeaderFirst /\ Paced /\ RequestMet /\ Kept

(* What the theorem assumes: the PMIC has no rail whose table has gaps that   *)
(* no set point fills and none whose rate is zero, and its SAW does what it   *)
(* is told.                                                                   *)
AllServed ==
  /\ \A d \in Devices : Served(spmi_regulator_match(d.type, d.subtype, d.rev)[1])
  /\ SawFaults = {}

(* The state it speaks of is what the rail serves.                           *)
LEMMA ServesNow ==
  ASSUME ServeInv
  PROVE  ReadBack /\ AlwaysGranted /\ SettleCovered /\ RequestMet
<1>1. Placed
  BY AllPlaced DEF ServeInv
<1>2. ReadBack
  BY <1>1, Reads DEF ServeInv, ReadBack
<1>3. AlwaysGranted
  <2> SUFFICES ASSUME row.points # "none", NEW lo \in Marks, NEW hi \in Marks, SetPointIn(lo, hi)
               PROVE  Granted(lo, hi)
    BY DEF AlwaysGranted, ServeInv, Kept
  <2>1. lo \in Int /\ hi \in Int
    BY <1>1, MarksInt
  <2> QED BY <1>1, <2>1, Grantable DEF ServeInv
<1>4. SettleCovered
  BY <1>1, Settles DEF ServeInv
<1> QED BY <1>2, <1>3, <1>4 DEF ServeInv

LEMMA TypesNow ==
  ASSUME ServeInv, TallyInv
  PROVE  RegulatorTypeOK
<1>1. phase \in {"off", "up", "failed", "left"} /\ row \in Range(supported_regulators)
  BY DEF ServeInv, RailShape
<1>2. reg.vset \in IF Layout = "mv" THEN 0 .. MaxMillivolts ELSE 0 .. 255
  <2>1. ASSUME NEW n \in Nat, NEW m \in Nat, n <= m PROVE n \in 0 .. m
    BY <2>1
  <2>2. CASE Layout = "mv"
    <3> DEFINE m == MaxMillivolts  n == reg.vset
    <3>1. n \in Nat /\ n <= m /\ m \in Nat
      BY <2>2 DEF ServeInv, Code, MaxMillivolts
    <3> HIDE DEF m, n
    <3>2. n \in 0 .. m
      BY <2>1, <3>1
    <3> QED BY <2>2, <3>2 DEF m, n
  <2>3. CASE Layout # "mv"
    BY <2>3 DEF ServeInv, Code
  <2> QED BY <2>2, <2>3
<1>3. /\ reg.mode_pins \subseteq 0 .. 4 /\ reg.enable_pins \subseteq 0 .. 3 /\ reg.soft \in 0 .. 3
      /\ reg.limit \in {NoLimit} \cup 0 .. 7
  BY DEF ServeInv, PinTypes
<1>4. reg.top \in {"none", "hpm", "auto"} /\ reg.low \in 0 .. 7 /\ reg.bypass \in BOOLEAN
  BY DEF ServeInv, RailShape, RailRegs
<1>5. slew.rate \in 0 .. MaxSlewRate
  <2>1. slew.rate \in Nat /\ slew.rate <= MaxSlewRate
    BY DEF ServeInv, Paced
  <2>2. MaxSlewRate \in Nat
    BY DEF MaxSlewRate
  <2> QED BY <2>1, <2>2
<1>6. /\ vs.use \in {"off", "enabling", "on"}
      /\ isr.pc \in {"idle", "read", "count", "clear", "set"} /\ work.pc \in {"idle", "clear", "set"}
  BY DEF TallyInv, SwitchShape, Switches
<1>7. vs.shorts \in 0 .. MaxShorts /\ vs.count \in 0 .. MaxShorts
  <2>1. vs.shorts \in Nat /\ vs.count \in Nat /\ Due \in Nat /\ MaxShorts \in Nat
    BY SpmiAssumption DEF TallyInv, SwitchShape, Switches, Due, MaxShorts
  <2>2. vs.shorts <= MaxShorts /\ vs.count + Due <= vs.shorts
    BY DEF TallyInv, Behind
  <2> DEFINE m == MaxShorts
  <2> HIDE DEF m
  <2>3. vs.count <= m
    BY <2>1, <2>2 DEF m
  <2> QED BY <2>1, <2>2, <2>3 DEF m
<1> QED BY <1>1, <1>2, <1>3, <1>4, <1>5, <1>6, <1>7 DEF RegulatorTypeOK

LEMMA InitServe == ASSUME AllServed, RegulatorInit PROVE ServeInv
<1>1. RailShape
  BY InitRail DEF RailInv
<1>2. PICK d \in Devices : row = spmi_regulator_match(d.type, d.subtype, d.rev)[1]
  BY DEF RegulatorInit
<1>3. row \in Range(supported_regulators) /\ RowKind(row)
  <2>1. row \in Range(supported_regulators)
    BY <1>2, Matched, SpmiAssumption
  <2>2. Served(row)
    BY <1>2 DEF AllServed
  <2> QED BY <2>1, <2>2, RowKinds
<1>4. Placed
  BY <1>3, AllPlaced
<1> DEFINE c == IF HasTime THEN StepCtrls ELSE {CHOOSE x \in StepCtrls : TRUE}
           z == IF LowMode THEN 7 ELSE 0
           e == {{}}
<1>5. reg \in [range : BootRanges, vset : BootCodes, top : {"none"}, low : {z},
               bypass : {FALSE}, ctrl : c, mode_pins : {BootPins},
               enable_pins : e, soft : {0}, limit : {NoLimit}]
  BY DEF RegulatorInit
<1>6. HasTime => Ctrl
  <2> SUFFICES ASSUME HasTime PROVE Ctrl
    OBVIOUS
  <2>1. c \subseteq [step : 0 .. 3, delay : 0 .. 7]
    BY SpmiAssumption
  <2> HIDE DEF c, z, e
  <2>2. reg.ctrl \in c
    BY <1>5
  <2> QED BY <2>1, <2>2 DEF Ctrl
<1> HIDE DEF c, z, e
<1>7. /\ reg.range \in BootRanges /\ reg.vset \in BootCodes /\ reg.mode_pins = BootPins
      /\ reg.enable_pins \in e /\ reg.soft = 0 /\ reg.limit = NoLimit
  BY <1>5
<1>8. PinTypes
  <2>1. BootPins \subseteq 0 .. 4
    BY DEF BootPins, SLEEP_B
  <2>2. reg.enable_pins = {}
    BY <1>7 DEF e
  <2> QED BY <1>7, <2>1, <2>2 DEF PinTypes
<1>9. Code(reg.vset)
  <2>1. CASE pts = << >>
    BY <1>7, <2>1 DEF BootCodes, Code
  <2>2. CASE pts # << >> /\ Layout # "mv"
    BY <1>7, <2>2 DEF BootCodes, Code, ULT_SMPS_RANGE_SPLIT
  <2>3. CASE pts # << >> /\ Layout = "mv"
    <3>1. MilliTable(pts)
      BY <1>4, <2>3 DEF Placed
    <3> DEFINE u == pts[1].spMin  t == pts[1].spMax
    <3>2. reg.vset = (u \div 1000) - 4 \/ reg.vset = t \div 1000
      BY <1>7, <2>3 DEF BootCodes
    <3>3. u \in Nat /\ t \in Nat /\ u >= 4000 /\ u <= t /\ t <= 65535000
      <4>1. Even(pts[1])
        BY <3>1 DEF MilliTable, Gapless
      <4> DEFINE x == (pts[1].n - 1) * pts[1].step
      <4>2. u \in Nat /\ t = u + x /\ x \in Int
        BY <4>1 DEF Even
      <4>3. u >= 4000 /\ u <= t /\ t <= 65535000
        BY <3>1 DEF MilliTable
      <4> HIDE DEF u, t, x
      <4> QED BY <4>2, <4>3
    <3> HIDE DEF u, t
    <3>4. t \div 1000 \in Nat /\ t \div 1000 <= 65535
      BY <3>3, InMillivolts
    <3>5. u \div 1000 \in Nat /\ u \div 1000 <= t \div 1000
      BY <3>3, QuotientRises
    <3>6. u \div 1000 >= 4
      BY <3>3
    <3> QED BY <2>3, <3>2, <3>4, <3>5, <3>6 DEF Code
  <2> QED BY <2>1, <2>2, <2>3
<1>10. LeaderFirst
  <2> SUFFICES ASSUME Leader PROVE Layout = "range" /\ reg.range = 0 /\ pts[1].range_sel = 0
    BY DEF LeaderFirst
  <2>1. reg.range = 0
    BY <1>7 DEF AllServed, BootRanges
  <2>2. row.logical = "FTSMPS"
    BY DEF RegulatorInit, Leader
  <2>3. row.ops = "ftsmps" /\ row.points \in {"ftsmps", "ftsmps2p5"}
    BY <1>3, <2>2 DEF RowKind
  <2>4. Layout = "range"
    BY <2>3 DEF Layout
  <2>5. set_points["ftsmps"][1].range_sel = 0 /\ set_points["ftsmps2p5"][1].range_sel = 0
    BY DEF set_points, Volts
  <2> QED BY <2>1, <2>3, <2>4, <2>5 DEF pts
<1>11. Paced
  BY DEF RegulatorInit, Paced, MaxSlewRate
<1>12. RequestMet /\ Kept
  BY DEF RegulatorInit, RequestMet, Kept
<1> QED BY <1>1, <1>3, <1>6, <1>8, <1>9, <1>10, <1>11, <1>12 DEF ServeInv

(* A rate depends on the row and on its steps' control register only.        *)
LEMMA RateKept ==
  ASSUME row' = row, reg'.ctrl = reg.ctrl, NEW u
  PROVE  SlewRate(u)' = SlewRate(u)
<1>1. Ramp(u)' = Ramp(u) /\ Ramp(0)' = Ramp(0)
  BY DEF Ramp
<1>2. spmi_regulator_init_slew_rate(u)' = spmi_regulator_init_slew_rate(u)
  BY <1>1 DEF spmi_regulator_init_slew_rate
<1>3. spmi_regulator_init_slew_rate_ftsmps426(u)' = spmi_regulator_init_slew_rate_ftsmps426(u)
  BY <1>1 DEF spmi_regulator_init_slew_rate_ftsmps426
<1>4. spmi_regulator_init_slew_rate_hfsmps' = spmi_regulator_init_slew_rate_hfsmps
  BY <1>1 DEF spmi_regulator_init_slew_rate_hfsmps
<1> QED BY <1>2, <1>3, <1>4 DEF SlewRate

(* What leaves the rate, the ranges and the requests alone keeps the rest.   *)
LEMMA PacedKept ==
  ASSUME row' = row, reg'.ctrl = reg.ctrl, NEW r, NEW u, slew'.rate = r, slew'.step = u,
         r \in Nat /\ r <= MaxSlewRate,
         phase' = "up" /\ HasTime => Fine(u) /\ r = SlewRate(u)
  PROVE  Paced'
<1>1. HasTime' = HasTime
  BY DEF HasTime
<1>2. SlewRate(u)' = SlewRate(u)
  BY RateKept
<1> QED BY <1>1, <1>2 DEF Paced

(* What leaves the voltage, the rate and the pins alone keeps all of it.     *)
LEMMA ServeModes ==
  ASSUME ServeInv, RailShape', UNCHANGED <<row, slew>>, phase' = "up" => phase = "up",
         reg'.range = reg.range, reg'.vset = reg.vset, reg'.ctrl = reg.ctrl,
         reg'.mode_pins = reg.mode_pins, reg'.enable_pins = reg.enable_pins,
         reg'.soft = reg.soft, reg'.limit = reg.limit,
         want'.lo = want.lo, want'.hi = want.hi, want'.dt = want.dt
  PROVE  ServeInv'
<1>1. /\ RowKind(row)' /\ (HasTime => Ctrl)' /\ Code(reg.vset)' /\ PinTypes'
      /\ (row \in Range(supported_regulators))'
  BY DEF ServeInv, RowKind, HasTime, Ctrl, Code, Layout, PinTypes
<1>2. LeaderFirst'
  BY DEF ServeInv, LeaderFirst, Leader, Layout, pts
<1>3. Paced'
  <2>1. slew.rate \in Nat /\ slew.rate <= MaxSlewRate
    BY DEF ServeInv, Paced
  <2>2. phase' = "up" /\ HasTime => Fine(slew.step) /\ slew.rate = SlewRate(slew.step)
    BY DEF ServeInv, Paced
  <2>3. PICK q, v : q = slew.rate /\ v = slew.step
    OBVIOUS
  <2> QED BY <2>1, <2>2, <2>3, PacedKept
<1>4. RequestMet' /\ Kept'
  <2>1. Layout' = Layout /\ pts' = pts
    BY DEF Layout, pts
  <2>2. spmi_regulator_find_range' = spmi_regulator_find_range
    BY <2>1 DEF spmi_regulator_find_range
  <2>3. OutUV' = OutUV
    BY <2>1, <2>2 DEF OutUV
  <2>4. GetSel' = GetSel /\ (HasTime' <=> HasTime)
    BY <2>1, <2>2 DEF GetSel, HasTime
  <2> QED BY <2>3, <2>4 DEF ServeInv, RequestMet, Kept, Readable
<1> QED BY <1>1, <1>2, <1>3, <1>4 DEF ServeInv

LEMMA SetModeServes ==
  ASSUME ServeInv, RailShape', NEW m, SetMode(m)
  PROVE  ServeInv'
<1>1. PICK S : reg \in RailRegs(S)
  BY DEF ServeInv, RailShape
<1>2. PICK W : want \in [lo : W, hi : W, mode : {"any", "normal", "fast", "idle"}, dt : Configs]
  BY DEF ServeInv, RailShape
<1>3. PICK a, b : reg' = [reg EXCEPT !.low = a] \/ reg' = [reg EXCEPT !.top = b]
  BY DEF SetMode, spmi_regulator_common_set_mode
<1>4. /\ reg'.range = reg.range /\ reg'.vset = reg.vset /\ reg'.ctrl = reg.ctrl
      /\ reg'.mode_pins = reg.mode_pins /\ reg'.enable_pins = reg.enable_pins
      /\ reg'.soft = reg.soft /\ reg'.limit = reg.limit
  BY <1>1, <1>3 DEF RailRegs
<1>5. want'.lo = want.lo /\ want'.hi = want.hi /\ want'.dt = want.dt /\ UNCHANGED <<phase, row, slew>>
  BY <1>2 DEF SetMode
<1> QED BY <1>4, <1>5, ServeModes

LEMMA LoadServes ==
  ASSUME ServeInv, RailShape', NEW load, spmi_regulator_common_set_load(load)
  PROVE  ServeInv'
<1>1. PICK S : reg \in RailRegs(S)
  BY DEF ServeInv, RailShape
<1>2. PICK W : want \in [lo : W, hi : W, mode : {"any", "normal", "fast", "idle"}, dt : Configs]
  BY DEF ServeInv, RailShape
<1>3. PICK b, c : reg' = [reg EXCEPT !.top = b] /\ (want' = want \/ want' = [want EXCEPT !.mode = c])
  BY DEF spmi_regulator_common_set_load, spmi_regulator_common_set_mode
<1>4. /\ reg'.range = reg.range /\ reg'.vset = reg.vset /\ reg'.ctrl = reg.ctrl
      /\ reg'.mode_pins = reg.mode_pins /\ reg'.enable_pins = reg.enable_pins
      /\ reg'.soft = reg.soft /\ reg'.limit = reg.limit
  BY <1>1, <1>3 DEF RailRegs
<1>5. want'.lo = want.lo /\ want'.hi = want.hi /\ want'.dt = want.dt /\ UNCHANGED <<phase, row, slew>>
  BY <1>2, <1>3 DEF spmi_regulator_common_set_load
<1> QED BY <1>4, <1>5, ServeModes

LEMMA BypassServes ==
  ASSUME ServeInv, RailShape', NEW b, spmi_regulator_common_set_bypass(b)
  PROVE  ServeInv'
<1>1. PICK S : reg \in RailRegs(S)
  BY DEF ServeInv, RailShape
<1>2. /\ reg'.range = reg.range /\ reg'.vset = reg.vset /\ reg'.ctrl = reg.ctrl
      /\ reg'.mode_pins = reg.mode_pins /\ reg'.enable_pins = reg.enable_pins
      /\ reg'.soft = reg.soft /\ reg'.limit = reg.limit
  BY <1>1 DEF RailRegs, spmi_regulator_common_set_bypass
<1> QED BY <1>2, ServeModes DEF spmi_regulator_common_set_bypass

LEMMA SetVoltageServes ==
  ASSUME AllServed, ServeInv, RailShape', NEW lo \in Marks, NEW hi \in Marks, SetVoltage(lo, hi)
  PROVE  ServeInv'
<1>1. PICK S : reg \in RailRegs(S)
  BY DEF ServeInv, RailShape
<1>2. PICK W : want \in [lo : W, hi : W, mode : {"any", "normal", "fast", "idle"}, dt : Configs]
  BY DEF ServeInv, RailShape
<1>3. Placed
  BY AllPlaced DEF ServeInv
<1>4. /\ UNCHANGED <<phase, row, slew>> /\ row.points # "none"
      /\ reg' \in SetVoltageSel(MapVoltage(lo, hi)) /\ want' = [want EXCEPT !.lo = lo, !.hi = hi]
  BY DEF SetVoltage
<1>5. lo \in Int /\ hi \in Int
  BY <1>3, <1>4, MarksInt
<1>6. RequestMet' /\ Readable' /\ Code(reg'.vset) /\ (Leader => reg'.range = reg.range)
  BY <1>1, <1>2, <1>3, <1>5, SetVoltageMeets DEF AllServed, ServeInv
<1>7. /\ reg'.mode_pins = reg.mode_pins /\ reg'.enable_pins = reg.enable_pins
      /\ reg'.soft = reg.soft /\ reg'.limit = reg.limit /\ reg'.ctrl = reg.ctrl
  BY <1>1, <1>4, VoltageOnly
<1>8. want'.dt = want.dt
  BY <1>2, <1>4
<1>9. /\ RowKind(row)' /\ (HasTime => Ctrl)' /\ PinTypes'
      /\ (row \in Range(supported_regulators))'
  BY <1>4, <1>7 DEF ServeInv, RowKind, HasTime, Ctrl, PinTypes
<1>10. Code(reg.vset)'
  BY <1>4, <1>6 DEF Code, Layout
<1>11. LeaderFirst'
  BY <1>4, <1>6, <1>8 DEF ServeInv, LeaderFirst, Leader, Layout, pts
<1>12. Paced'
  <2>1. slew.rate \in Nat /\ slew.rate <= MaxSlewRate
    BY DEF ServeInv, Paced
  <2>2. phase' = "up" /\ HasTime => Fine(slew.step) /\ slew.rate = SlewRate(slew.step)
    BY <1>4 DEF ServeInv, Paced
  <2>3. PICK q, v : q = slew.rate /\ v = slew.step
    OBVIOUS
  <2> QED BY <1>4, <1>7, <2>1, <2>2, <2>3, PacedKept
<1> QED BY <1>6, <1>9, <1>10, <1>11, <1>12 DEF ServeInv, Kept

(* The registers a rail is registered with.                                  *)
LEMMA RegistersHold ==
  ASSUME ServeInv
  PROVE  LET g == spmi_regulator_init_registers
         IN /\ g.range = reg.range /\ g.vset = reg.vset /\ g.ctrl = reg.ctrl /\ g.limit = reg.limit
            /\ g.mode_pins \subseteq 0 .. 4 /\ g.enable_pins \subseteq 0 .. 3 /\ g.soft \in 0 .. 3
            /\ \E S : g \in RailRegs(S)
<1> DEFINE dt == want.dt  type == row.logical  pins == reg.mode_pins
           M == CASE HPM_HW_DEFAULT \in dt.hpm -> pins
                  [] HPM_HW_DEFAULT \notin dt.hpm /\ type \in {"SMPS", "LDO"} -> dt.hpm
                  [] HPM_HW_DEFAULT \notin dt.hpm
                     /\ type \in {"VS", "ULT_LO_SMPS", "ULT_HO_SMPS", "ULT_LDO"} ->
                       (pins \ {SLEEP_B}) \cup (dt.hpm \cap {SLEEP_B})
                  [] OTHER -> pins
           E == IF ENABLE_HW_DEFAULT \notin dt.enable /\ type \in {"SMPS", "LDO", "VS"}
                THEN dt.enable ELSE reg.enable_pins
           F == IF type = "VS" /\ dt.soft # 4 THEN dt.soft ELSE reg.soft
<1>1. PICK S : reg \in RailRegs(S)
  BY DEF ServeInv, RailShape
<1>2. spmi_regulator_init_registers = [reg EXCEPT !.enable_pins = E, !.mode_pins = M, !.soft = F]
  BY <1>1 DEF spmi_regulator_init_registers, RailRegs
<1>3. dt.hpm \subseteq 0 .. 5 /\ dt.enable \subseteq 0 .. 4 /\ dt.soft \in 0 .. 4
  BY SpmiAssumption DEF ServeInv, RailShape
<1>4. reg.mode_pins \subseteq 0 .. 4 /\ reg.enable_pins \subseteq 0 .. 3 /\ reg.soft \in 0 .. 3
  BY DEF ServeInv, PinTypes
<1> HIDE DEF dt, type, pins
<1>5. M \subseteq 0 .. 4
  <2>1. pins \subseteq 0 .. 4
    BY <1>4 DEF pins
  <2>2. HPM_HW_DEFAULT \notin dt.hpm => dt.hpm \subseteq 0 .. 4
    BY <1>3 DEF HPM_HW_DEFAULT
  <2> QED BY <1>3, <2>1, <2>2 DEF SLEEP_B
<1>6. E \subseteq 0 .. 3
  BY <1>3, <1>4 DEF ENABLE_HW_DEFAULT
<1>7. F \in 0 .. 3
  BY <1>3, <1>4
<1> HIDE DEF M, E, F
<1>8. [reg EXCEPT !.enable_pins = E, !.mode_pins = M, !.soft = F] \in RailRegs(S \cup {M, E, F})
  BY <1>1 DEF RailRegs
<1> DEFINE h == [reg EXCEPT !.enable_pins = E, !.mode_pins = M, !.soft = F]
<1>9. /\ h.range = reg.range /\ h.vset = reg.vset /\ h.ctrl = reg.ctrl /\ h.limit = reg.limit
      /\ h.mode_pins = M /\ h.enable_pins = E /\ h.soft = F
  BY <1>1 DEF RailRegs
<1>10. spmi_regulator_init_registers = h /\ \E T : h \in RailRegs(T)
  BY <1>2, <1>8
<1> HIDE DEF h
<1> QED BY <1>5, <1>6, <1>7, <1>9, <1>10

(* The range a rail is registered in is one of its table, or none.           *)
LEMMA RangeKnown ==
  ASSUME Placed, row.points # "none", spmi_regulator_find_range # 0
  PROVE  spmi_regulator_find_range \in 1 .. Len(pts)
<1> DEFINE known == {i \in DOMAIN pts : pts[i].range_sel = reg.range}
<1>1. DOMAIN pts = 1 .. Len(pts) /\ Len(pts) \in 1 .. 3
  BY TablesCounted DEF Counted
<1>2. known \subseteq 1 .. Len(pts) /\ known \subseteq {1, 2, 3}
  BY <1>1
<1>3. known # {} /\ spmi_regulator_find_range = Min(known)
  BY DEF spmi_regulator_find_range
<1> HIDE DEF known
<1> QED BY <1>2, <1>3, BottomOf

(* The rate a rail is registered with is the one of a step of its table.     *)
LEMMA RegisterPaces ==
  ASSUME ServeInv, Register, reg'.ctrl = reg.ctrl
  PROVE  Paced'
<1> DEFINE stepped == row.logical \in {"FTSMPS", "ULT_LO_SMPS", "ULT_HO_SMPS", "SMPS"}
           i == IF stepped THEN spmi_regulator_find_range ELSE 1
<1>1. /\ row' = row /\ (phase' = "up" => i # 0)
      /\ slew' = IF i = 0 \/ row.points = "none" THEN slew
                 ELSE [rate |-> SlewRate(pts[i].step), step |-> pts[i].step]
  BY DEF Register
<1>2. Placed
  BY AllPlaced DEF ServeInv
<1>3. CASE i = 0 \/ row.points = "none"
  <2>1. slew' = slew /\ slew.rate \in Nat /\ slew.rate <= MaxSlewRate
    BY <1>1, <1>3 DEF ServeInv, Paced
  <2>2. ~(phase' = "up" /\ HasTime)
    BY <1>1, <1>3, Timed DEF ServeInv
  <2>3. PICK q, v : q = slew.rate /\ v = slew.step
    OBVIOUS
  <2> QED BY <1>1, <2>1, <2>2, <2>3, PacedKept
<1>4. CASE i # 0 /\ row.points # "none"
  <2>1. i \in 1 .. Len(pts)
    <3>1. CASE stepped
      <4>1. i = spmi_regulator_find_range
        BY <3>1
      <4> QED BY <1>2, <1>4, <4>1, RangeKnown
    <3>2. CASE ~stepped
      <4>1. i = 1
        BY <3>2
      <4>2. Len(pts) \in 1 .. 3
        BY <1>2, <1>4, TablesCounted DEF Counted
      <4> HIDE DEF i
      <4> QED BY <4>1, <4>2, SMTT(30)
    <3> QED BY <3>1, <3>2
  <2>2. PICK u : u = pts[i].step
    OBVIOUS
  <2>3. Fine(u)
    BY <1>2, <1>4, <2>1, <2>2, FineSteps
  <2>4. SlewRate(u) \in Nat /\ SlewRate(u) <= MaxSlewRate
    <3>1. CASE HasTime
      <4>1. Ctrl
        BY <3>1 DEF ServeInv
      <4> QED BY <2>3, <3>1, <4>1, Timed, RateSlow DEF ServeInv
    <3>2. CASE ~HasTime
      <4>1. row.logical \in {"VS", "LDO", "BOOST", "BOOST_BYP", "ULT_LDO"}
        BY <3>2 DEF ServeInv, RowKind, HasTime
      <4>2. SlewRate(u) = 0
        BY <4>1, Rates DEF Stepped, Clocked
      <4> QED BY <4>2 DEF MaxSlewRate
    <3> QED BY <3>1, <3>2
  <2>5. slew'.rate = SlewRate(u) /\ slew'.step = u
    BY <1>1, <1>4, <2>2
  <2>6. PICK q : q = SlewRate(u)
    OBVIOUS
  <2> QED BY <1>1, <2>3, <2>4, <2>5, <2>6, PacedKept
<1> QED BY <1>3, <1>4

LEMMA RegisterServes ==
  ASSUME ServeInv, RailShape', Register
  PROVE  ServeInv'
<1> DEFINE g == spmi_regulator_init_registers
           l == IF phase' = "up" /\ Limits THEN spmi_regulator_set_ilim ELSE g.limit
<1>1. /\ g.range = reg.range /\ g.vset = reg.vset /\ g.ctrl = reg.ctrl /\ g.limit = reg.limit
      /\ g.mode_pins \subseteq 0 .. 4 /\ g.enable_pins \subseteq 0 .. 3 /\ g.soft \in 0 .. 3
      /\ \E S : g \in RailRegs(S)
  BY RegistersHold
<1>2. /\ row' = row /\ want' = want /\ reg' = [g EXCEPT !.limit = l]
      /\ phase' = "up" => ~(Limits /\ want.dt.ilim > 8 * 500)
  BY DEF Register
<1>3. l \in {NoLimit} \cup 0 .. 7
  <2>1. CASE phase' = "up" /\ Limits
    <3> DEFINE n == want.dt.ilim
    <3>1. n \in Nat /\ n # 0 /\ n <= 4000
      BY <1>2, <2>1, SpmiAssumption DEF ServeInv, RailShape, Limits
    <3> HIDE DEF n
    <3>2. (n - 1) \div 500 \in 0 .. 7
      BY <3>1
    <3> QED BY <2>1, <3>2 DEF spmi_regulator_set_ilim, n
  <2>2. CASE ~(phase' = "up" /\ Limits)
    BY <1>1, <2>2 DEF ServeInv, PinTypes
  <2> QED BY <2>1, <2>2
<1> HIDE DEF g, l
<1>4. /\ reg'.range = reg.range /\ reg'.vset = reg.vset /\ reg'.ctrl = reg.ctrl /\ reg'.limit = l
      /\ reg'.mode_pins = g.mode_pins /\ reg'.enable_pins = g.enable_pins /\ reg'.soft = g.soft
  BY <1>1, <1>2 DEF RailRegs
<1>5. PinTypes'
  BY <1>1, <1>3, <1>4 DEF PinTypes, NoLimit
<1>6. /\ RowKind(row)' /\ (HasTime => Ctrl)' /\ Code(reg.vset)'
      /\ (row \in Range(supported_regulators))'
  BY <1>2, <1>4 DEF ServeInv, RowKind, HasTime, Ctrl, Code, Layout
<1>7. LeaderFirst'
  BY <1>2, <1>4 DEF ServeInv, LeaderFirst, Leader, Layout, pts
<1>8. Paced'
  BY <1>4, RegisterPaces
<1>9. RequestMet' /\ Kept'
  <2>1. Layout' = Layout /\ pts' = pts
    BY <1>2 DEF Layout, pts
  <2>2. spmi_regulator_find_range' = spmi_regulator_find_range
    BY <1>4, <2>1 DEF spmi_regulator_find_range
  <2>3. OutUV' = OutUV
    BY <1>4, <2>1, <2>2 DEF OutUV
  <2>4. GetSel' = GetSel /\ (HasTime' <=> HasTime)
    BY <1>2, <1>4, <2>1, <2>2 DEF GetSel, HasTime
  <2> QED BY <1>2, <2>3, <2>4 DEF ServeInv, RequestMet, Kept, Readable
<1> QED BY <1>5, <1>6, <1>7, <1>8, <1>9 DEF ServeInv

LEMMA NextServe ==
  ASSUME AllServed
  PROVE  ServeInv /\ RailShape' /\ [RegulatorNext]_regulatorVars => ServeInv'
<1> SUFFICES ASSUME ServeInv, RailShape', [RegulatorNext]_regulatorVars PROVE ServeInv'
  OBVIOUS
<1>1. CASE Register
  BY <1>1, RegisterServes
<1>2. CASE LeaveSlave
  BY <1>2, ServeModes DEF LeaveSlave
<1>3. CASE \E lo, hi \in Marks : lo <= hi /\ SetVoltage(lo, hi)
  BY <1>3, SetVoltageServes
<1>4. CASE \E m \in {"normal", "fast", "idle"} : SetMode(m)
  BY <1>4, SetModeServes
<1>5. CASE \E load \in {row.hpm - 1, row.hpm} : spmi_regulator_common_set_load(load)
  BY <1>5, LoadServes
<1>6. CASE \E b \in BOOLEAN : spmi_regulator_common_set_bypass(b)
  BY <1>6, BypassServes
<1>7. CASE VsReset \/ VsEnable \/ VsDisable \/ Short \/ Late
  BY <1>7, ServeModes DEF VsReset, VsEnable, VsDisable, Short, Late
<1>8. CASE IsrStart \/ IsrRead \/ IsrCount \/ IsrClear
  BY <1>8, ServeModes DEF IsrStart, IsrRead, IsrCount, IsrClear
<1>9. CASE WorkStart \/ WorkClear
  BY <1>9, ServeModes DEF WorkStart, WorkClear
<1>10. CASE UNCHANGED regulatorVars
  BY <1>10, ServeModes DEF regulatorVars
<1> QED BY <1>1, <1>2, <1>3, <1>4, <1>5, <1>6, <1>7, <1>8, <1>9, <1>10 DEF RegulatorNext

(* Of a PMIC whose rails are of the kinds the tables serve, and a SAW that   *)
(* finds the first range and acts in time, every request a set point meets   *)
(* has a selector; a rail that can be read grants it, is still read after    *)
(* it, puts out and reports what was asked, and is waited for                *)
(* (select_voltage(), set_voltage_sel() and get_voltage_sel() of each        *)
(* layout, init_slew_rate() and set_voltage_time_sel()).                     *)
THEOREM RailRequestsServed ==
  ASSUME AllServed
  PROVE  RegulatorSpec => []RequestsServed
<1>1. RegulatorInit => RailInv /\ TallyInv /\ ServeInv
  BY InitRail, InitTally, InitServe
<1>2. RailInv /\ TallyInv /\ ServeInv /\ [RegulatorNext]_regulatorVars => (RailInv /\ TallyInv /\ ServeInv)'
  <2> SUFFICES ASSUME RailInv, TallyInv, ServeInv, [RegulatorNext]_regulatorVars
               PROVE  RailInv' /\ TallyInv' /\ ServeInv'
    OBVIOUS
  <2>1. RailInv' /\ TallyInv'
    BY NextRail, NextTally
  <2>2. RailShape'
    BY <2>1 DEF RailInv
  <2> QED BY <2>1, <2>2, NextServe
<1>3. RailInv /\ TallyInv /\ ServeInv => RequestsServed
  BY ServesNow, TypesNow DEF RequestsServed
<1> QED BY <1>1, <1>2, <1>3, PTL DEF RegulatorSpec
=============================================================================
