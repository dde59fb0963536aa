------------------------------ MODULE R63319Panel ------------------------------
(***************************************************************************)
(* The driver of the tablet's panel (panel-samsung-r63319.c): supplies,    *)
(* lines and commands of a panel behind one or two DSI links, called by    *)
(* the display pipeline as it is switched on and off, and re-initialised   *)
(* by hand through a module parameter.  A command may fail on any link,    *)
(* after which the rest of its sequence is skipped.  The panel wakes some  *)
(* time after it is told to, or not at all, and falls asleep by itself     *)
(* when no video reaches it.                                               *)
(***************************************************************************)
EXTENDS Integers, Sequences, FiniteSets

CONSTANTS
  NumLinks,       \* DSI links: 1 or 2
  Attempts,       \* tries to wake the panel: 4 in the code
  Polls,          \* looks at the panel after each: 12 in the code
  InheritValues,  \* values inherit_splash is given
  ReinitWhen,     \* when reinit is written: never, steady or any
  AttachFails     \* a DSI host may be missing when the driver attaches

ASSUME PanelAssumption ==
  /\ NumLinks \in 1 .. 2
  /\ Attempts \in Nat \ {0} /\ Polls \in Nat \ {0}
  /\ InheritValues \subseteq BOOLEAN /\ InheritValues # {}
  /\ ReinitWhen \in {"never", "steady", "any"}
  /\ AttachFails \in BOOLEAN

Links == 1 .. NumLinks
MaxSupplies == 3        \* bound: enables of the supplies that are counted

VARIABLES
  bound,     \* the driver is bound to the panel
  dbg,       \* r63319_dbg_ctx: none, live, or the context of a failed probe
  inherit,   \* inherit_splash
  disp,      \* where the display pipeline is
  host,      \* the DSI hosts: powered, and streaming video
  fw,        \* what drm_panel remembers: prepared and enabled
  pw,        \* the supplies' use count, the reset and the enable line
  link,      \* the panel as each link sees it
  try,       \* r63319_enable(): attempt, poll, accum_err, and did link 0 wake
  claim,     \* the driver reported that the panel is lit
  reinit,    \* the writer of the parameter
  refused,   \* a command went to a host without power
  whose      \* who set the panel up: the bootloader, the driver, or the
             \* driver on top of what it had adopted

vars == <<bound, dbg, inherit, disp, host, fw, pw, link, try, claim, reinit, refused, whose>>

Asleep == [regs |-> FALSE, waking |-> FALSE, awake |-> FALSE, on |-> FALSE]

Dead   == [l \in Links |-> Asleep]

TypeOK ==
  /\ bound \in BOOLEAN
  /\ dbg \in {"none", "live", "freed"}
  /\ inherit \in BOOLEAN
  /\ disp \in {"off", "prepare", "reset", "init", "stream", "wake", "poll", "light",
               "on", "unprepare", "down"}
  /\ host \in [power : BOOLEAN, video : BOOLEAN]
  /\ fw \in [prepared : BOOLEAN, enabled : BOOLEAN]
  /\ pw \in [supplies : 0 .. MaxSupplies, reset : BOOLEAN, enable : BOOLEAN]
  /\ link \in [Links -> [regs : BOOLEAN, waking : BOOLEAN, awake : BOOLEAN, on : BOOLEAN]]
  /\ try \in [attempt : 1 .. Attempts, poll : 0 .. Polls - 1, err : BOOLEAN, woke : BOOLEAN]
  /\ claim \in BOOLEAN
  /\ reinit \in {"idle", "init"}
  /\ refused \in BOOLEAN
  /\ whose \in {"boot", "ours", "adopted"}

-------------------------------------------------------------------------------
(* Modes: pixels to the sync pulse, to its end, and in all, per line.      *)

r63319_mode_dual ==
  [clock |-> 320622, hdisplay |-> 1600, hsync_start |-> 1900, hsync_end |-> 1940,
   htotal |-> 2068, vdisplay |-> 2560, vsync_start |-> 2572, vsync_end |-> 2576,
   vtotal |-> 2584]

r63319_mode_single ==
  [clock |-> 160311, hdisplay |-> 800, hsync_start |-> 950, hsync_end |-> 970,
   htotal |-> 1034, vdisplay |-> 2560, vsync_start |-> 2572, vsync_end |-> 2576,
   vtotal |-> 2584]

-------------------------------------------------------------------------------
(* Commands.                                                               *)

Powered(p) == p.supplies > 0 /\ p.enable /\ ~p.reset

(* r63319_dual(): a command to the first n links, in turn.                 *)
Dual(cmd, n) == [i \in 1 .. n |-> <<cmd, i>>]

(* A link hears a command among the first k of a sequence.                 *)
Heard(s, k, l, cmd) == \E i \in 1 .. k : s[i] = <<cmd, l>>

(* The panel after the first k commands of a sequence, none of which both  *)
(* lights it and makes it dark.                                            *)
After(s, k) ==
  IF ~Powered(pw) THEN link
  ELSE [l \in Links |->
          [link[l] EXCEPT !.regs   = @ \/ Heard(s, k, l, "regs"),
                          !.waking = @ \/ Heard(s, k, l, "wake"),
                          !.on     = (@ \/ Heard(s, k, l, "on")) /\ ~Heard(s, k, l, "dark")]]

(* The commands of s go out until one fails: err tells whether one did.  A *)
(* host without power refuses the first.                                   *)
Send(s, err) ==
  /\ refused' = (refused \/ (s # <<>> /\ ~host.power))
  /\ IF ~host.power THEN link' = link /\ err
     ELSE \E k \in 0 .. Len(s) : link' = After(s, k) /\ (err <=> k < Len(s))

(* r63319_send_init().                                                     *)
InitSeq == Dual("regs", NumLinks) \o Dual("wake", NumLinks) \o Dual("on", NumLinks)

(* r63319_reset(): the panel forgets everything.                           *)
Reset == link' = [l \in Links |-> Asleep] /\ pw' = [pw EXCEPT !.reset = FALSE]

(* Lines and supplies as r63319_unprepare() leaves them.                   *)
PowerDown(p) == [supplies |-> p.supplies - 1, reset |-> TRUE, enable |-> FALSE]

(* Mutant: the supplies stay on after an init that failed.                 *)
PrepareFailed_KeepsSupplies(p) == [p EXCEPT !.reset = TRUE, !.enable = FALSE]

PrepareFailed(p) == PowerDown(p)

-------------------------------------------------------------------------------
(* The driver binds and unbinds.                                           *)

(* A probe that cannot attach leaves the registered context behind.        *)
r63319_probe ==
  /\ ~bound
  /\ \/ bound' = TRUE /\ dbg' = "live"
     \/ AttachFails /\ bound' = FALSE /\ dbg' = "freed"
  /\ UNCHANGED <<inherit, disp, host, fw, pw, link, try, claim, reinit, refused, whose>>

r63319_remove ==
  /\ bound /\ disp = "off"
  /\ bound' = FALSE /\ dbg' = "none"
  /\ UNCHANGED <<inherit, disp, host, fw, pw, link, try, claim, reinit, refused, whose>>

SetInherit(v) ==
  /\ inherit # v
  /\ inherit' = v
  /\ UNCHANGED <<bound, dbg, disp, host, fw, pw, link, try, claim, reinit, refused, whose>>

-------------------------------------------------------------------------------
(* The display pipeline goes up.                                           *)

Still == UNCHANGED <<bound, dbg, inherit, reinit>>
Own   == Still /\ UNCHANGED whose

(* From now on the driver's own, or not: u tells whether it adopted it.    *)
Whose(u) == whose' = IF u \/ whose = "adopted" THEN "adopted" ELSE "ours"

(* While reinit is written in steady state only, the pipeline stands still. *)
Free == ReinitWhen = "any" \/ reinit = "idle"

(* The hosts come up before the panel is prepared.                         *)
prepare_prev_first == TRUE

Up ==
  /\ disp = "off" /\ bound /\ Free /\ pw.supplies < MaxSupplies
  /\ disp' = "prepare"
  /\ host' = [host EXCEPT !.power = prepare_prev_first]
  /\ Own /\ UNCHANGED <<fw, pw, link, try, claim, refused>>

(* r63319_prepare(), to the enable line.  The power mode is only logged.   *)
Prepare ==
  /\ disp = "prepare" /\ Free
  /\ \/ \* regulator_bulk_enable() fails
        disp' = "stream" /\ UNCHANGED <<fw, pw, refused, whose>>
     \/ /\ refused' = (refused \/ ~host.power)
        /\ Whose(inherit)
        /\ IF inherit
           THEN /\ disp' = "stream"
                /\ pw' = [pw EXCEPT !.supplies = @ + 1]
                /\ fw' = [fw EXCEPT !.prepared = TRUE]
           ELSE /\ disp' = "reset"
                /\ pw' = [pw EXCEPT !.supplies = @ + 1, !.enable = TRUE]
                /\ UNCHANGED fw
  /\ Still /\ UNCHANGED <<host, link, try, claim>>

ResetPanel ==
  /\ disp = "reset" /\ Free
  /\ disp' = "init"
  /\ Reset
  /\ Own /\ UNCHANGED <<host, fw, try, claim, refused>>

(* r63319_on() and the error path of r63319_prepare().                     *)
On ==
  /\ disp = "init" /\ Free
  /\ disp' = "stream"
  /\ \/ Send(InitSeq, FALSE) /\ fw' = [fw EXCEPT !.prepared = TRUE] /\ UNCHANGED pw
     \/ /\ refused' = (refused \/ ~host.power)
        /\ pw' = PrepareFailed(pw)
        /\ link' = Dead
        /\ UNCHANGED fw
  /\ Own /\ UNCHANGED <<host, try, claim>>

(* Video starts; drm_panel_enable() passes over a panel it holds enabled.  *)
Stream ==
  /\ disp = "stream" /\ Free
  /\ host' = [power |-> TRUE, video |-> TRUE]
  /\ disp' = IF fw.enabled THEN "on" ELSE "wake"
  /\ try' = [attempt |-> 1, poll |-> 0, err |-> FALSE, woke |-> FALSE]
  /\ Own /\ UNCHANGED <<fw, pw, link, claim, refused>>

(* Mutant: the first attempt goes to link 0 alone.                         *)
WakeLinks_EvenFirst(attempt) == IF attempt % 2 = 0 THEN NumLinks ELSE 1

WakeLinks(attempt) == IF attempt % 2 = 1 THEN NumLinks ELSE 1

Sending(s, next) ==
  IF try.err THEN UNCHANGED <<link, refused>> /\ try' = next
  ELSE \E err \in BOOLEAN : Send(s, err) /\ try' = [next EXCEPT !.err = err]

(* r63319_enable(): the command that wakes the panel.                      *)
Wake ==
  /\ disp = "wake" /\ Free
  /\ disp' = "poll"
  /\ Sending(Dual("wake", WakeLinks(try.attempt)), [try EXCEPT !.poll = 0])
  /\ Own /\ UNCHANGED <<host, fw, pw, claim>>

(* Mutant: the attempts are not counted.                                   *)
NextAttempt_Same == try.attempt

NextAttempt == try.attempt + 1

(* It looks whether link 0 is awake, some times after each attempt.        *)
Poll ==
  /\ disp = "poll" /\ Free
  /\ refused' = (refused \/ ~host.power)
  /\ \/ /\ link[1].awake /\ Powered(pw) /\ host.power
        /\ disp' = "light" /\ try' = [try EXCEPT !.woke = TRUE]
     \/ IF try.poll < Polls - 1
        THEN try' = [try EXCEPT !.poll = @ + 1] /\ UNCHANGED disp
        ELSE IF try.attempt < Attempts
        THEN try' = [try EXCEPT !.attempt = NextAttempt, !.poll = 0] /\ disp' = "wake"
        ELSE disp' = "light" /\ UNCHANGED try
  /\ Own /\ UNCHANGED <<host, fw, pw, link, claim>>

(* Its end: the display is lit whether or not the panel woke.              *)
Light ==
  /\ disp = "light" /\ Free
  /\ disp' = "on"
  /\ Sending(Dual("on", NumLinks), try)
  /\ fw' = [fw EXCEPT !.enabled = ~try'.err]
  /\ claim' = (~try'.err /\ try.woke)
  /\ Own /\ UNCHANGED <<host, pw>>

-------------------------------------------------------------------------------
(* And down.                                                               *)

(* r63319_disable(); a panel that fails to go dark stays enabled for drm.  *)
Disable ==
  /\ disp = "on" /\ Free
  /\ IF ~fw.enabled THEN UNCHANGED <<link, refused, fw>>
     ELSE \E err \in BOOLEAN : Send(Dual("dark", NumLinks), err) /\ fw' = [fw EXCEPT !.enabled = err]
  /\ disp' = "unprepare"
  /\ host' = [host EXCEPT !.video = FALSE]
  /\ claim' = FALSE
  /\ Own /\ UNCHANGED <<pw, try>>

Unprepared(adopted) ==
  /\ disp = "unprepare" /\ Free
  /\ IF adopted THEN UNCHANGED <<link, pw, refused>>
     ELSE /\ refused' = (refused \/ ~host.power)
          /\ link' = Dead
          /\ pw' = PowerDown(pw)
  /\ fw' = [fw EXCEPT !.prepared = FALSE]
  /\ disp' = "down"
  /\ IF fw.prepared THEN Whose(adopted) ELSE UNCHANGED whose
  /\ Still /\ UNCHANGED <<host, try, claim>>

(* r63319_unprepare(): what r63319_off() returns is ignored.               *)
Unprepare == Unprepared(~fw.prepared \/ inherit)

Down ==
  /\ disp = "down" /\ Free
  /\ disp' = "off"
  /\ host' = [power |-> FALSE, video |-> FALSE]
  /\ Own /\ UNCHANGED <<fw, pw, link, try, claim, refused>>

-------------------------------------------------------------------------------
(* The parameter: r63319_reinit_set() resets the panel and inits it again. *)

ReinitReset ==
  /\ reinit = "idle" /\ dbg # "none"
  /\ ReinitWhen = "any" \/ (ReinitWhen = "steady" /\ disp = "on" /\ fw.prepared)
  /\ reinit' = "init"
  /\ Reset
  /\ claim' = FALSE
  /\ UNCHANGED <<bound, dbg, inherit, disp, host, fw, try, refused, whose>>

ReinitOn ==
  /\ reinit = "init"
  /\ reinit' = "idle"
  /\ \E err \in BOOLEAN : Send(InitSeq, err) /\ claim' = (~err /\ disp = "on")
  /\ UNCHANGED <<bound, dbg, inherit, disp, host, fw, pw, try, whose>>

-------------------------------------------------------------------------------
(* The panel itself.                                                       *)

Latch(l) ==
  /\ link[l].waking /\ Powered(pw)
  /\ link' = [link EXCEPT ![l].awake = TRUE, ![l].waking = FALSE]
  /\ UNCHANGED <<bound, dbg, inherit, disp, host, fw, pw, try, claim, reinit, refused, whose>>

FallAsleep(l) ==
  /\ link[l].awake /\ ~host.video
  /\ link' = [link EXCEPT ![l].awake = FALSE]
  /\ UNCHANGED <<bound, dbg, inherit, disp, host, fw, pw, try, claim, reinit, refused, whose>>

Init ==
  /\ bound = FALSE /\ dbg = "none"
  /\ inherit \in InheritValues
  /\ disp = "off"
  /\ host = [power |-> FALSE, video |-> FALSE]
  /\ fw = [prepared |-> FALSE, enabled |-> FALSE]
  /\ pw = [supplies |-> 0, reset |-> FALSE, enable |-> TRUE]  \* GPIOD_ASIS
  /\ link = [l \in Links |-> [regs |-> TRUE, waking |-> FALSE, awake |-> TRUE, on |-> TRUE]]
  /\ try = [attempt |-> 1, poll |-> 0, err |-> FALSE, woke |-> FALSE]
  /\ claim = FALSE
  /\ reinit = "idle"
  /\ refused = FALSE
  /\ whose = "boot"

Display == Up \/ Prepare \/ ResetPanel \/ On \/ Stream \/ Wake \/ Poll \/ Light
           \/ Disable \/ Unprepare \/ Down

Next ==
  \/ r63319_probe \/ r63319_remove
  \/ \E v \in InheritValues : SetInherit(v)
  \/ Display
  \/ ReinitReset \/ ReinitOn
  \/ \E l \in Links : Latch(l) \/ FallAsleep(l)

(* A mode set that has begun runs on, and so does a write to the parameter. *)
Fairness == WF_vars(Display /\ disp \notin {"off", "on"}) /\ WF_vars(ReinitOn)

Spec == Init /\ [][Next]_vars /\ Fairness

-------------------------------------------------------------------------------
(* A panel that is not prepared has no supply, is held in reset and not    *)
(* enabled, whatever failed on the way; a prepared one has each supply     *)
(* once.  Adopting the panel of the bootloader loses count.                *)
PowerBalanced ==
  whose = "ours" /\ disp \notin {"reset", "init"} =>
    pw = IF fw.prepared THEN [supplies |-> 1, reset |-> FALSE, enable |-> TRUE]
         ELSE [supplies |-> 0, reset |-> TRUE, enable |-> FALSE]

(* "dsi_host_transfer() rejects every DCS command" without power: none is  *)
(* sent then.                                                              *)
NeverRefused == ~refused

(* When the driver reports success and an awake panel, each link was told  *)
(* to wake and to light up, and nothing since then undid it.               *)
LitWhenClaimed ==
  claim /\ whose # "adopted" =>
    /\ host.video /\ Powered(pw)
    /\ \A l \in Links : link[l].on /\ (link[l].awake \/ link[l].waking) /\ link[l].regs

(* Halved for each link, as the encoder and the DSI host do, the mode of   *)
(* two links is that of one; both ask for 60 frames a second.              *)
ModesHalve ==
  LET d == r63319_mode_dual  s == r63319_mode_single
      Hz(m) == (m.clock * 1000) \div (m.htotal * m.vtotal)
  IN  bound =>
      /\ \A f \in {"hdisplay", "hsync_start", "hsync_end", "htotal", "clock"} : d[f] = 2 * s[f]
      /\ \A f \in {"vdisplay", "vsync_start", "vsync_end", "vtotal"} : d[f] = s[f]
      /\ Hz(d) = 59 /\ Hz(s) = 59

(* Switching the display on or off ends, also when the panel never wakes.  *)
SwitchEnds == disp \notin {"off", "on"} ~> disp \in {"off", "on"}

(* Power is taken and given back in pairs, and there for every command.    *)
PowerSound == PowerBalanced /\ NeverRefused

(* A panel that is claimed to be lit is, on both links, with the halves of *)
(* one mode.                                                               *)
PictureSound == TypeOK /\ LitWhenClaimed /\ ModesHalve
==============================================================================
