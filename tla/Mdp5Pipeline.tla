----------------------------- MODULE Mdp5Pipeline -----------------------------
(***************************************************************************)
(* From a board to pictures on its displays: the driver finds its tables,   *)
(* builds its objects (mdp5_kms.c), and routes each CRTC through one or two *)
(* layer mixers (mdp5_mixer.c), a CTL (mdp5_ctl.c) and an interface         *)
(* (mdp5_encoder.c, mdp5_cmd_encoder.c).  A commit is checked and swapped   *)
(* in as one step; its tail disables what was on and enables what is to be, *)
(* and the tails of two CRTCs interleave.                                   *)
(*                                                                         *)
(* Mixers and CTLs are counted from 1, 0 is NULL; an interface is named by  *)
(* the position of its encoder.  Time-outs, planes and their stages on the  *)
(* hardware, and blanking without a modeset are in other modules.           *)
(***************************************************************************)
EXTENDS Mdp5BringUp, TLC

CONSTANTS
  Boards,     \* the boards: hardware version, what is connected, parameters
  Modes,      \* the display modes of a panel and of an HDMI monitor
  Switches,   \* what may change while it is in use: "mixers", "display"
  Faults      \* what may fail: "alloc", "aspace", "dsi", "clk"

VARIABLES
  board,  \* the board this is, chosen by whoever built it
  kms,    \* struct mdp5_kms, once it is up
  users,  \* holders of the power domain
  owner,  \* hwmixer_to_crtc
  cs,     \* crtc->state
  tail,   \* the tail of the last commit of each CRTC: step, encoder to disable
  on,     \* mdp5_encoder->enabled
  irqs,   \* interrupt handlers each CRTC has registered
  vsync,  \* enables of the vsync clock
  live,   \* CTLs with encoder_enabled: their encoder is ready for data
  hw      \* registers

vars == <<board, kms, users, owner, cs, tail, on, irqs, vsync, live, hw>>

\* ---------------------------------------------------------------- bring-up

(* The five interfaces in their order.                                       *)
ForEachIntf(Call(_, _), st) == Call(Call(Call(Call(Call(st, 0), 1), 2), 3), 4)

modeset_init_intfs(b, h, dsiFails) ==
    LET Call(st, num) == modeset_init_intf(b, h, dsiFails, st, num)
        none == [status |-> CtlStatus(h), encoders |-> <<>>, ok |-> TRUE]
    IN  ForEachIntf(Call, none)

PipeCount(chip) ==
    chip.pipes.RGB + chip.pipes.VIG + chip.pipes.DMA + chip.pipes.CURSOR

(* The type of plane i, counted from 0: pipes come in the order RGB, VIG,    *)
(* DMA, cursor.                                                              *)
PlaneType(chip, crtcs, i) ==
    CASE i < crtcs -> "PRIMARY"
      [] i >= crtcs /\ i >= PipeCount(chip) - chip.pipes.CURSOR -> "CURSOR"
      [] OTHER -> "OVERLAY"

(* What modeset_init() makes of a chip and its encoders.                     *)
modeset_init(h, ms) ==
    [phase |-> "up", hw |-> h.hw, revision |-> h.revision,
     encoders |-> ms.encoders, crtcs |-> SetMin({Len(ms.encoders), Len(h.hw.lm)})]

NoKms(phase) ==
    [phase |-> phase, hw |-> [lm |-> <<>>], revision |-> 0, encoders |-> <<>>, crtcs |-> 0]

\* ---------------------------------------------------------------- state

Chip == kms.hw

Crtcs == 1..kms.crtcs
Encoders == DOMAIN kms.encoders
Mixers == DOMAIN Chip.lm

(* struct drm_display_mode, as far as it is used.                            *)
ModeType ==
    [{"hdisplay", "hsync_start", "htotal", "vdisplay", "vsync_start", "vtotal", "vrefresh"} -> Nat]

ASSUME ModesAssumption == \A type \in {"DSI", "HDMI"} : Modes[type] \subseteq ModeType

(* A panel on two links is a video-mode panel, only a panel on two links is  *)
(* forced to be split, and a command-mode panel is on a chip with ping-pong  *)
(* blocks.                                                                   *)
ASSUME BoardsAssumption ==
    \A b \in Boards :
        /\ b.split = 1 => b.bonded
        /\ b.bonded => ~b.cmd
        /\ \A h \in mdp5_cfg_init(b.major, b.minor) : b.cmd => h.hw.pp > 0

NoMode ==
    [hdisplay |-> 0, hsync_start |-> 0, htotal |-> 0, vdisplay |-> 0,
     vsync_start |-> 0, vtotal |-> 0, vrefresh |-> 0]

OffState ==
    [enc |-> 0, mode |-> NoMode, mixer |-> 0, r_mixer |-> 0, intf |-> 0, r_intf |-> 0,
     ctl |-> 0, r_ctl |-> 0, vblank |-> <<>>, err |-> {}, cmd_mode |-> FALSE]

IsSplit(s) == s.r_intf # 0

(* Registers after power-up: nothing runs, nothing is routed.                *)
NoRegisters ==
    [timing |-> {}, split |-> FALSE, out |-> <<>>, program |-> <<>>, sel |-> <<>>,
     op |-> <<>>, pp |-> <<>>, tear |-> {}, start |-> {}]

Idle == [step |-> "idle", enc |-> 0]

(* f with x mapped to v.                                                     *)
Put(f, x, v) == [y \in DOMAIN f \union {x} |-> IF y = x THEN v ELSE f[y]]

\* ---------------------------------------------------------------- mixers

lm_right_pair == <<1, -1, 5, -1, -1, -1>>

(* Mutant: the right half is the next mixer of the table.                    *)
get_right_pair_idx_Next(m) ==
    IF m + 1 \in Mixers THEN m + 1 ELSE 0

(* The mixer that is the right half of mixer m, 0 if there is none.          *)
get_right_pair_idx(m) ==
    LET pair_lm == lm_right_pair[Chip.lm[m].id + 1]
        Found == {i \in Mixers : Chip.lm[i].id = pair_lm}
    IN  IF Found = {} THEN 0 ELSE SetMin(Found)

(* Mixers a CRTC may be given: not another's, and with the capabilities.     *)
InReach(c, caps) == {m \in Mixers : owner[m] \in {0, c} /\ caps \subseteq Chip.lm[m].caps}

(* mdp5_mixer_assign() to CRTC c, which has mixer now (0: none): the loop    *)
(* ends with the last mixer that can be paired, or with the first of all.    *)
(* The loop gives up at the first mixer in reach without a right half.       *)
mdp5_mixer_assign(c, mixer, need) ==
    LET Reach == InReach(c, IF need THEN Paired ELSE Display)
        Free == {m \in Reach : need => owner[get_right_pair_idx(m)] = 0}
        Pairable == {m \in Free : "PAIR" \in Chip.lm[m].caps}
        left == CASE Pairable # {} -> SetMax(Pairable)
                  [] Pairable = {} /\ mixer # 0 -> mixer
                  [] Pairable = {} /\ mixer = 0 /\ Free # {} -> SetMin(Free)
                  [] OTHER -> 0
        right == IF need /\ Free # {} THEN get_right_pair_idx(SetMax(Free)) ELSE 0
    IN  IF need /\ \E m \in Reach : get_right_pair_idx(m) = 0
        THEN [ok |-> FALSE]
        ELSE IF left = 0 \/ (need /\ right = 0) THEN [ok |-> FALSE]
        ELSE [ok |-> TRUE, mixer |-> left, r_mixer |-> right,
              owner |-> [m \in Mixers |-> IF m \in {left, right} THEN c ELSE owner[m]]]

(* mdp5_mixer_release() of the mixers Old; one that nobody owns is an error. *)
mdp5_mixer_release(own, Old) ==
    [ok |-> \A m \in Old \ {0} : own[m] # 0,
     owner |-> [m \in DOMAIN own |-> IF m \in Old THEN 0 ELSE own[m]]]

\* ---------------------------------------------------------------- check

mdp5_encoder_is_split_master(e) ==
    /\ kms.encoders[e].type = "DSI"
    /\ kms.encoders[e].num = 1
    /\ \/ board.split = 1
       \/ board.split = -1 /\ 0 \in board.dsi /\ board.bonded /\ kms.revision < 3

mdp5_encoder_find_intf(num) ==
    LET Found == {e \in Encoders : kms.encoders[e].num = num}
    IN  IF Found = {} THEN 0 ELSE SetMin(Found)

(* mdp5_encoder_atomic_check(): the split master borrows the slave's half.   *)
EncoderCheck(s, e) ==
    LET slave == IF mdp5_encoder_is_split_master(e) THEN mdp5_encoder_find_intf(2) ELSE 0
    IN  [ok |-> mdp5_encoder_is_split_master(e) => slave # 0,
         state |-> [s EXCEPT !.ctl = kms.encoders[e].ctl, !.intf = e, !.r_intf = slave,
                             !.r_ctl = IF slave = 0 THEN 0 ELSE kms.encoders[slave].ctl]]

IsCmd(e) == kms.encoders[e].type = "DSI" /\ kms.encoders[e].mode = "command"

(* intf2vblank(): in command mode the ping-pong block tells the frames.      *)
intf2vblank(m, e) ==
    IF IsCmd(e) THEN <<"rd_ptr", Chip.lm[m].pp>> ELSE <<"vsync", kms.encoders[e].num>>

Masks(s) ==
    [s EXCEPT !.err = {kms.encoders[e].num : e \in {s.intf, s.r_intf} \ {0}},
              !.vblank = intf2vblank(s.mixer, s.intf),
              !.cmd_mode = IsCmd(s.intf)]

need_right_mixer(s, r) ==
    r.wide \/ r.mode.hdisplay > Chip.max_width \/ IsSplit(s)

(* Mutant: the right half is forgotten.                                      *)
OldMixers_Left(s) == {s.mixer}

OldMixers(s) == {s.mixer, s.r_mixer}

(* mdp5_crtc_setup_pipeline(): new mixers when their number changes, the old *)
(* ones given back afterwards.                                               *)
mdp5_crtc_setup_pipeline(c, s, need) ==
    LET new_mixer == s.mixer = 0 \/ need # (s.r_mixer # 0)
        asg == mdp5_mixer_assign(c, s.mixer, need)
        rel == mdp5_mixer_release(asg.owner, OldMixers(s))
    IN  CASE ~new_mixer -> [ok |-> TRUE, owner |-> owner, state |-> Masks(s)]
          [] new_mixer /\ ~asg.ok -> [ok |-> FALSE]
          [] OTHER ->
                [ok |-> rel.ok, owner |-> rel.owner,
                 state |-> Masks([s EXCEPT !.mixer = asg.mixer, !.r_mixer = asg.r_mixer])]

(* There is a modeset when the display or its mode changes.                  *)
Modeset(c, r) == r.enc # cs[c].enc \/ r.mode # cs[c].mode

(* The whole check of a request to CRTC c: encoder first if there is a       *)
(* modeset, then the CRTC.  A CRTC that is off has no visible plane.         *)
AtomicCheck(c, r) ==
    LET asked == [cs[c] EXCEPT !.enc = r.enc, !.mode = r.mode]
        encoder == IF Modeset(c, r) THEN EncoderCheck(asked, r.enc)
                   ELSE [ok |-> TRUE, state |-> asked]
        crtc == mdp5_crtc_setup_pipeline(c, encoder.state,
                                         need_right_mixer(encoder.state, r))
    IN  CASE r.enc = 0 -> [ok |-> TRUE, owner |-> owner, state |-> asked]
          [] r.enc # 0 /\ (~encoder.ok \/ ~crtc.ok) -> [ok |-> FALSE]
          [] OTHER -> crtc

\* ---------------------------------------------------------------- bring-up

Init ==
    /\ board \in Boards
    /\ kms = NoKms("none")
    /\ users = 0
    /\ owner = <<>>
    /\ cs = <<>>
    /\ tail = <<>>
    /\ on = <<>>
    /\ irqs = <<>>
    /\ vsync = 0
    /\ live = {}
    /\ hw \in {NoRegisters,  \* the boot loader may have left a picture on
               [NoRegisters EXCEPT !.timing = {1}, !.sel = (1 :> "DSI"),
                                   !.op = (1 :> [intf |-> 1, cmd |-> FALSE,
                                                 pack |-> FALSE])]}

(* mdp5_kms_init() fails: no table for the version, no memory, no address    *)
(* space (which keeps the power reference taken before it), no DSI host.     *)
KmsInitFails ==
    /\ kms.phase = "none"
    /\ LET Found == mdp5_cfg_init(board.major, board.minor)
       IN  \/ /\ Found = {} \/ "alloc" \in Faults
              /\ UNCHANGED <<users, hw>>
           \/ /\ Found # {} /\ "aspace" \in Faults
              /\ users' = users + 1
              /\ hw' = [hw EXCEPT !.timing = {}]
           \/ /\ \E h \in Found : \E f \in BOOLEAN :
                    /\ f => "dsi" \in Faults
                    /\ ~modeset_init_intfs(board, h, f).ok
              /\ hw' = [hw EXCEPT !.timing = {}]
              /\ UNCHANGED users
    /\ kms' = NoKms("failed")
    /\ UNCHANGED <<board, owner, cs, tail, on, irqs, vsync, live>>

(* mdp5_kms_init() and mdp5_hw_init(): the timing engines are stopped before *)
(* the IOMMU is attached, the routing is cleared.                            *)
KmsInit ==
    /\ kms.phase = "none"
    /\ \E h \in mdp5_cfg_init(board.major, board.minor) :
            LET ms == modeset_init_intfs(board, h, FALSE)
                up == modeset_init(h, ms)
            IN  /\ ms.ok
                /\ kms' = up
                /\ owner' = [m \in DOMAIN h.hw.lm |-> 0]
                /\ cs' = [c \in 1..up.crtcs |-> OffState]
                /\ tail' = [c \in 1..up.crtcs |-> Idle]
                /\ irqs' = [c \in 1..up.crtcs |-> {}]
                /\ on' = [e \in DOMAIN ms.encoders |-> FALSE]
                /\ hw' = [hw EXCEPT !.timing = {}, !.sel = <<>>, !.op = <<>>]
    /\ UNCHANGED <<board, users, vsync, live>>

\* ---------------------------------------------------------------- commits

(* Encoders with a connector: the slave link of a bonded panel has none.     *)
Connected(e) ==
    ~ /\ board.bonded
      /\ kms.encoders[e].type = "DSI"
      /\ get_dsi_id_from_intf(Chip, kms.encoders[e].num) = 1

Off == [enc |-> 0, mode |-> NoMode, wide |-> FALSE]

(* Requests user space may make of a CRTC.  DRM keeps a connector, and its   *)
(* encoder, with one CRTC, and waits for the last commit that touched it.  A *)
(* CRTC is on with a plane: mdp5_crtc_atomic_check() finds no mixer without. *)
Requests(c) ==
    {Off} \union
    UNION {{[enc |-> e, mode |-> m, wide |-> w] :
              m \in Modes[kms.encoders[e].type], w \in BOOLEAN} :
            e \in {x \in Encoders :
                     /\ Connected(x)
                     /\ \A d \in Crtcs \ {c} : x \notin {cs[d].enc, tail[d].enc}}}

MixersOf(s) == {s.mixer, s.r_mixer} \ {0}

Plain(s) == ~IsSplit(s) /\ ~s.cmd_mode

(* Left out unless Switches has it: a CRTC that has a mixer goes over to two  *)
(* or back ("mixers"); and a split or command-mode display makes way for     *)
(* another on the same CRTC in one commit ("display").                       *)
Regular(c, r, s) ==
    /\ \/ MixersOf(cs[c]) \in {{}, MixersOf(s)}
       \/ "mixers" \in Switches
    /\ \/ 0 \in {cs[c].enc, r.enc}
       \/ cs[c].enc = r.enc
       \/ Plain(cs[c]) /\ Plain(s)
       \/ "display" \in Switches

(* A commit is checked and swapped in under the locks of what it touches.    *)
Commit(c) ==
    /\ tail[c] = Idle
    /\ \E r \in Requests(c) :
            LET new == AtomicCheck(c, r)
            IN  /\ new.ok
                /\ Regular(c, r, new.state)
                /\ cs' = [cs EXCEPT ![c] = new.state]
                /\ owner' = new.owner
                /\ tail' = [tail EXCEPT ![c] = IF Modeset(c, r)
                                               THEN [step |-> "disable", enc |-> cs[c].enc]
                                               ELSE Idle]
    /\ UNCHANGED <<board, kms, users, on, irqs, vsync, live, hw>>

\* ---------------------------------------------------------------- tails

Num(e) == kms.encoders[e].num

(* The CTLs of an encoder, and of the half it borrows.                       *)
CtlsOf(e, s) == {kms.encoders[e].ctl} \union (IF IsSplit(s) THEN {s.r_ctl} ELSE {})

(* mdp5_ctl_set_encoder_state() for both.                                    *)
mdp5_ctl_set_encoder_state(e, s, enabled) ==
    live' = IF enabled THEN live \union CtlsOf(e, s) ELSE live \ CtlsOf(e, s)

(* start_signal_needed(): only a command-mode display waits to be started.   *)
send_start_signal(e, s) == IF IsCmd(e) THEN CtlsOf(e, s) ELSE {}

(* Mutant: the split block stays armed.                                      *)
mdp5_vid_encoder_disable_Armed(e, s) ==
    /\ mdp5_ctl_set_encoder_state(e, s, FALSE)
    /\ hw' = [hw EXCEPT !.timing = @ \ {Num(e)}]
    /\ UNCHANGED vsync

(* mdp5_vid_encoder_disable(): it goes by the pipeline of the new state.     *)
mdp5_vid_encoder_disable(e, s) ==
    /\ mdp5_ctl_set_encoder_state(e, s, FALSE)
    /\ hw' = [hw EXCEPT !.timing = @ \ {Num(e)},
                        !.split = @ /\ ~IsSplit(s)]
    /\ UNCHANGED vsync

mdp5_cmd_encoder_disable(e, s) ==
    /\ mdp5_ctl_set_encoder_state(e, s, FALSE)
    /\ hw' = [hw EXCEPT !.tear = @ \ {Chip.lm[s.mixer].pp}]
    /\ vsync' = vsync - 1

(* mdp5_encoder_disable(): nothing but a warning if it is not enabled.       *)
mdp5_encoder_disable(e, s) ==
    IF ~on[e] THEN UNCHANGED <<on, hw, vsync, live>>
    ELSE /\ on' = [on EXCEPT ![e] = FALSE]
         /\ \/ IsCmd(e) /\ mdp5_cmd_encoder_disable(e, s)
            \/ ~IsCmd(e) /\ mdp5_vid_encoder_disable(e, s)

(* Handlers of a CRTC: errors of its interfaces, and completed transfers.    *)
Handlers(s) == {"err"} \union (IF s.cmd_mode THEN {"pp_done"} ELSE {})

(* The tail takes a power reference, then what was on is disabled; that      *)
(* includes mdp5_crtc_atomic_disable(), which returns the CRTC's reference.  *)
Disable(c) ==
    /\ tail[c].step = "disable"
    /\ \/ /\ tail[c].enc = 0
          /\ users' = users + 1
          /\ UNCHANGED <<on, irqs, hw, vsync, live>>
       \/ /\ tail[c].enc # 0
          /\ mdp5_encoder_disable(tail[c].enc, cs[c])
          /\ irqs' = [irqs EXCEPT ![c] = @ \ Handlers(cs[c])]
          /\ UNCHANGED users
    /\ tail' = [tail EXCEPT ![c].step = "enable"]
    /\ UNCHANGED <<board, kms, owner, cs>>

(* mdp5_crtc_mode_set_nofb(): the size of each mixer, and which is the right *)
(* half of one picture.                                                      *)
mdp5_crtc_mode_set_nofb(s) ==
    LET mixer_width == IF s.r_mixer # 0 THEN s.mode.hdisplay \div 2 ELSE s.mode.hdisplay
        left == Put(hw.out, s.mixer, [width |-> mixer_width, right |-> FALSE])
    IN  IF s.r_mixer = 0 THEN left
        ELSE Put(left, s.r_mixer, [width |-> mixer_width, right |-> ~IsSplit(s)])

(* The horizontal numbers of one of two interfaces.                          *)
Halved(mode) ==
    [mode EXCEPT !.hdisplay = @ \div 2, !.hsync_start = @ \div 2, !.htotal = @ \div 2]

(* mdp5_vid_encoder_mode_set(): columns, and lines counted in pixels.        *)
TimingOf(s) ==
    LET mode == IF IsSplit(s) THEN Halved(s.mode) ELSE s.mode
        vsync_period == mode.vtotal * mode.htotal
    IN  [hsync_start_x |-> mode.htotal - mode.hsync_start,
         hsync_end_x |-> mode.htotal - (mode.hsync_start - mode.hdisplay) - 1,
         htotal |-> mode.htotal,
         display_v_start |-> (mode.vtotal - mode.vsync_start) * mode.htotal,
         display_v_end |->
            vsync_period - (mode.vsync_start - mode.vdisplay) * mode.htotal - 1]

(* Mutant: only the master interface is programmed.                          *)
mdp5_vid_encoder_mode_set_Master(s) ==
    Put(hw.program, Num(s.intf), TimingOf(s))

mdp5_vid_encoder_mode_set(s) ==
    LET left == Put(hw.program, Num(s.intf), TimingOf(s))
    IN  IF IsSplit(s) THEN Put(left, Num(s.r_intf), TimingOf(s)) ELSE left

VSYNC_CLK_RATE == 19200000

(* pingpong_tearcheck_setup(): ticks of the vsync clock for a line, and the  *)
(* lines at which the ping-pong block starts, reports and wraps.             *)
pingpong_tearcheck_setup(s) ==
    LET total_lines == s.mode.vtotal * s.mode.vrefresh
    IN  IF total_lines = 0 THEN hw.pp
        ELSE Put(hw.pp, Chip.lm[s.mixer].pp,
                 [vsync_count |-> VSYNC_CLK_RATE \div total_lines,
                  height |-> 2 * s.mode.vtotal, start_pos |-> s.mode.vdisplay,
                  rd_ptr_irq |-> s.mode.vdisplay + 1])

(* set_ctl_op() and set_display_intf(), for the left half and the right.     *)
CtlOp(e, packed) == [intf |-> Num(e), cmd |-> IsCmd(e), pack |-> packed]

mdp5_crtc_set_pipeline(s) ==
    LET packed == s.r_mixer # 0 /\ ~IsSplit(s)
        sel == Put(hw.sel, Num(s.intf), kms.encoders[s.intf].type)
        op == Put(hw.op, s.ctl, CtlOp(s.intf, packed))
    IN  IF ~IsSplit(s) THEN [sel |-> sel, op |-> op]
        ELSE [sel |-> Put(sel, Num(s.r_intf), kms.encoders[s.r_intf].type),
              op |-> Put(op, s.r_ctl, CtlOp(s.r_intf, FALSE))]

(* mdp5_encoder_enable(): mode and routing, then the timing engine or, in    *)
(* command mode, the tear check, whose clock may fail.                       *)
mdp5_encoder_enable(e, s) ==
    LET route == mdp5_crtc_set_pipeline(s)
        set == [hw EXCEPT !.out = mdp5_crtc_mode_set_nofb(s),
                          !.sel = route.sel, !.op = route.op]
    IN  \/ /\ ~IsCmd(e) /\ ~on[e]
           /\ hw' = [set EXCEPT !.program = mdp5_vid_encoder_mode_set(s),
                                !.split = @ \/ IsSplit(s),
                                !.timing = @ \union {Num(e)}]
           /\ mdp5_ctl_set_encoder_state(e, s, TRUE)
           /\ on' = [on EXCEPT ![e] = TRUE]
           /\ UNCHANGED vsync
        \/ /\ IsCmd(e) /\ ~on[e]
           /\ hw' = [set EXCEPT !.pp = pingpong_tearcheck_setup(s),
                                !.tear = @ \union {Chip.lm[s.mixer].pp},
                                !.start = @ \union send_start_signal(e, s)]
           /\ mdp5_ctl_set_encoder_state(e, s, TRUE)
           /\ on' = [on EXCEPT ![e] = TRUE]
           /\ vsync' = vsync + 1
        \/ /\ IsCmd(e) /\ "clk" \in Faults
           /\ hw' \in {set, [set EXCEPT !.pp = pingpong_tearcheck_setup(s)]}
           /\ UNCHANGED <<on, vsync, live>>

(* The tail enables what is to be on and returns its own reference; without  *)
(* any, the registers are lost.                                              *)
Enable(c) ==
    /\ tail[c].step = "enable"
    /\ \/ /\ cs[c].enc = 0
          /\ users' = users - 1
          /\ hw' = IF users = 1 THEN NoRegisters ELSE hw
          /\ UNCHANGED <<on, irqs, vsync, live>>
       \/ /\ cs[c].enc # 0
          /\ mdp5_encoder_enable(cs[c].enc, cs[c])
          /\ irqs' = [irqs EXCEPT ![c] = @ \union Handlers(cs[c])]
          /\ UNCHANGED users
    /\ tail' = [tail EXCEPT ![c] = Idle]
    /\ UNCHANGED <<board, kms, owner, cs>>

(* mdp5_crtc_get_scanout_position(): the line of the picture at line of the  *)
(* frame, which is counted from 1 at the vertical sync; below 0 it is        *)
(* blanked.                                                                  *)
get_scanout_position(mode, line) ==
    LET vactive_start == mode.vtotal - mode.vsync_start + 1
        vactive_end == vactive_start + mode.vdisplay
    IN  IF line <= vactive_end THEN line - vactive_start
        ELSE line - mode.vtotal - vactive_start

Next ==
    \/ KmsInit
    \/ KmsInitFails
    \/ \E c \in Crtcs : Commit(c)
    \/ \E c \in Crtcs : Disable(c)
    \/ \E c \in Crtcs : Enable(c)

Spec == Init /\ [][Next]_vars

\* ---------------------------------------------------------------- properties

TypeOK ==
    /\ board \in Boards
    /\ kms.phase \in {"none", "up", "failed"}
    /\ users \in Nat
    /\ vsync \in Nat
    /\ DOMAIN cs = Crtcs /\ DOMAIN tail = Crtcs /\ DOMAIN irqs = Crtcs
    /\ DOMAIN on = Encoders
    /\ \A m \in DOMAIN owner : owner[m] \in {0} \union Crtcs
    /\ \A c \in Crtcs :
            /\ cs[c].enc \in {0} \union Encoders
            /\ cs[c].mode \in ModeType
            /\ {cs[c].mixer, cs[c].r_mixer} \subseteq {0} \union DOMAIN owner
            /\ tail[c] \in [step : {"idle", "disable", "enable"},
                            enc : {0} \union Encoders]
            /\ irqs[c] \subseteq {"err", "pp_done"}
    /\ \A e \in Encoders : on[e] \in BOOLEAN

(* A CRTC uses the mixers the shared table has down as its own and no other, *)
(* through every assignment and every check that fails half way, while the   *)
(* number of mixers it has stays: none is released (mdp5_mixer_assign,       *)
(* setup_pipeline).                                                          *)
TableAgrees ==
    \A c \in Crtcs : MixersOf(cs[c]) = {m \in Mixers : owner[m] = c}

(* A check that would change that number, and has to release: afterwards the *)
(* CRTC owns no mixer it does not use, and no other CRTC has won or lost one *)
(* (mdp5_mixer_release).  One that it goes on to use may be set free, by the *)
(* order in setup_pipeline.                                                  *)
ReleaseComplete ==
    \A c \in Crtcs : \A r \in Requests(c) :
        LET new == AtomicCheck(c, r)
        IN  new.ok =>
              /\ {m \in Mixers : new.owner[m] = c} \subseteq MixersOf(new.state)
              /\ \A d \in Crtcs \ {c} :
                   {m \in Mixers : new.owner[m] = d} = {m \in Mixers : owner[m] = d}

(* CRTCs and the shared table agree on who has which mixer, and no mixer is  *)
(* lost to the other CRTCs, whatever is asked for next.                      *)
MixersOwned == TableAgrees /\ ReleaseComplete

(* No layer mixer composes for two CRTCs.                                    *)
NoSharedMixer ==
    \A c, d \in Crtcs : c # d => MixersOf(cs[c]) \intersect MixersOf(cs[d]) = {}

(* The (left) mixer of a picture can drive a display, the right one is the   *)
(* one the hardware can join to it, and a command-mode display has the       *)
(* ping-pong block its frames come through.                                  *)
PairCorrect ==
    \A c \in Crtcs :
        /\ cs[c].mixer # 0 => "DISPLAY" \in Chip.lm[cs[c].mixer].caps
        /\ cs[c].r_mixer # 0 => cs[c].mixer # 0
        /\ cs[c].r_mixer # 0 =>
               Chip.lm[cs[c].r_mixer].id = lm_right_pair[Chip.lm[cs[c].mixer].id + 1]
        /\ cs[c].cmd_mode => Chip.lm[cs[c].mixer].pp \in 0..(Chip.pp - 1)

(* When the tables have the right half of every mixer that may have one, a   *)
(* CRTC without mixers gets a mixer if one is free, and a pair if one is.    *)
MixerFound ==
    LET CanPair == {m \in Mixers : "PAIR" \in Chip.lm[m].caps}
        RightOf(m) == {i \in Mixers : Chip.lm[i].id = lm_right_pair[Chip.lm[m].id + 1]}
        Free(m) == owner[m] = 0 /\ "DISPLAY" \in Chip.lm[m].caps
    IN  \A c \in Crtcs : MixersOf(cs[c]) = {} =>
            /\ (\E m \in Mixers : Free(m)) => mdp5_mixer_assign(c, 0, FALSE).ok
            /\ /\ \A m \in CanPair : RightOf(m) # {}
               /\ \E m \in CanPair : Free(m) /\ \A i \in RightOf(m) : Free(i)
               => mdp5_mixer_assign(c, 0, TRUE).ok

Intfs(s) == {Num(e) : e \in {s.intf, s.r_intf} \ {0}}

Ctls(s) == {s.ctl, s.r_ctl} \ {0}

Shown == {c \in Crtcs : cs[c].enc # 0}

(* Two CRTCs that show something never drive the same interface, flush the   *)
(* same CTL or wait for the vertical blank of the same source.               *)
RoutesExclusive ==
    \A c, d \in Shown : c # d =>
        /\ Intfs(cs[c]) \intersect Intfs(cs[d]) = {}
        /\ Ctls(cs[c]) \intersect Ctls(cs[d]) = {}
        /\ cs[c].vblank # cs[d].vblank
        /\ cs[c].err \intersect cs[d].err = {}

Settled == {c \in Shown : tail[c] = Idle}

Columns(t) == t.hsync_end_x - t.hsync_start_x + 1

Lines(t) == (t.display_v_end - t.display_v_start + 1) \div t.htotal

(* What the mixers of a running display put out is what its interface scans: *)
(* as many columns, joined exactly when two mixers feed one interface, the   *)
(* whole picture over both halves, routed by the CTL that is flushed.        *)
PictureFits ==
    \A c \in Settled : on[cs[c].enc] =>
        LET s == cs[c]
            width(m) == IF m = 0 THEN 0 ELSE hw.out[m].width
            packed == s.r_mixer # 0 /\ ~IsSplit(s)
        IN  /\ width(s.mixer) + width(s.r_mixer) = s.mode.hdisplay
            /\ s.r_mixer # 0 => hw.out[s.r_mixer].right = packed
            /\ hw.op[s.ctl] = [intf |-> Num(s.intf), cmd |-> s.cmd_mode, pack |-> packed]
            /\ \A i \in Intfs(s) : hw.sel[i] = Chip.connect[i + 1]
            /\ IsSplit(s) => hw.op[s.r_ctl].intf = Num(s.r_intf) /\ ~hw.op[s.r_ctl].pack
            /\ ~s.cmd_mode => \A i \in Intfs(s) :
                   /\ i \in DOMAIN hw.program
                   /\ Columns(hw.program[i]) = IF IsSplit(s) THEN width(s.mixer)
                                               ELSE s.mode.hdisplay
                   /\ Lines(hw.program[i]) = s.mode.vdisplay

(* At both edges of the picture the line user space is told for a display    *)
(* agrees with what its timing engine was programmed to scan there: its line *)
(* of the picture, or a blanked one; and the count goes on over the end of   *)
(* the frame.  The first line after the picture is told as one more of it.   *)
ScanoutTrue ==
    \A c \in Settled : on[cs[c].enc] /\ ~cs[c].cmd_mode =>
        \A i \in Intfs(cs[c]) :
            LET mode == cs[c].mode
                t == hw.program[i]
                first == t.display_v_start \div t.htotal + 1
                last == t.display_v_end \div t.htotal + 1
                At(line) == get_scanout_position(mode, line)
            IN  /\ \A line \in {1, first - 1, first, last, last + 1, last + 2, mode.vtotal} :
                       LET dot == (line - 1) * t.htotal
                       IN  IF dot \in t.display_v_start..t.display_v_end
                           THEN At(line) * t.htotal = dot - t.display_v_start
                           ELSE At(line) < 0 \/ line = last + 1
                /\ At(mode.vtotal) + 1 = At(1)

(* The ping-pong block of a command-mode display blanks at about half its    *)
(* refresh rate, never slower and by less than a tick a line faster, and it  *)
(* reports each picture after its last line and before it wraps.             *)
TearTrue ==
    \A c \in Settled : on[cs[c].enc] /\ cs[c].cmd_mode =>
        LET mode == cs[c].mode
            t == hw.pp[Chip.lm[cs[c].mixer].pp]
        IN  /\ t.vsync_count * t.height * mode.vrefresh <= 2 * VSYNC_CLK_RATE
            /\ 2 * VSYNC_CLK_RATE < (t.vsync_count + 1) * t.height * mode.vrefresh
            /\ t.start_pos >= mode.vdisplay /\ t.rd_ptr_irq > t.start_pos
            /\ t.rd_ptr_irq < t.height

(* A CTL takes an encoder to be ready exactly while a display that uses it   *)
(* is on, the right half's too; only command-mode displays are started.      *)
LiveTrue ==
    kms.phase = "up" =>
        /\ live = {kms.encoders[e].ctl : e \in {x \in Encoders : on[x]}} \union
                  {cs[c].r_ctl : c \in {d \in Crtcs : IsSplit(cs[d]) /\ on[cs[d].intf]}}
        /\ hw.start \subseteq {kms.encoders[e].ctl : e \in {x \in Encoders : IsCmd(x)}}
        /\ \A e \in Encoders : on[e] /\ IsCmd(e) => kms.encoders[e].ctl \in hw.start

(* The timing engines that run are those of the enabled video encoders, the  *)
(* slave's never; the split block is armed exactly while a split display is  *)
(* on, and a running engine finds its mixers powered.                        *)
SplitArmed ==
    kms.phase = "up" =>
        /\ hw.timing = {Num(e) : e \in {x \in Encoders : on[x] /\ ~IsCmd(x)}}
        /\ hw.split = \E c \in Crtcs : \E e \in Encoders :
               on[e] /\ e = cs[c].intf /\ IsSplit(cs[c])
        /\ hw.timing \union hw.tear # {} => users > 0

(* Once up, power references are those of CRTCs that are on, and of tails;   *)
(* the vsync clock and the tear check run for the enabled command-mode       *)
(* displays; a CRTC that is off has no interrupt handler left.               *)
PowerBalanced ==
    LET Held == {c \in Crtcs : tail[c].step = "enable"}
        Lit == {c \in Crtcs : irqs[c] # {}}
        Cmd == {e \in Encoders : on[e] /\ IsCmd(e)}
    IN  kms.phase = "up" =>
        /\ users = Cardinality(Held) + Cardinality(Lit)
        /\ vsync = Cardinality(Cmd)
        /\ vsync = Cardinality(hw.tear)
        /\ \A c \in Crtcs : tail[c] = Idle =>
               irqs[c] = IF cs[c].enc = 0 THEN {} ELSE Handlers(cs[c])

(* What comes up on a board can be driven: every block of the chip can be    *)
(* flushed, its pipes have memory ports of their own, its pool holds a plane *)
(* as wide as a mixer for each CRTC, each CRTC has a primary plane that is   *)
(* not a cursor, and no two encoders share a CTL.                            *)
BringUpSound ==
    kms.phase = "up" /\ (\A c \in Crtcs : cs[c] = OffState) =>
        /\ FlushesAll(Chip)
        /\ "SMP" \in Chip.mdp_caps =>
               /\ PortsApart(Chip)
               /\ \A format \in {"RGB", "NV12"} :
                    LET blocks == mdp5_smp_calculate(Chip, kms.revision, Chip.max_width, format)
                        total == IF Len(blocks) = 1 THEN blocks[1] ELSE blocks[1] + blocks[2]
                    IN  kms.crtcs * total <= Chip.smp.mmb_count - Chip.smp.reserved_state
        /\ kms.crtcs <= PipeCount(Chip) - Chip.pipes.CURSOR
        /\ Cardinality({i \in 0..(PipeCount(Chip) - 1) :
                          PlaneType(Chip, kms.crtcs, i) = "PRIMARY"}) = kms.crtcs
        /\ \A e, f \in Encoders : e # f => kms.encoders[e].ctl # kms.encoders[f].ctl

(* A CRTC gets the mixers its picture needs: two that can be paired, when   *)
(* it needs two, and some whenever the chip has them free.                  *)
MixersPaired == PairCorrect /\ MixerFound

(* From CRTC to interface no two pictures meet, and what one needs of the   *)
(* shared hardware is on exactly as long as it is shown.                    *)
RoutesSound == TypeOK /\ RoutesExclusive /\ SplitArmed /\ PowerBalanced /\ LiveTrue

(* Mixers, interfaces, ping-pong blocks and the counters user space is told *)
(* agree on columns, lines and rates.                                       *)
PictureTrue == PictureFits /\ ScanoutTrue /\ TearTrue
=============================================================================
