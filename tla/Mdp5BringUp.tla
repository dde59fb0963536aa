---------------------------- MODULE Mdp5BringUp ----------------------------
(* What the driver makes of one interface of the chip when it comes up: which  *)
(* CTL it reserves for it and which encoder it builds (mdp5_kms.c, mdp5_ctl.c).*)
(* CTLs are counted from 1, 0 is NULL.                                         *)
EXTENDS Mdp5Config

SetMax(S) == CHOOSE x \in S : \A y \in S : y <= x

SetMin(S) == CHOOSE x \in S : \A y \in S : x <= y

(* Interfaces that can be told to be a DSI one.                              *)
DsiIntfs(chip) == {i \in 0..4 : chip.connect[i + 1] = "DSI"}

get_dsi_id_from_intf(chip, num) == Cardinality({i \in DsiIntfs(chip) : i < num})

(* mdp5_ctlm_init(): which CTLs are kept for two DSI links flushed as one.   *)
CtlStatus(h) ==
    LET single_flush_supported == h.revision >= 3 /\ Cardinality(DsiIntfs(h.hw)) > 1
    IN  [c \in 1..h.hw.ctl |->
            IF single_flush_supported /\ c <= 2 THEN {"booked"} ELSE {}]

(* The CTL for an interface: a booked one for INTF1 and INTF2, an unbooked   *)
(* one for others, any that is not busy if there is none.                    *)
mdp5_ctlm_request(status, num) ==
    LET match == IF num \in {1, 2} THEN {"booked"} ELSE {}
        Preferred == {c \in DOMAIN status : status[c] = match}
        Left == {c \in DOMAIN status : "busy" \notin status[c]}
    IN  CASE Preferred # {} -> SetMin(Preferred)
          [] Preferred = {} /\ Left # {} -> SetMin(Left)
          [] OTHER -> 0

Attached(b, chip, num) ==
    LET type == chip.connect[num + 1]
    IN  \/ type = "HDMI" /\ b.hdmi
        \/ type = "DSI" /\ get_dsi_id_from_intf(chip, num) \in b.dsi

(* mdp5_encoder_set_intf_mode() for what is attached.                        *)
IntfMode(b, type) ==
    CASE type = "DSI" /\ b.cmd -> "command"
      [] type = "DSI" /\ ~b.cmd -> "video"
      [] OTHER -> "none"

(* modeset_init_intf() for one interface, after what the calls before it     *)
(* made: CTLs handed out, encoders built, and whether all went well.         *)
modeset_init_intf(b, h, dsiFails, st, num) ==
    LET type == h.hw.connect[num + 1]
        c == mdp5_ctlm_request(st.status, num)
        skip == ~st.ok \/ type \in {"DISABLED", "eDP"}
        attached == Attached(b, h.hw, num)
        bad == \/ type = "DSI" /\ get_dsi_id_from_intf(h.hw, num) >= 2
               \/ attached /\ c = 0
    IN  IF skip \/ (~bad /\ ~attached) THEN st
        ELSE IF bad THEN [st EXCEPT !.ok = FALSE]
        ELSE    [status |-> [st.status EXCEPT ![c] = @ \union {"busy"}],
                 encoders |-> Append(st.encoders,
                    [num |-> num, type |-> type, mode |-> IntfMode(b, type), ctl |-> c]),
                 ok |-> ~(type = "DSI" /\ dsiFails)]

=============================================================================
