---------------------------- MODULE Mdp5Config ----------------------------
(* The hardware configurations of mdp5_cfg.c, the choice among them, and what  *)
(* the tables have to agree on.  A chip is the record of what the driver reads *)
(* of its table.  Register bases are left out; a block without one is absent.  *)
EXTENDS Integers, FiniteSets, Sequences

\* ---------------------------------------------------------------- layout

(* mdp5_smp_block: the pool, the SMP port of the first component of each VIG,  *)
(* DMA and RGB pipe, and the blocks tied to a port for good.                   *)
SmpPool(count, size, vig, dma, rgb, reserved, state) ==
    [mmb_count |-> count, mmb_size |-> size,
     clients |-> [VIG |-> vig, DMA |-> dma, RGB |-> rgb],
     reserved |-> reserved, reserved_state |-> state]

NoPool == SmpPool(0, 0, <<>>, <<>>, <<>>, <<>>, 0)

(* How many pipes of each kind there are.                                      *)
Pipes(vig, rgb, dma, cursor) ==
    [VIG |-> vig, RGB |-> rgb, DMA |-> dma, CURSOR |-> cursor]

(* mdp5_lm_instance: the mixer, its ping-pong block (-1: none), its use.       *)
LM(id, pp, caps) == [id |-> id, pp |-> pp, caps |-> caps]

Display == {"DISPLAY"}

Paired == {"DISPLAY", "PAIR"}

Writeback == {"WB"}

\* ---------------------------------------------------------------- tables

msm8x74v1 ==
    [mdp_caps |-> {"SMP"},
     smp |-> SmpPool(22, 4096, <<1, 4, 7>>, <<10, 13>>, <<16, 17, 18>>,
                    <<>>, 0),
     ctl |-> 5, flush_hw_mask |-> <<\h0003, \hffff>>,
     pipes |-> Pipes(3, 3, 2, 0),
     lm |-> <<LM(0, 0, Paired), LM(1, 1, Display), LM(2, 2, Display),
              LM(3, -1, Writeback), LM(4, -1, Writeback)>>,
     nb_stages |-> 5, max_width |-> 2048, pp |-> 3,
     connect |-> <<"eDP", "DSI", "DSI", "HDMI", "DISABLED">>]

msm8x26 ==
    [mdp_caps |-> {"SMP"},
     smp |-> SmpPool(7, 4096, <<1>>, <<4>>, <<7>>,
                    <<>>, 0),
     ctl |-> 2, flush_hw_mask |-> <<\h0003, \hffff>>,
     pipes |-> Pipes(1, 1, 1, 0),
     lm |-> <<LM(0, 0, Display), LM(1, -1, Writeback)>>,
     nb_stages |-> 2, max_width |-> 2048, pp |-> 1,
     connect |-> <<"DISABLED", "DSI", "DISABLED", "DISABLED", "DISABLED">>]

msm8x74v2 ==
    [mdp_caps |-> {"SMP"},
     smp |-> SmpPool(22, 4096, <<1, 4, 7>>, <<10, 13>>, <<16, 17, 18>>,
                    <<>>, 0),
     ctl |-> 5, flush_hw_mask |-> <<\h0003, \hffff>>,
     pipes |-> Pipes(3, 3, 2, 0),
     lm |-> <<LM(0, 0, Paired), LM(1, 1, Display), LM(2, 2, Display),
              LM(3, -1, Writeback), LM(4, -1, Writeback)>>,
     nb_stages |-> 5, max_width |-> 2048, pp |-> 3,
     connect |-> <<"eDP", "DSI", "DSI", "HDMI", "DISABLED">>]

apq8084 ==
    [mdp_caps |-> {"SMP", "SRC_SPLIT"},
     smp |-> SmpPool(44, 8192, <<1, 4, 7, 19>>, <<10, 13>>, <<16, 17, 18, 22>>,
                    <<<<16, 2>>, <<17, 2>>, <<18, 2>>, <<22, 2>>>>, 8),
     ctl |-> 5, flush_hw_mask |-> <<\h003f, \hffff>>,
     pipes |-> Pipes(4, 4, 2, 0),
     lm |-> <<LM(0, 0, Paired), LM(1, 1, Display), LM(2, 2, Paired),
              LM(3, -1, Writeback), LM(4, -1, Writeback), LM(5, 3, Display)>>,
     nb_stages |-> 5, max_width |-> 2048, pp |-> 4,
     connect |-> <<"eDP", "DSI", "DSI", "HDMI", "DISABLED">>]

(* Mutant: the bit of LM3 is missing from the mask.                            *)
msm8x16_NoLm3 ==
    [mdp_caps |-> {"SMP"},
     smp |-> SmpPool(8, 8192, <<1>>, <<4>>, <<7, 8>>,
                    <<>>, 0),
     ctl |-> 5, flush_hw_mask |-> <<\h4003, \hfdff>>,
     pipes |-> Pipes(1, 2, 1, 0),
     lm |-> <<LM(0, 0, Display), LM(3, -1, Writeback)>>,
     nb_stages |-> 8, max_width |-> 2048, pp |-> 0,
     connect |-> <<"DISABLED", "DSI", "DISABLED", "DISABLED", "DISABLED">>]

msm8x16 ==
    [mdp_caps |-> {"SMP"},
     smp |-> SmpPool(8, 8192, <<1>>, <<4>>, <<7, 8>>,
                    <<>>, 0),
     ctl |-> 5, flush_hw_mask |-> <<\h4003, \hffff>>,
     pipes |-> Pipes(1, 2, 1, 0),
     lm |-> <<LM(0, 0, Display), LM(3, -1, Writeback)>>,
     nb_stages |-> 8, max_width |-> 2048, pp |-> 0,
     connect |-> <<"DISABLED", "DSI", "DISABLED", "DISABLED", "DISABLED">>]

msm8x36 ==
    [mdp_caps |-> {"SMP"},
     smp |-> SmpPool(8, 10240, <<1>>, <<4>>, <<7, 8>>,
                    <<>>, 0),
     ctl |-> 3, flush_hw_mask |-> <<\h4003, \hffff>>,
     pipes |-> Pipes(1, 2, 1, 0),
     lm |-> <<LM(0, 0, Display), LM(1, -1, Writeback)>>,
     nb_stages |-> 8, max_width |-> 2560, pp |-> 1,
     connect |-> <<"DISABLED", "DSI", "DSI", "DISABLED", "DISABLED">>]

msm8x94 ==
    [mdp_caps |-> {"SMP", "SRC_SPLIT"},
     smp |-> SmpPool(44, 8192, <<1, 4, 7, 19>>, <<10, 13>>, <<16, 17, 18, 22>>,
                    <<<<1, 1>>, <<4, 1>>, <<7, 1>>, <<19, 1>>, <<16, 5>>, <<17, 5>>, <<18, 5>>, <<22, 5>>>>, 24),
     ctl |-> 5, flush_hw_mask |-> <<\hf0ff, \hffff>>,
     pipes |-> Pipes(4, 4, 2, 0),
     lm |-> <<LM(0, 0, Paired), LM(1, 1, Display), LM(2, 2, Paired),
              LM(3, -1, Writeback), LM(4, -1, Writeback), LM(5, 3, Display)>>,
     nb_stages |-> 8, max_width |-> 2048, pp |-> 4,
     connect |-> <<"DISABLED", "DSI", "DSI", "HDMI", "DISABLED">>]

msm8x96 ==
    [mdp_caps |-> {"DSC", "CDM", "SRC_SPLIT"},
     smp |-> NoPool,
     ctl |-> 5, flush_hw_mask |-> <<\hf4ff, \hffff>>,
     pipes |-> Pipes(4, 4, 2, 2),
     lm |-> <<LM(0, 0, Paired), LM(1, 1, Display), LM(2, 2, Paired),
              LM(3, -1, Writeback), LM(4, -1, Writeback), LM(5, 3, Display)>>,
     nb_stages |-> 8, max_width |-> 2560, pp |-> 4,
     connect |-> <<"DISABLED", "DSI", "DSI", "HDMI", "DISABLED">>]

msm8x76 ==
    [mdp_caps |-> {"SMP", "DSC", "SRC_SPLIT"},
     smp |-> SmpPool(10, 10240, <<1, 9>>, <<4>>, <<7, 8>>,
                    <<>>, 0),
     ctl |-> 3, flush_hw_mask |-> <<\hffff, \hffff>>,
     pipes |-> Pipes(2, 2, 1, 1),
     lm |-> <<LM(0, 0, Display), LM(1, -1, Writeback)>>,
     nb_stages |-> 8, max_width |-> 2560, pp |-> 3,
     connect |-> <<"DISABLED", "DSI", "DSI", "DISABLED", "DISABLED">>]

msm8x53 ==
    [mdp_caps |-> {"CDM"},
     smp |-> NoPool,
     ctl |-> 3, flush_hw_mask |-> <<\hffff, \hffff>>,
     pipes |-> Pipes(1, 2, 1, 1),
     lm |-> <<LM(0, 0, Paired), LM(1, 1, Display), LM(0, 0, {})>>,
     nb_stages |-> 5, max_width |-> 2048, pp |-> 2,
     connect |-> <<"DISABLED", "DSI", "DSI", "DISABLED", "DISABLED">>]

msm8917 ==
    [mdp_caps |-> {"CDM"},
     smp |-> NoPool,
     ctl |-> 3, flush_hw_mask |-> <<\hffff, \hffff>>,
     pipes |-> Pipes(1, 2, 1, 1),
     lm |-> <<LM(0, 0, Display), LM(1, -1, Writeback)>>,
     nb_stages |-> 8, max_width |-> 2048, pp |-> 1,
     connect |-> <<"DISABLED", "DSI", "DISABLED", "DISABLED", "DISABLED">>]

msm8937 ==
    [mdp_caps |-> {"CDM"},
     smp |-> NoPool,
     ctl |-> 3, flush_hw_mask |-> <<\hffff, \hffff>>,
     pipes |-> Pipes(1, 2, 1, 1),
     lm |-> <<LM(0, 0, Paired), LM(1, 1, Display)>>,
     nb_stages |-> 5, max_width |-> 2048, pp |-> 2,
     connect |-> <<"DISABLED", "DSI", "DSI", "DISABLED", "DISABLED">>]

msm8998 ==
    [mdp_caps |-> {"DSC", "CDM", "SRC_SPLIT"},
     smp |-> NoPool,
     ctl |-> 5, flush_hw_mask |-> <<\hf7ff, \hffff>>,
     pipes |-> Pipes(4, 4, 2, 2),
     lm |-> <<LM(0, 0, Paired), LM(1, 1, Display), LM(2, 2, Paired),
              LM(3, -1, Writeback), LM(4, -1, Writeback), LM(5, 3, Display)>>,
     nb_stages |-> 8, max_width |-> 2560, pp |-> 4,
     connect |-> <<"eDP", "DSI", "DSI", "HDMI", "DISABLED">>]

sdm630 ==
    [mdp_caps |-> {"CDM", "SRC_SPLIT"},
     smp |-> NoPool,
     ctl |-> 5, flush_hw_mask |-> <<\hf4ff, \hffff>>,
     pipes |-> Pipes(1, 4, 2, 1),
     lm |-> <<LM(0, 0, Paired), LM(1, 1, Writeback)>>,
     nb_stages |-> 8, max_width |-> 2048, pp |-> 3,
     connect |-> <<"DISABLED", "DSI", "DISABLED", "DISABLED", "DISABLED">>]

sdm660 ==
    [mdp_caps |-> {"DSC", "CDM", "SRC_SPLIT"},
     smp |-> NoPool,
     ctl |-> 5, flush_hw_mask |-> <<\hf4ff, \hffff>>,
     pipes |-> Pipes(2, 4, 2, 1),
     lm |-> <<LM(0, 0, Paired), LM(1, 1, Display), LM(2, 2, Paired),
              LM(3, 3, Writeback)>>,
     nb_stages |-> 8, max_width |-> 2560, pp |-> 5,
     connect |-> <<"DISABLED", "DSI", "DSI", "HDMI", "DISABLED">>]

\* ---------------------------------------------------------------- choice

Handler(major, revision, hw) ==
    [major |-> major, revision |-> revision, hw |-> hw]

cfg_handlers_v1 ==
    {Handler(1, 0, msm8x74v1), Handler(1, 1, msm8x26), Handler(1, 2, msm8x74v2),
     Handler(1, 3, apq8084), Handler(1, 6, msm8x16), Handler(1, 8, msm8x36),
     Handler(1, 9, msm8x94), Handler(1, 7, msm8x96), Handler(1, 11, msm8x76),
     Handler(1, 14, msm8937), Handler(1, 15, msm8917), Handler(1, 16, msm8x53)}

cfg_handlers_v3 ==
    {Handler(3, 0, msm8998), Handler(3, 2, sdm660), Handler(3, 3, sdm630)}

cfg_handlers == cfg_handlers_v1 \union cfg_handlers_v3

(* The table for a hardware version; there is none for an unknown one.         *)
mdp5_cfg_init(major, minor) ==
    {h \in cfg_handlers : h.major = major /\ h.revision = minor}

\* ---------------------------------------------------------------- agreement

(* The bits of the FLUSH register (mdp5.xml.h), for pipe or mixer number i.    *)
FlushBit(block, i) ==
    CASE block = "VIG" -> IF i = 3 THEN 18 ELSE i
      [] block = "RGB" -> IF i = 3 THEN 19 ELSE 3 + i
      [] block = "LM"  -> IF i = 5 THEN 20 ELSE 6 + i
      [] block = "DMA" -> 11 + i
      [] block = "CURSOR" -> 22 + i
      [] block = "CTL" -> 17

InMask(hw, bit) ==
    IF bit < 16 THEN (hw.flush_hw_mask[2] \div 2 ^ bit) % 2 = 1
    ELSE (hw.flush_hw_mask[1] \div 2 ^ (bit - 16)) % 2 = 1

(* What mdp5_ctl_commit() masks away never reaches the hardware: each block    *)
(* the driver may want to latch needs its bit.                                 *)
FlushesAll(hw) ==
    /\ \A k \in DOMAIN hw.pipes : \A i \in 0..(hw.pipes[k] - 1) :
            InMask(hw, FlushBit(k, i))
    /\ \A i \in DOMAIN hw.lm : InMask(hw, FlushBit("LM", hw.lm[i].id))
    /\ InMask(hw, FlushBit("CTL", 0))

(* The ports of a pipe: three consecutive ones, or one for an RGB pipe.        *)
Ports(hw, k, i) ==
    LET first == hw.smp.clients[k][i]
    IN  first..(first + (IF k = "RGB" THEN 0 ELSE 2))

(* Every pipe but a cursor has ports of its own, and the blocks tied to ports  *)
(* are as many as are taken out of the pool.                                   *)
PortsApart(hw) ==
    LET Kinds == {"VIG", "RGB", "DMA"}
        All == UNION {{<<k, i>> : i \in 1..hw.pipes[k]} : k \in Kinds}
        Tied[i \in 0..Len(hw.smp.reserved)] ==
            IF i = 0 THEN 0 ELSE Tied[i - 1] + hw.smp.reserved[i][2]
    IN  /\ \A k \in Kinds : Len(hw.smp.clients[k]) = hw.pipes[k]
        /\ \A p, q \in All : p # q =>
               Ports(hw, p[1], p[2]) \intersect Ports(hw, q[1], q[2]) = {}
        /\ \A p \in All : 0 \notin Ports(hw, p[1], p[2])
        /\ Tied[Len(hw.smp.reserved)] = hw.smp.reserved_state

\* ---------------------------------------------------------------- pool

DivUp(a, b) == (a + b - 1) \div b

roundup_pow_of_two(n) == CHOOSE p \in {2 ^ i : i \in 0..10} : n <= p /\ p < 2 * n

(* The blocks one component of a line takes, two lines deep.                   *)
Blocks(hw, revision, width, cpp) ==
    LET n == DivUp(2 * width * cpp, hw.smp.mmb_size)
    IN  IF revision = 0 THEN roundup_pow_of_two(n) ELSE n

(* mdp5_smp_calculate() for a packed format (cpp bytes) or an NV12 one.        *)
mdp5_smp_calculate(hw, revision, width, format) ==
    IF format = "NV12"
    THEN <<Blocks(hw, revision, width, 1), Blocks(hw, revision, width \div 2, 2)>>
    ELSE <<Blocks(hw, revision, width, 4)>>

=============================================================================
