--------------------------- MODULE MCMdp5Pipeline ---------------------------
(* Every chip with a table, and one version without, on boards with the       *)
(* displays it can have.                                                      *)
EXTENDS Mdp5Pipeline

Mode(hdisplay, hsync_start, htotal, vdisplay, vsync_start, vtotal, vrefresh) ==
    [hdisplay |-> hdisplay, hsync_start |-> hsync_start, htotal |-> htotal,
     vdisplay |-> vdisplay, vsync_start |-> vsync_start, vtotal |-> vtotal,
     vrefresh |-> vrefresh]

\* the tablet's panel, half of it, and two modes of a monitor
MCModes ==
    [DSI |-> {Mode(1600, 1900, 2068, 2560, 2572, 2584, 60)},
     HDMI |-> {Mode(1920, 2008, 2200, 1080, 1084, 1125, 60),
               Mode(3840, 4016, 4400, 2160, 2168, 2250, 30)}]

TwoPictures(h, b) ==
    \/ h.hw = msm8x74v2 /\ b.hdmi /\ (b.bonded \/ ~b.cmd)
    \/ h.hw = msm8x53
    \/ h.hw = msm8x94 /\ b.hdmi /\ b.dsi = {0} /\ b.cmd

Board(h, hdmi, dsi, bonded, cmd, split) ==
    [major |-> h.major, minor |-> h.revision, hdmi |-> hdmi, dsi |-> dsi,
     bonded |-> bonded, cmd |-> cmd, split |-> split]

\* A bonded panel takes two links in video mode; split is forced only to what
\* it would not be by itself; a command-mode panel needs a ping-pong block.  At
\* most two pictures, and two only on some boards.
BoardsOf(h) ==
    {b \in {Board(h, hdmi, dsi, bonded, cmd, split) :
              hdmi \in {"HDMI" = h.hw.connect[i] : i \in 1..5},
              dsi \in SUBSET (0..(Cardinality(DsiIntfs(h.hw)) - 1)),
              bonded \in BOOLEAN, cmd \in BOOLEAN, split \in {-1, 0, 1}} :
        /\ b.bonded => b.dsi = {0, 1} /\ ~b.cmd
        /\ b.split # -1 => b.bonded /\ (b.split = 1 <=> h.revision >= 3)
        /\ b.hdmi => b.bonded \/ b.dsi \in {{}, {0}}
        /\ (b.hdmi /\ b.dsi # {}) \/ (b.dsi = {0, 1} /\ ~b.bonded) => TwoPictures(h, b)
        /\ b.cmd => h.hw.pp > 0 /\ b.dsi # {}}

MCBoards ==
    {Board([major |-> 1, revision |-> 5], FALSE, {0}, FALSE, FALSE, -1)} \union
    UNION {BoardsOf(h) : h \in cfg_handlers}
\* a panel and a monitor
SwitchBoards == {Board([major |-> 1, revision |-> 2], TRUE, {0}, FALSE, FALSE, -1)}

=============================================================================
