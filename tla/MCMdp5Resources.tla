--------------------------- MODULE MCMdp5Resources ---------------------------
(* Small instances of Mdp5Resources.                                       *)
EXTENDS Mdp5Resources

(* Two DMA pipes, then an RGB pipe that can also scale.                    *)
MCCaps     == <<{"HFLIP"}, {"HFLIP"}, {"HFLIP", "SCALE"}>>
MCPipeId   == <<4, 5, 7>>
MCNClients == <<3, 3, 1>>
MCReserved == [c \in Client |-> 0]

Narrow  == [on |-> TRUE, caps |-> {}, blkcfg |-> <<1>>, right |-> FALSE]
Wide    == [on |-> TRUE, caps |-> {}, blkcfg |-> <<2>>, right |-> FALSE]
Scaled  == [on |-> TRUE, caps |-> {"SCALE"}, blkcfg |-> <<1>>, right |-> FALSE]
Planar  == [on |-> TRUE, caps |-> {}, blkcfg |-> <<2, 1>>, right |-> FALSE]
Seam    == [on |-> TRUE, caps |-> {}, blkcfg |-> <<1>>, right |-> TRUE]

(* Two pipes of a kind.                                                    *)
TwinCaps    == <<{"HFLIP"}, {"HFLIP"}>>
TwinPipeId  == <<4, 5>>
TwinNClients == <<3, 3>>

(* The first client of each pipe has a block of its own.                   *)
OneReserved == [c \in Client |-> IF c[2] = 1 THEN 1 ELSE 0]

NarrowWide == {Narrow, Wide}
NoSeamConfigs == {Narrow, Scaled, Planar}
SeamConfigs   == {Narrow, Seam}
==============================================================================
