----------------------------- MODULE MCMdp5Cursor -----------------------------
(* Images two columns wide on a screen of three: the cursor hangs over the   *)
(* left edge, the right one or neither, there in one of two places.          *)
EXTENDS Mdp5Cursor

MCSizes == {2}

Env(waits, prompt, n, xs) == [waits |-> waits, prompt |-> prompt, pins |-> n, moves |-> xs]

MCEnvs ==
    {Env(TRUE, TRUE, 2, {-1, 1, 2}), Env(TRUE, FALSE, 1, {-1, 2}), Env(FALSE, TRUE, 1, {1})}

=============================================================================
