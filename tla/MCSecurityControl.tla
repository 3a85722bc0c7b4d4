------------------------- MODULE MCSecurityControl -------------------------
EXTENDS SecurityControl, TLC
CONSTANTS a, b, main, alt, r, s
Cfg(l, p) == [listen |-> l, policy |-> p]
MCSecConfigs == {Cfg(a, {}), Cfg(a, {s}), Cfg(b, {})}
MCSecEnvs == {[listen |-> None, path |-> main], [listen |-> b, path |-> main], [listen |-> None, path |-> alt]}
MCInitSecEnv == [listen |-> None, path |-> main]
MCInitSecFile == (main :> Cfg(a, {}) @@ alt :> Cfg(b, {}))
=============================================================================
