------------------------ MODULE MCConfigBundleTasks -------------------------
(* Two bundles that both change the mappings of the provider, both with a    *)
(* replay or the second without one or with a preview; or one bundle that    *)
(* asks for both kinds of work; a poller that serves every run, and another  *)
(* one or a bootstrap that drains the first run.                             *)
EXTENDS ConfigBundleTasks

CONSTANTS a1, a2, w1, w2

MCBoth == [a \in Applies |-> IF a = a1 THEN Kinds ELSE {}]
MCSecond(mode) == [a \in Applies |-> IF a = a1 THEN {"replay"} ELSE {mode}]
MCNeeds == {MCSecond(mode) : mode \in Modes} \cup {MCBoth}
MCNeedsBoth == {MCBoth}
MCPollers == [w \in Workers |-> Applies]
MCServes == {MCPollers, [MCPollers EXCEPT ![w2] = {a1}]}
MCServesAll == {MCPollers}
=============================================================================
