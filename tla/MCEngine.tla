------------------------------ MODULE MCEngine ------------------------------
(* Three symbols in two source files, a fourth under a uri that is no file path. *)
EXTENDS Engine, TLC

CONSTANTS a, b, c, d, main, lib, web

MCNodeId == {a, b, c, d}
MCUri == {main, lib, web}
MCFileUri == {main, lib}
MCUriOf == (a :> main) @@ (b :> main) @@ (c :> lib) @@ (d :> web)

Exp(in, out) == [callers |-> in, callees |-> out]

(* a is recursive; c's answer depends on when it is asked; d is never named. *)
MCAnswers ==
  (a :> {Exp({}, {a, c}), Exp({}, {a, b})}) @@
  (b :> {Exp({a}, {c})}) @@
  (c :> {Exp({a, b}, {}), Exp({b}, {}), Exp({}, {})}) @@
  (d :> {Exp({}, {})})
=============================================================================
