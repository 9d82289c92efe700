------------------------------ MODULE MCYengine ------------------------------
(***************************************************************************)
(* Small instances of the engine.  `src` is a source that yields twice,    *)
(* `map1` awaits it and `map2` awaits `map1`; `rcv` awaits the outside     *)
(* future `evt`.                                                           *)
(***************************************************************************)
EXTENDS EngineStreams, TLC

CONSTANTS src, map1, map2, rcv, evt

Awaits == (src :> None) @@ (map1 :> src) @@ (map2 :> map1) @@ (rcv :> evt)
AwaPipelines == [x \in Gens |-> Awaits[x]]
TwoYields == [x \in Gens |-> 2]

(* The clients of Next as one thread: it calls wle() once its execute()    *)
(* has returned, and submits nothing after that.                           *)
WleLast ==
  /\ wle = "before" /\ wle' # "before" => calls = {}
  /\ wle # "before" => calls' \subseteq calls
OneClientSpec == Init /\ [][Next /\ WleLast]_vars
==============================================================================
