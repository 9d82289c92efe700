---------------------------- MODULE MCGenerators ----------------------------
(***************************************************************************)
(* The functions, pipelines and sources of the instance that TLC checks.   *)
(***************************************************************************)
EXTENDS Generators, TLC

CONSTANTS MaxOperations, MaxItems

MCValues == 0..3

(* Each function treats its values differently: nothing, one, several.     *)
MCMap == [u \in MCValues |-> (u + 1) % 4]
MCFilter == [u \in MCValues |-> IF u = 0 THEN Nothing ELSE 3 - u]
MCInner == 0 :> <<1>> @@ 1 :> <<2>> @@ 2 :> <<3, 0>> @@ 3 :> <<0, 2, 1>>
MCReady == {0}
MCExplosion == 0 :> <<>> @@ 1 :> <<2>> @@ 2 :> <<3, 0>> @@ 3 :> <<1, 1, 2>>

(* Not commutative, so that the order of the implosion shows.              *)
MCStep == [p \in MCValues \X MCValues |-> (2 * p[1] + p[2] + 1) % 4]

MCPipelines == UNION {[1..n -> Operations] : n \in 1..MaxOperations}
MCTwoItems == [1..2 -> MCValues]
MCSources == UNION {[1..n -> MCValues \cup {Nothing}] : n \in 1..MaxItems}
==============================================================================
