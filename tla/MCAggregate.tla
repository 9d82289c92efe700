----------------------------- MODULE MCAggregate -----------------------------
(***************************************************************************)
(* The engine with either of two sets of clients: those of an aggregate of *)
(* two members, one of which awaits the outside future `evt`, the other a  *)
(* source that yields twice; and clients that launch ahead what the same   *)
(* pipelines await, and call wle(), while nothing uses the aggregate.      *)
(***************************************************************************)
EXTENDS Aggregate, TLC

CONSTANTS m1, m2, src, evt

AwaMembers == [x \in Gens |-> ((m1 :> evt) @@ (m2 :> src) @@ (src :> None) @@ (blocked :> agg))[x]]
TwoYields == [x \in Gens |-> 2]

VARIABLE clients

clientsVars == <<aggregateVars, clients>>

Aggregating == clients = "aggregate" /\ UNCHANGED clients
Ahead == clients = "ahead" /\ UNCHANGED <<aggVars, blockVars, clients>>

ClientsInit == AggregateInit /\ clients \in {"aggregate", "ahead"}

ClientsNext ==
  \/ Aggregating /\ AggregateNext
  \/ Ahead /\ AheadNext /\ (calls' \cap {agg, blocked} = {})

ClientsSpec == ClientsInit /\ [][ClientsNext]_clientsVars

(* The fairness of FairAggregateSpec, and that of FairAheadSpec.           *)
FairClientsSpec ==
  /\ ClientsSpec
  /\ \A w \in Workers :
       SF_clientsVars((Aggregating /\ AggregateWork(w)) \/ (Ahead /\ Work(w)))
  /\ \A f \in Futures :
       WF_clientsVars((Aggregating /\ AggregatePush(f)) \/ (Ahead /\ PushCall(f)))
  /\ \A o \in Outs \ {agg} :
       WF_clientsVars(\/ Aggregating /\ MemberSettles(o)
                      \/ Ahead /\ (Completed(o) \/ Cancelled(o)))
  /\ \A m \in Members : WF_clientsVars(Aggregating /\ AddSubmits(m))
  /\ WF_clientsVars(Aggregating /\ BlawaitTests)
  /\ WF_clientsVars(Ahead /\ Wle)
==============================================================================
