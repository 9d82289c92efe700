------------------------------- MODULE Streams -------------------------------
(***************************************************************************)
(* What the engine promises to generators that await one another           *)
(* (agen.hpp), without workers, a queue or a map of awaiters: a generator  *)
(* computes only what it was asked for, what it has computed is taken once *)
(* by the generator that awaits it, before it is asked again, and after    *)
(* its last value it is not asked any more.                                *)
(***************************************************************************)
EXTENDS Naturals

CONSTANTS Gens, Outs, None,
          Awa,     (* what a generator awaits; None: a source               *)
          Yields   (* how many values a source has                          *)

VARIABLES stage,   (* "idle"; "asked": it is to compute a value; "made": it *)
                   (* has; "full": its value is there for who awaits it     *)
          rest,    (* how many values a source still has                    *)
          over,    (* the generators that have computed their last value    *)
          outs     (* of an outside future: "Running", "Completed" or       *)
                   (* "Cancelled"                                           *)

vars == <<stage, rest, over, outs>>

Sources == {g \in Gens : Awa[g] = None}
Awaited == {Awa[g] : g \in Gens}

Init ==
  /\ stage = [g \in Gens |-> "idle"]
  /\ rest = [g \in Sources |-> Yields[g]]
  /\ over = {}
  /\ outs = [o \in Outs |-> "Running"]

(* By a client, who has taken the last value, or by what awaits it.        *)
Ask(g) ==
  /\ stage[g] = "idle" /\ g \notin over
  /\ g \in Awaited => \E a \in Gens : Awa[a] = g /\ stage[a] = "asked"
  /\ stage' = [stage EXCEPT ![g] = "asked"]
  /\ UNCHANGED <<rest, over, outs>>

(* A source computes its next value ... *)
Produce(g) ==
  /\ g \in Sources /\ stage[g] = "asked" /\ rest[g] > 0
  /\ stage' = [stage EXCEPT ![g] = "made"]
  /\ rest' = [rest EXCEPT ![g] = @ - 1]
  /\ over' = IF rest[g] = 1 THEN over \cup {g} ELSE over
  /\ UNCHANGED outs

(* ... a `>>` generator takes the value of what it awaits ... *)
Take(g) ==
  LET f == Awa[g] IN
  /\ f \in Gens /\ stage[g] = "asked" /\ stage[f] = "full"
  /\ stage' = [stage EXCEPT ![g] = "made", ![f] = "idle"]
  /\ over' = IF f \in over THEN over \cup {g} ELSE over
  /\ UNCHANGED <<rest, outs>>

(* ... or that of an outside future, when there is one or will be none.    *)
Receive(g) ==
  LET o == Awa[g] IN
  /\ o \in Outs /\ stage[g] = "asked" /\ outs[o] # "Running"
  /\ stage' = [stage EXCEPT ![g] = "made"]
  /\ over' = IF outs[o] = "Completed" THEN over \cup {g} ELSE over
  /\ UNCHANGED <<rest, outs>>

(* It yields: to its client, or to the generator that awaits it. *)
Offer(g) ==
  /\ stage[g] = "made"
  /\ stage' = [stage EXCEPT ![g] = IF g \in Awaited THEN "full" ELSE "idle"]
  /\ UNCHANGED <<rest, over, outs>>

Settle(o) ==
  /\ outs[o] = "Running"
  /\ \E how \in {"Completed", "Cancelled"} : outs' = [outs EXCEPT ![o] = how]
  /\ UNCHANGED <<stage, rest, over>>

Next ==
  \/ \E g \in Gens : Ask(g) \/ Produce(g) \/ Take(g) \/ Receive(g) \/ Offer(g)
  \/ \E o \in Outs : Settle(o)

Spec == Init /\ [][Next]_vars
==============================================================================
