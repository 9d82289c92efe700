---------------------------- MODULE EngineStreams ----------------------------
(***************************************************************************)
(* The engine implements Streams: where a generator is in a stream follows *)
(* from its state, from gen and from the worker that has it.               *)
(***************************************************************************)
EXTENDS Yengine

(* Worker w is about to publish the value of g. *)
Makes(w, g) == task[w] = g /\ pc[w] = "publish"

(* It has, and is about to drop the awaiter of g from the map, or to       *)
(* resume it with the value.                                               *)
Gives(w, g) ==
  \/ pc[w] = "drop" /\ task[w] = g
  \/ pc[w] \in {"run", "resume"} /\ task[w] \in Gens /\ gen[task[w]] = "A" /\ Awa[task[w]] = g

Made(g) == \E w \in Workers : Makes(w, g)
Offered(g) == g \notin Roots /\ \E w \in Workers : Gives(w, g)

Stage(g) ==
  IF Made(g) THEN "made"
  ELSE IF Offered(g) THEN "full"
  ELSE IF state[g] \in {"Queued", "Running", "Awaiting"} THEN "asked"
  ELSE "idle"

streams == INSTANCE Streams
  WITH stage <- [g \in Gens |-> Stage(g)],
       rest  <- [g \in {h \in Gens : Awa[h] = None} |-> left[g]],
       over  <- {g \in Gens : gen[g] = "Fi"},
       outs  <- [o \in Outs |-> state[o]]

(* agen.hpp:15-30: whatever the workers do to the same futures without a   *)
(* lock, every value is computed when it is asked for, is taken once by    *)
(* the generator that awaits it, and none comes after the last.            *)
ImplementsStreams == streams!Spec
==============================================================================
