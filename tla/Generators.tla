----------------------------- MODULE Generators -----------------------------
(***************************************************************************)
(* The operator generators of engine.hpp, put together into a pipeline     *)
(* over a source, and the engine that resumes them one at a time, as one   *)
(* worker does (module Yengine has the workers, the queue and the lock).   *)
(*                                                                         *)
(* A pipeline is written by the client as a sequence of operations (>>,    *)
(* << and >>=); the class of each generator follows from the type of what  *)
(* the operation is applied to, plain (U) or maybe (U?).  gens[1] is the   *)
(* source, gens[i] awaits gens[i-1], and the client demands the values of  *)
(* the last one.  The functions that clients pass in are constants.        *)
(* OpDirectGeneratorFMM is left out, since no client can have one: its     *)
(* resume() (engine.hpp:190) does not override that of IGeneratorT<V?>     *)
(* (agen.hpp:34), and g++ refuses to instantiate it.                       *)
(***************************************************************************)
EXTENDS Naturals, SequencesExt

CONSTANTS Values,     (* what U and V range over                            *)
          Nothing,    (* the empty Maybe                                    *)
          Map,        (* U -> V                                             *)
          Filter,     (* U -> V?                                            *)
          Inner,      (* U -> V^: the values that the future will yield     *)
          Ready,      (* those U whose future is completed beforehand       *)
          Explosion,  (* U -> V...                                          *)
          Empty,      (* () -> V of an implosion                            *)
          Step,       (* (V, U) -> V of an implosion                        *)
          Pipelines,  (* the pipelines tried: sequences of operations       *)
          Sources,    (* the sources tried: sequences of items              *)
          MaxSize     (* operations and items together: a bound for TLC     *)

(* What the function of an operation returns: V, V?, V^ or V... (and V).   *)
Operations == {"then", "thenMaybe", "thenFuture", "explode", "implode"}

ASSUME FunctionsAssumption ==
  /\ Nothing \notin Values /\ Empty \in Values
  /\ Map \in [Values -> Values] /\ Filter \in [Values -> Values \cup {Nothing}]
  /\ Explosion \in [Values -> Seq(Values)] /\ Step \in [Values \X Values -> Values]
  /\ Inner \in [Values -> Seq(Values) \ {<<>>}]
  /\ Ready \subseteq {u \in Values : Len(Inner[u]) = 1}
ASSUME PipelinesAssumption ==
  /\ Pipelines \subseteq Seq(Operations) /\ <<>> \notin Pipelines
  /\ Sources \subseteq Seq(Values \cup {Nothing}) /\ <<>> \notin Sources
  /\ MaxSize \in Nat

VARIABLES items,     (* all that the source yields                          *)
          gens,      (* the generators                                      *)
          task,      (* the generator that the worker resumes; 0: none      *)
          inner,     (* it resumes *nxt of gens[task], not gens[task]       *)
          asked,     (* how often the client has asked for a value          *)
          out        (* the values it has been given                        *)

vars == <<items, gens, task, inner, asked, out>>

------------------------------------------------------------------------------
(* Building a pipeline. *)

(* The overloads of then_spec1 ... *)
Then(op, type) ==
  IF op = "thenFuture" THEN "F" ELSE IF type = "plain" THEN "0" ELSE "MM"

(* ... of explode_spec0 ... *)
Explode(type) == IF type = "plain" THEN "X" ELSE "XM"

(* ... and of implode_spec0. *)
ClassOf(op, type) ==
  CASE op = "explode" -> Explode(type)
    [] op = "implode" -> "IM"
    [] OTHER          -> Then(op, type)

(* The type of what the operation makes. *)
YieldType(op, type) ==
  IF op \in {"explode", "thenMaybe"} THEN "maybe"
  ELSE IF op = "implode" THEN "plain" ELSE type

(* The type of what each operation is applied to. *)
Types(ops, type) ==
  LET t[i \in 1..(Len(ops) + 1)] ==
        IF i = 1 THEN type ELSE YieldType(ops[i-1], t[i-1])
  IN  t

(* An implosion is of U?; a function from U to V^ applied to U? would make *)
(* an OpDirectGeneratorFMM.                                                *)
Compiles(ops, type) ==
  \A i \in DOMAIN ops :
    /\ ops[i] = "implode"    => Types(ops, type)[i] = "maybe"
    /\ ops[i] = "thenFuture" => Types(ops, type)[i] = "plain"

SourceTypes(s) == IF Contains(s, Nothing) THEN {"maybe"} ELSE {"plain", "maybe"}

(* completed: its IGenfT is Completed, not Suspended; val: what it yielded *)
(* last; left: what is still to come of what it iterates, the source's     *)
(* items, the explosion from imp on, the values of *nxt; nval: what *nxt   *)
(* yielded last.                                                           *)
Operator(op, class) ==
  [op |-> op, class |-> class, state |-> "I", completed |-> FALSE,
   val |-> Nothing, left |-> <<>>, nval |-> Nothing, acc |-> Empty]

Operators(ops, type) ==
  [i \in DOMAIN ops |-> Operator(ops[i], ClassOf(ops[i], Types(ops, type)[i]))]

(* A generator made by lambdagen that sets its flag with the last item ... *)
Lambdagen(s) == [Operator("source", "L") EXCEPT !.left = s]

(* ... or an outside future that is completed already. *)
CompletedFuture(s) == [Operator("source", "L") EXCEPT !.completed = TRUE, !.val = s[1]]

Init ==
  /\ items \in Sources
  /\ \E type \in SourceTypes(items), ops \in Pipelines :
       /\ Compiles(ops, type) /\ Len(ops) + Len(items) <= MaxSize
       /\ \/ gens = <<Lambdagen(items)>> \o Operators(ops, type)
          \/ /\ Len(items) = 1
             /\ gens = <<CompletedFuture(items)>> \o Operators(ops, type)
  /\ task = 0 /\ inner = FALSE /\ asked = 0 /\ out = <<>>

------------------------------------------------------------------------------
(* The engine: what threado() does with what a generator returns. *)
last == Len(gens)

done(g) ==
  CASE g.class = "L" -> g.left = <<>>
    [] g.class = "C" -> g.left # <<>>  (* IteratingGenerator: c != e *)
    [] OTHER         -> g.state = "Fi"

(* The client launches the pipeline, or awaits it, for its next value. *)
Demand ==
  /\ task = 0 /\ ~gens[last].completed
  /\ task' = last /\ asked' = asked + 1
  /\ UNCHANGED <<items, gens, inner, out>>

YieldGoesOn(i, g, v) ==  (* faulty: the last generator is resumed unasked *)
  /\ gens' = [gens EXCEPT ![i] = [g EXCEPT !.val = v, !.completed = done(g)]]
  /\ task' = IF i # last THEN i + 1 ELSE IF done(g) THEN 0 ELSE i
  /\ out' = IF i = last THEN Append(out, v) ELSE out
  /\ UNCHANGED <<items, inner, asked>>

(* gens[i] has become g and produced v: on to the one that awaits it. *)
Yield(i, g, v) ==
  /\ gens' = [gens EXCEPT ![i] = [g EXCEPT !.val = v, !.completed = done(g)]]
  /\ task' = IF i = last THEN 0 ELSE i + 1
  /\ out' = IF i = last THEN Append(out, v) ELSE out
  /\ UNCHANGED <<items, inner, asked>>

AwaitAnyway(i, g) ==  (* faulty: a precursor that is Completed is resumed *)
  /\ gens' = [gens EXCEPT ![i] = g]
  /\ task' = i - 1
  /\ UNCHANGED <<items, inner, asked, out>>

(* gens[i] has become g and awaits gens[i-1]: resumed at once if that is   *)
(* Completed, else after gens[i-1], which is Suspended.                    *)
Await(i, g) ==
  /\ gens' = [gens EXCEPT ![i] = g]
  /\ task' = IF gens[i-1].completed THEN i ELSE i - 1
  /\ UNCHANGED <<items, inner, asked, out>>

(* gens[i] has become g and awaits *nxt. *)
AwaitNxt(i, g) ==
  /\ gens' = [gens EXCEPT ![i] = g]
  /\ inner' = (g.left # <<>>)
  /\ UNCHANGED <<items, task, asked, out>>

------------------------------------------------------------------------------
(* The generators' resume().  *)
At(i, class) == task = i /\ ~inner /\ gens[i].class = class

Precursor(i) == gens[i-1].val                  (* awa.result()              *)
PrecursorDone(i) == gens[i-1].completed        (* awa.state() == Completed  *)

(* In state I all of them start to await the precursor. *)
Start(i, to) == gens[i].state = "I" /\ Await(i, [gens[i] EXCEPT !.state = to])

In(i, state) == gens[i].state = state
To(i, state) == [gens[i] EXCEPT !.state = state]

(* The user's function of type U -> V or V?. *)
Applied(i, u) == IF gens[i].op = "then" THEN Map[u] ELSE Filter[u]

(* GeneratorLGenerator, the source. *)
ResumeL(i) ==
  /\ At(i, "L")
  /\ Yield(i, [gens[i] EXCEPT !.left = Tail(@)], Head(gens[i].left))

(* OpDirectGenerator0 *)
Resume0(i) ==
  /\ At(i, "0")
  /\ \/ Start(i, "A")
     \/ /\ In(i, "A")
        /\ Yield(i, To(i, IF PrecursorDone(i) THEN "Fi" ELSE "I"),
                 Applied(i, Precursor(i)))

ResumeMMAlways(i) ==  (* faulty: what came to nothing is yielded *)
  /\ At(i, "MM")
  /\ \/ Start(i, "A")
     \/ /\ In(i, "A")
        /\ Yield(i, To(i, IF PrecursorDone(i) THEN "Fi" ELSE "I"),
                 IF Precursor(i) = Nothing THEN Nothing ELSE Applied(i, Precursor(i)))

(* OpDirectGeneratorMM: yields Nothing at its end only. *)
ResumeMM(i) ==
  LET r == IF Precursor(i) = Nothing THEN Nothing ELSE Applied(i, Precursor(i)) IN
  /\ At(i, "MM")
  /\ \/ Start(i, "A")
     \/ In(i, "A") /\ PrecursorDone(i) /\ Yield(i, To(i, "Fi"), r)
     \/ In(i, "A") /\ ~PrecursorDone(i) /\ r # Nothing /\ Yield(i, To(i, "I"), r)
     \/ In(i, "A") /\ ~PrecursorDone(i) /\ r = Nothing /\ Await(i, gens[i])

(* f(u) is in *nxt, which is returned. *)
AwaitInner(i, u) ==
  AwaitNxt(i, [To(i, "A1") EXCEPT
    !.left = IF u \in Ready THEN <<>> ELSE Inner[u],
    !.nval = IF u \in Ready THEN Inner[u][1] ELSE Nothing])

(* *nxt yields; it is completed with its last value. *)
ResumeNxt(i) ==
  /\ task = i /\ inner /\ inner' = FALSE
  /\ gens' = [gens EXCEPT ![i].nval = Head(gens[i].left), ![i].left = Tail(@)]
  /\ UNCHANGED <<items, task, asked, out>>

(* States A1r and A1. *)
MoreOfNxt(i) == In(i, "A1r") /\ AwaitNxt(i, To(i, "A1"))

YieldNxtOnce(i) ==  (* faulty: *nxt is taken to yield once *)
  /\ In(i, "A1")
  /\ Yield(i, To(i, IF PrecursorDone(i) THEN "Fi" ELSE "I"), gens[i].nval)

YieldNxt(i) ==
  /\ In(i, "A1")
  /\ Yield(i, To(i, IF gens[i].left # <<>> THEN "A1r"
                    ELSE IF PrecursorDone(i) THEN "Fi" ELSE "I"),
           gens[i].nval)

(* OpDirectGeneratorF *)
ResumeF(i) ==
  /\ At(i, "F")
  /\ \/ Start(i, "A0")
     \/ In(i, "A0") /\ AwaitInner(i, Precursor(i))
     \/ MoreOfNxt(i)
     \/ YieldNxt(i)

SkipOnly(i) == Await(i, gens[i])  (* faulty: the end is not looked for *)

(* The precursor's value came to nothing: end, or await the next. *)
Skip(i) ==
  \/ PrecursorDone(i) /\ Yield(i, To(i, "Fi"), Nothing)
  \/ ~PrecursorDone(i) /\ Await(i, gens[i])

(* State Ar, with im the elements from imp on. *)
YieldElement(i, im) ==
  Yield(i, [To(i, IF Len(im) > 1 THEN "Ar" ELSE IF PrecursorDone(i) THEN "Fi" ELSE "I")
            EXCEPT !.left = Tail(im)], Head(im))

(* OpExplodingGenerator *)
ResumeX(i) ==
  LET im == Explosion[Precursor(i)] IN
  /\ At(i, "X")
  /\ \/ Start(i, "A0")
     \/ In(i, "A0") /\ im = <<>> /\ Skip(i)
     \/ In(i, "A0") /\ im # <<>> /\ YieldElement(i, im)
     \/ In(i, "Ar") /\ YieldElement(i, gens[i].left)

(* OpExplodingGeneratorM *)
ResumeXM(i) ==
  LET im == IF Precursor(i) = Nothing THEN <<>> ELSE Explosion[Precursor(i)] IN
  /\ At(i, "XM")
  /\ \/ Start(i, "A0")
     \/ In(i, "A0") /\ im = <<>> /\ Skip(i)
     \/ In(i, "A0") /\ im # <<>> /\ YieldElement(i, im)
     \/ In(i, "Ar") /\ YieldElement(i, gens[i].left)

(* OpImplodeGeneratorM *)
ResumeIM(i) ==
  LET acc == IF Precursor(i) = Nothing THEN gens[i].acc
             ELSE Step[<<gens[i].acc, Precursor(i)>>]
  IN
  /\ At(i, "IM")
  /\ \/ Start(i, "A")
     \/ In(i, "A") /\ PrecursorDone(i) /\ Yield(i, [To(i, "Fi") EXCEPT !.acc = acc], acc)
     \/ In(i, "A") /\ ~PrecursorDone(i) /\ Await(i, [gens[i] EXCEPT !.acc = acc])

Resume ==
  \E i \in DOMAIN gens :
    \/ ResumeL(i) \/ Resume0(i) \/ ResumeMM(i) \/ ResumeF(i)
    \/ ResumeX(i) \/ ResumeXM(i) \/ ResumeIM(i) \/ ResumeNxt(i)

Next == Demand \/ Resume

Spec == Init /\ [][Next]_vars

(* The same over an IteratingGenerator (impls.hpp) of the items; left      *)
(* begins at its iterator c, and Nothing stands for what is at the end.    *)
ResumeC(i) ==
  /\ At(i, "C")
  /\ \/ gens[i].left = <<>> /\ Yield(i, gens[i], Nothing)
     \/ /\ gens[i].left # <<>>
        /\ Yield(i, [gens[i] EXCEPT !.left = Tail(@)], Head(gens[i].left))

IteratingInit ==
  /\ items \in Sources /\ ~Contains(items, Nothing)
  /\ \E ops \in Pipelines :
       /\ Compiles(ops, "plain") /\ Len(ops) + Len(items) <= MaxSize
       /\ gens = <<[Operator("source", "C") EXCEPT !.left = items]>> \o Operators(ops, "plain")
  /\ task = 0 /\ inner = FALSE /\ asked = 0 /\ out = <<>>

IteratingSpec == IteratingInit /\ [][Next \/ \E i \in DOMAIN gens : ResumeC(i)]_vars

(* The worker goes on while it has a generator to resume. *)
FairSpec == Spec /\ WF_vars(Resume)

------------------------------------------------------------------------------
(* What the operations promise, as functions of streams: what comes of     *)
(* each thing, ...                                                         *)
Pieces(op) ==
  [u \in Values |->
     CASE op = "then"       -> <<Map[u]>>
       [] op = "thenMaybe"  -> IF Filter[u] = Nothing THEN <<>> ELSE <<Filter[u]>>
       [] op = "thenFuture" -> Inner[u]
       [] OTHER             -> Explosion[u]]

Flat(f, s) == FlattenSeq([i \in DOMAIN s |-> f[s[i]]])

Things(s) == Flat([v \in Values \cup {Nothing} |-> IF v = Nothing THEN <<>> ELSE <<v>>], s)

Imploded(s) ==
  LET acc[i \in 0..Len(s)] == IF i = 0 THEN Empty ELSE Step[<<acc[i-1], s[i]>>]
  IN  acc[Len(s)]

(* ... of the things s, of which there are no more if ended holds, ...     *)
Transformed(op, s, ended) ==
  IF op # "implode" THEN Flat(Pieces(op), s)
  ELSE IF ended THEN <<Imploded(s)>> ELSE <<>>

(* ... through the whole pipeline. *)
Through(ops, s, ended) ==
  LET through[i \in DOMAIN ops] ==
        IF i = 1 THEN Things(s) ELSE Transformed(ops[i], through[i-1], ended)
  IN  through[Len(ops)]

Promised(s, ended) == Through([i \in DOMAIN gens |-> gens[i].op], s, ended)

------------------------------------------------------------------------------
MaybeClasses == {"MM", "X", "XM"}

(* engine.hpp:27-34: a pipeline yields what its operations make of the     *)
(* source, nothing lost, repeated or out of order, however often its       *)
(* generators were resumed; and all of it, once it is completed.           *)
YieldsWhatIsPromised ==
  LET all == Promised(items, TRUE) IN
  /\ IsPrefix(Things(out), all)
  /\ gens[last].completed => Things(out) = all

(* U? -> V?..: an operator on Maybe things passes over what comes to       *)
(* nothing; it yields Nothing only to end, when it has nothing better.     *)
NothingOnlyEnds ==
  gens[last].class \in MaybeClasses =>
    \A k \in DOMAIN out : out[k] = Nothing => k = Len(out) /\ gens[last].completed

(* "case State::Fi: //Never" (engine.hpp:68, 167, 443): the engine does    *)
(* not resume a generator, or the future it iterates, that is done.        *)
NeverResumedWhenDone ==
  task # 0 => IF inner THEN gens[task].left # <<>> ELSE ~done(gens[task])

(* How many of the items the source has yielded.                           *)
Taken == Len(items) - Len(gens[1].left)

(* engine.cpp:76 "#BeLazy": the pipeline runs when it is asked to and no   *)
(* further: the source is resumed only if what it has yielded is not       *)
(* enough for the values asked for.                                        *)
Lazy ==
  /\ Len(out) <= asked
  /\ asked > 0 /\ Taken > 0 =>
       Len(Promised(SubSeq(items, 1, Taken - 1), FALSE)) < asked

(* agen.hpp:28: who asks gets a value. *)
EveryDemandIsMet == asked > Len(out) ~> asked = Len(out)
==============================================================================
