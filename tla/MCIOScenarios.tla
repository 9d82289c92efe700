---------------------------- MODULE MCIOScenarios ---------------------------
(***************************************************************************)
(* The input, the pattern and the requests of the instances of IOScenarios *)
(* that TLC checks.                                                        *)
(***************************************************************************)
EXTENDS IOScenarios

CONSTANT Sizes

(* The pattern starts once in vain.                                        *)
MCContent == SubSeq(<<1, 1, 2, 1>>, 1, InSize)
MCPattern == <<1, 2>>

MCRequests == [kind : {"upto"}, size : Sizes] \cup [kind : {"peek"}, size : {2}]
              \cup [kind : {"write"}, size : {1}]
              \cup [kind : {"all", "until"}, size : {0}]

(* After a peek or a pattern comes a read, which finds what they have left *)
(* in the buffer.                                                          *)
MCLastRequests == {q \in MCRequests : q.kind \notin {"peek", "until"}}
==============================================================================
