---------------------------- MODULE IOI2WayProofs ----------------------------
(***************************************************************************)
(* Safety of one direction of the two-way resource, for any number of      *)
(* bytes and reads, any sizes of writes and any requests.                  *)
(*                                                                         *)
(* Bytes: what was read, followed by what is in the buffer, ascends and    *)
(* has been written (Ascends).  Futures: they are numbered as they are     *)
(* made; all but the last have been told by the writer, so that there are  *)
(* no more of them than events to tell (Counted), and what waits for a     *)
(* reader was told through the future it is parked under (TellsWaiter).    *)
(***************************************************************************)
EXTENDS IOI2Way, SequenceTheorems, TLAPS

Seen == got \o buff

Ascends ==
  /\ \A i, j \in DOMAIN Seen : i < j => Seen[i] < Seen[j]
  /\ \A i \in DOMAIN Seen : Seen[i] \in 1..written

(* Everything the writer has said, and may still say. *)
Ended == IF exi THEN 0 ELSE 1
Told == \/ last \in {telling, posting} \/ last \in completed
        \/ last \in Ids /\ posted[last] > 0
        \/ reader \in {"idle", "reset", "move", "gone"}

Counted ==
  /\ last <= written + Ended + 1
  /\ Told => last <= written + Ended

(* Nothing is said of futures that are still to be made. *)
NotYetMade ==
  /\ notifi <= last /\ telling <= last /\ posting <= last
  /\ \A n \in Ids : n > last => n \notin completed /\ posted[n] = 0

Waiting == reader \in {"check", "add", "parked"}

TellsWaiter ==
  workers = 1 /\ Waiting =>
    /\ notifi = last
    /\ buff # <<>> \/ ~exi => \/ last \in {telling, posting}
                              \/ posted[last] > 0

WaitsForSome == Waiting => last # Never

OneAtATime == telling = Never \/ posting = Never

IInv ==
  /\ TypeOK /\ Ascends /\ Counted /\ NotYetMade
  /\ TellsWaiter /\ WaitsForSome /\ OneAtATime

------------------------------------------------------------------------------
(* Nothing is read or written at first. *)
LEMMA InitInv == Init => IInv
  <1> SUFFICES ASSUME Init PROVE IInv
    OBVIOUS
  <1> USE PipeAssumption DEF Init, Never
  <1>1. TypeOK
    <2>1. buff \in Seq(1..MaxBytes) /\ got \in Seq(1..MaxBytes)
      OBVIOUS
    <2>2. exi \in BOOLEAN /\ crashed \in BOOLEAN
      OBVIOUS
    <2>3. /\ written \in 0..MaxBytes /\ reads \in 0..MaxReads /\ want \in Requests \cup {0}
          /\ workers \in {1, 2} /\ completed \subseteq Ids /\ reader \in ReaderState
          /\ {notifi, last, telling, posting} \subseteq Ids \cup {Never}
      BY DEF ReaderState
    <2>4. posted \in [Ids -> Nat]
      OBVIOUS
    <2> QED BY <2>1, <2>2, <2>3, <2>4 DEF TypeOK
  <1>2. Ascends
    BY DEF Ascends, Seen
  <1>3. Counted /\ NotYetMade /\ TellsWaiter /\ WaitsForSome /\ OneAtATime
    BY DEF Counted, Ended, NotYetMade, TellsWaiter, WaitsForSome, Waiting, OneAtATime, Ids
  <1> QED BY <1>1, <1>2, <1>3 DEF IInv

(* Bytes nobody moves stay as they are. *)
LEMMA SameBytes ==
  ASSUME Ascends, UNCHANGED <<buff, got, written>>
  PROVE  Ascends'
  BY DEF Ascends, Seen

(* A write appends bytes beyond all those written before. *)
LEMMA WriteAscends ==
  ASSUME TypeOK, Ascends, NEW n \in Chunks, Write(n)
  PROVE  Ascends' /\ buff' \in Seq(1..MaxBytes)
  <1> USE PipeAssumption
  <1>1. /\ n \in Nat \ {0} /\ written \in Nat /\ written' = written + n
        /\ written + n <= MaxBytes /\ got' = got
        /\ buff \in Seq(1..MaxBytes) /\ got \in Seq(1..MaxBytes)
    BY DEF TypeOK, Write, vars
  <1> DEFINE new == NextBytes(n)
  <1>2. /\ new \in Seq(1..MaxBytes) /\ Len(new) = n
        /\ \A i \in 1..n : new[i] = written + i
    BY <1>1 DEF NextBytes
  <1>3. buff' = buff \o new
    BY DEF Write
  <1> HIDE DEF new
  <1>4. /\ Seen \in Seq(1..MaxBytes) /\ Len(Seen) = Len(got) + Len(buff)
        /\ \A i \in 1..(Len(got) + Len(buff)) :
             Seen[i] = IF i <= Len(got) THEN got[i] ELSE buff[i - Len(got)]
    BY <1>1, ConcatProperties DEF Seen
  <1>5. /\ buff' \in Seq(1..MaxBytes) /\ Len(buff') = Len(buff) + n
        /\ \A i \in 1..(Len(buff) + n) :
             buff'[i] = IF i <= Len(buff) THEN buff[i] ELSE new[i - Len(buff)]
    BY <1>1, <1>2, <1>3, ConcatProperties
  <1>6. /\ Seen' \in Seq(1..MaxBytes) /\ Len(Seen') = Len(got) + Len(buff')
        /\ \A i \in 1..(Len(got) + Len(buff')) :
             Seen'[i] = IF i <= Len(got) THEN got[i] ELSE buff'[i - Len(got)]
    BY <1>1, <1>5, ConcatProperties DEF Seen
  <1>7. Len(got) \in Nat /\ Len(buff) \in Nat
    BY <1>1
  <1>8. /\ Len(Seen') = Len(Seen) + n
        /\ \A i \in 1..Len(Seen) : Seen'[i] = Seen[i]
        /\ \A i \in (Len(Seen) + 1)..Len(Seen') : Seen'[i] = written + (i - Len(Seen))
    <2>1. Len(Seen') = Len(Seen) + n
      BY <1>1, <1>4, <1>5, <1>6, <1>7
    <2>2. ASSUME NEW i \in 1..Len(Seen) PROVE Seen'[i] = Seen[i]
      <3>1. i \in 1..(Len(got) + Len(buff)) /\ i \in 1..(Len(got) + Len(buff'))
        BY <1>1, <1>4, <1>5, <1>7
      <3>2. CASE i <= Len(got)
        BY <3>1, <3>2, <1>4, <1>6
      <3>3. CASE i > Len(got)
        <4>1. i - Len(got) \in 1..(Len(buff) + n) /\ i - Len(got) <= Len(buff)
          BY <3>1, <3>3, <1>1, <1>7
        <4>2. buff'[i - Len(got)] = buff[i - Len(got)]
          BY <4>1, <1>5
        <4> QED BY <3>1, <3>3, <4>2, <1>4, <1>6, <1>7
      <3> QED BY <3>1, <3>2, <3>3, <1>7
    <2>3. ASSUME NEW i \in (Len(Seen) + 1)..Len(Seen')
          PROVE  Seen'[i] = written + (i - Len(Seen))
      <3> DEFINE k == i - Len(got)
                 m == k - Len(buff)
      <3>1. i \in Int /\ i > Len(got) + Len(buff) /\ i <= Len(got) + Len(buff) + n
        BY <2>1, <1>1, <1>4, <1>7
      <3>2. /\ i \in 1..(Len(got) + Len(buff')) /\ i > Len(got)
            /\ k \in 1..(Len(buff) + n) /\ k > Len(buff) /\ m \in 1..n
        BY <3>1, <1>1, <1>5, <1>7
      <3>3. m = i - Len(Seen)
        BY <3>1, <1>4, <1>7
      <3> HIDE DEF k, m
      <3>4. buff'[k] = new[m]
        BY <3>2, <1>5, <1>7 DEF m
      <3>5. Seen'[i] = buff'[k]
        BY <3>1, <3>2, <1>6, <1>7 DEF k
      <3> QED BY <3>2, <3>3, <3>4, <3>5, <1>2
    <2> QED BY <2>1, <2>2, <2>3
  <1>9. DOMAIN Seen = 1..Len(Seen) /\ DOMAIN Seen' = 1..Len(Seen') /\ Len(Seen) \in Nat
    BY <1>4, <1>6
  <1>10. \A i \in DOMAIN Seen' : Seen'[i] \in 1..written'
    <2> SUFFICES ASSUME NEW i \in DOMAIN Seen' PROVE Seen'[i] \in 1..written'
      OBVIOUS
    <2>1. CASE i <= Len(Seen)
      <3>1. Seen'[i] = Seen[i] /\ Seen[i] \in 1..written
        BY <2>1, <1>8, <1>9 DEF Ascends
      <3> QED BY <3>1, <1>1
    <2>2. CASE i > Len(Seen)
      <3>1. Seen'[i] = written + (i - Len(Seen)) /\ i \in Nat /\ i <= Len(Seen) + n
        <4>1. i \in Nat /\ i \in (Len(Seen) + 1)..Len(Seen')
          BY <2>2, <1>9, <1>8, <1>1
        <4> QED BY <4>1, <1>8, <1>1, <1>9
      <3> QED BY <3>1, <2>2, <1>1, <1>9
    <2> QED BY <2>1, <2>2, <1>9
  <1>11. \A i, j \in DOMAIN Seen' : i < j => Seen'[i] < Seen'[j]
    <2> SUFFICES ASSUME NEW i \in DOMAIN Seen', NEW j \in DOMAIN Seen', i < j
                 PROVE  Seen'[i] < Seen'[j]
      OBVIOUS
    <2>1. CASE j <= Len(Seen)
      BY <2>1, <1>8, <1>9 DEF Ascends
    <2>2. CASE i <= Len(Seen) /\ j > Len(Seen)
      <3>1. Seen'[i] = Seen[i] /\ Seen[i] \in 1..written
        BY <2>2, <1>8, <1>9 DEF Ascends
      <3>2. Seen'[j] = written + (j - Len(Seen))
        BY <2>2, <1>8, <1>9
      <3> QED BY <3>1, <3>2, <2>2, <1>1, <1>9
    <2>3. CASE i > Len(Seen)
      <3>1. /\ Seen'[i] = written + (i - Len(Seen)) /\ Seen'[j] = written + (j - Len(Seen))
            /\ i \in Nat /\ j \in Nat
        <4>1. /\ i \in Nat /\ i \in (Len(Seen) + 1)..Len(Seen')
              /\ j \in Nat /\ j \in (Len(Seen) + 1)..Len(Seen')
          BY <2>3, <1>9, <1>8, <1>1
        <4> QED BY <4>1, <1>8
      <3> QED BY <3>1, <1>1, <1>9
    <2> QED BY <2>1, <2>2, <2>3, <1>9
  <1> QED BY <1>5, <1>10, <1>11 DEF Ascends

(* A read takes the buffer, into its result or into nowhere. *)
LEMMA MoveAscends ==
  ASSUME TypeOK, Ascends, Move
  PROVE  /\ Ascends'
         /\ buff' \in Seq(1..MaxBytes) /\ got' \in Seq(1..MaxBytes)
  <1>1. /\ buff' = <<>> /\ written' = written
        /\ got' = got \/ got' = got \o buff
        /\ buff \in Seq(1..MaxBytes) /\ got \in Seq(1..MaxBytes)
    BY DEF TypeOK, Move, Returns, Awaits, ReaderMoves, writerVars
  <1>2. buff' \in Seq(1..MaxBytes) /\ got' \in Seq(1..MaxBytes)
    <2>1. buff' \in Seq(1..MaxBytes)
      BY <1>1, EmptySeq
    <2>2. got \o buff \in Seq(1..MaxBytes)
      BY <1>1, ConcatProperties
    <2> QED BY <2>1, <2>2, <1>1
  <1>3. Seen' = got'
    BY <1>1, <1>2, ConcatEmptySeq DEF Seen
  <1>4. /\ DOMAIN Seen' \subseteq DOMAIN Seen
        /\ \A i \in DOMAIN Seen' : Seen'[i] = Seen[i]
    <2>1. CASE got' = got
      <3>1. /\ Len(got) \in Nat /\ Len(buff) \in Nat /\ Len(Seen) = Len(got) + Len(buff)
            /\ DOMAIN got = 1..Len(got) /\ DOMAIN Seen = 1..Len(Seen)
            /\ \A i \in 1..(Len(got) + Len(buff)) :
                 Seen[i] = IF i <= Len(got) THEN got[i] ELSE buff[i - Len(got)]
        BY <1>1, ConcatProperties DEF Seen
      <3> QED BY <3>1, <2>1, <1>3
    <2>2. CASE got' = got \o buff
      BY <2>2, <1>3 DEF Seen
    <2> QED BY <1>1, <2>1, <2>2
  <1> QED BY <1>1, <1>2, <1>4 DEF Ascends

------------------------------------------------------------------------------
(* A write counts as an event and tells the future that waits. *)
LEMMA WriteInv ==
  ASSUME IInv, NEW n \in Chunks, Write(n)
  PROVE  IInv'
  <1> USE PipeAssumption DEF IInv
  <1>1. Ascends' /\ buff' \in Seq(1..MaxBytes)
    BY WriteAscends
  <1>2. /\ n \in Nat \ {0} /\ written' = written + n /\ written + n <= MaxBytes
        /\ telling = Never /\ posting = Never /\ exi /\ telling' = notifi
        /\ UNCHANGED <<exi, posting, notifi, last, completed, posted, workers, reader,
                       want, reads, got, crashed>>
    BY DEF Write, LockFree, engineVars, clientVars
  <1>3. TypeOK'
    <2>1. exi' \in BOOLEAN /\ crashed' \in BOOLEAN
      BY <1>2 DEF TypeOK
    <2>2. /\ got' \in Seq(1..MaxBytes) /\ written' \in 0..MaxBytes /\ reads' \in 0..MaxReads
          /\ want' \in Requests \cup {0} /\ workers' \in {1, 2}
          /\ {notifi', last', telling', posting'} \subseteq Ids \cup {Never}
          /\ completed' \subseteq Ids /\ posted' \in [Ids -> Nat] /\ reader' \in ReaderState
      BY <1>2 DEF TypeOK
    <2> QED BY <1>1, <2>1, <2>2 DEF TypeOK
  <1>4. Counted'
    <2>1. /\ last \in Nat /\ written \in Nat /\ last <= written + Ended + 1
          /\ Ended' = Ended /\ Ended \in {0, 1}
      BY <1>2 DEF Counted, TypeOK, Ended, Ids, Never
    <2>2. last' <= written' + Ended'
      BY <1>2, <2>1
    <2> QED BY <2>1, <2>2, <1>2 DEF Counted
  <1>5. NotYetMade' /\ TellsWaiter' /\ WaitsForSome' /\ OneAtATime'
    BY <1>2 DEF NotYetMade, TellsWaiter, WaitsForSome, OneAtATime, Waiting
  <1> QED BY <1>1, <1>3, <1>4, <1>5

(* So does the end of transmission. *)
LEMMA WriterGoneInv ==
  ASSUME IInv, WriterGone
  PROVE  IInv'
  <1> USE DEF IInv
  <1>1. /\ telling = Never /\ posting = Never /\ exi /\ ~exi' /\ telling' = notifi
        /\ UNCHANGED <<buff, written, posting, notifi, last, completed, posted, workers,
                       reader, want, reads, got, crashed>>
    BY DEF WriterGone, LockFree, engineVars, clientVars
  <1>2. TypeOK'
    <2>1. exi' \in BOOLEAN /\ crashed' \in BOOLEAN
      BY DEF TypeOK, WriterGone
    <2> QED BY <1>1, <2>1 DEF TypeOK
  <1>3. Counted'
    <2>1. /\ last \in Nat /\ written \in Nat /\ last <= written + Ended + 1
          /\ Ended' = 1 /\ Ended = 0
      BY <1>1 DEF Counted, TypeOK, Ended, Ids, Never
    <2>2. last' <= written' + Ended'
      BY <1>1, <2>1
    <2> QED BY <2>1, <2>2, <1>1 DEF Counted
  <1>4. Ascends'
    BY <1>1, SameBytes
  <1>5. NotYetMade' /\ TellsWaiter' /\ WaitsForSome' /\ OneAtATime'
    BY <1>1 DEF NotYetMade, TellsWaiter, WaitsForSome, OneAtATime, Waiting
  <1> QED BY <1>2, <1>3, <1>4, <1>5

(* What is told stays told on its way to the engine. *)
LEMMA TellInv ==
  ASSUME IInv, Complete \/ Post
  PROVE  IInv'
  <1> USE DEF IInv
  <1>1. UNCHANGED <<buff, written, exi, notifi, last, workers, reader, want, reads, got,
                    crashed>>
    BY DEF Complete, Post, clientVars
  <1>2. Ascends' /\ WaitsForSome' /\ OneAtATime'
    <2>1. OneAtATime'
      BY DEF Complete, Post, OneAtATime
    <2> QED BY <2>1, <1>1, SameBytes DEF WaitsForSome, Waiting
  <1>3. CASE Complete
    <2>1. /\ telling \in Ids /\ completed' = completed \cup {telling}
          /\ telling' = Never /\ posting' = telling /\ posted' = posted
      BY <1>3 DEF Complete, TypeOK
    <2>2. TypeOK'
      BY <1>1, <2>1 DEF TypeOK
    <2>3. Told' => Told
      BY <1>1, <2>1 DEF Told, WaitsForSome, Waiting, ReaderState, Ids, Never, TypeOK,
                        OneAtATime
    <2>4. Counted'
      BY <1>1, <2>3 DEF Counted, Ended
    <2>5. NotYetMade' /\ TellsWaiter'
      BY <1>1, <2>1, <1>3 DEF NotYetMade, TellsWaiter, Waiting, TypeOK, Ids, Never,
                         Complete, OneAtATime
    <2> QED BY <1>2, <2>2, <2>4, <2>5
  <1>4. CASE Post
    <2>1. /\ posting \in Ids /\ posted' = [posted EXCEPT ![posting] = @ + 1]
          /\ posting' = Never /\ UNCHANGED <<telling, completed>>
      BY <1>4 DEF Post, TypeOK
    <2>2. TypeOK'
      BY <1>1, <2>1 DEF TypeOK
    <2>3. Told' => Told
      BY <1>1, <2>1 DEF Told, WaitsForSome, Waiting, ReaderState, Ids, Never, TypeOK,
                        OneAtATime
    <2>4. Counted'
      BY <1>1, <2>3 DEF Counted, Ended
    <2>5. NotYetMade' /\ TellsWaiter'
      BY <1>1, <2>1 DEF NotYetMade, TellsWaiter, Waiting, TypeOK, Ids, Never
    <2> QED BY <1>2, <2>2, <2>4, <2>5
  <1> QED BY <1>3, <1>4

------------------------------------------------------------------------------
(* The steps of the reader that make no future. *)
LEMMA ReadInv ==
  ASSUME IInv, NEW b \in Requests, Read(b)
  PROVE  IInv'
  <1> USE PipeAssumption DEF IInv
  <1>1. /\ reader = "idle" /\ reader' = "reset" /\ reads' = reads + 1 /\ want' = b
        /\ reads < MaxReads
        /\ UNCHANGED <<buff, written, exi, telling, posting, notifi, last, completed, posted,
                       workers, got, crashed>>
    BY DEF Read, writerVars, engineVars
  <1>2. TypeOK'
    BY <1>1 DEF TypeOK, ReaderState
  <1>3. Ascends'
    BY <1>1, SameBytes
  <1>4. Counted' /\ NotYetMade' /\ TellsWaiter' /\ WaitsForSome' /\ OneAtATime'
    BY <1>1 DEF Counted, Told, Ended, NotYetMade, TellsWaiter, WaitsForSome, OneAtATime, Waiting
  <1> QED BY <1>2, <1>3, <1>4

(* The reader lets go of its future. *)
LEMMA LetGoInv ==
  ASSUME IInv, Reset \/ ReaderGone
  PROVE  IInv'
  <1> USE DEF IInv
  <1>1. /\ notifi' = Never /\ reader \in {"idle", "reset"} /\ reader' \in {"move", "gone"}
        /\ UNCHANGED <<buff, written, exi, telling, posting, last, completed, posted, workers,
                       want, reads, got>>
    BY DEF Reset, ReaderGone, ReaderMoves, writerVars, clientVars
  <1>2. TypeOK'
    <2>1. crashed' \in BOOLEAN /\ exi' \in BOOLEAN
      BY <1>1 DEF TypeOK, Reset, ReaderGone
    <2> QED BY <1>1, <2>1 DEF TypeOK, ReaderState
  <1>3. Ascends'
    BY <1>1, SameBytes
  <1>4. Counted' /\ NotYetMade' /\ TellsWaiter' /\ WaitsForSome' /\ OneAtATime'
    BY <1>1 DEF Counted, Told, Ended, NotYetMade, TellsWaiter, WaitsForSome, OneAtATime, Waiting,
                TypeOK, Ids, Never
  <1> QED BY <1>2, <1>3, <1>4

(* The reader empties the buffer, and returns or makes a future. *)
LEMMA MoveInv ==
  ASSUME IInv, Move
  PROVE  IInv'
  <1> USE PipeAssumption DEF IInv
  <1>1. Ascends' /\ buff' \in Seq(1..MaxBytes) /\ got' \in Seq(1..MaxBytes)
    BY MoveAscends
  <1>2. /\ reader = "move" /\ telling = Never /\ posting = Never /\ buff' = <<>>
        /\ UNCHANGED <<written, exi, telling, posting, completed, posted, workers, want, reads,
                       crashed>>
    BY DEF Move, Returns, Awaits, LockFree, ReaderMoves, writerVars, clientVars
  <1>3. /\ last \in Nat /\ written \in 0..MaxBytes /\ last <= written + Ended
        /\ Ended' = Ended /\ Ended \in {0, 1}
    BY <1>2 DEF Counted, Told, TypeOK, Ended, Ids, Never
  <1>4. CASE Enough
    <2>1. reader' = "idle" /\ UNCHANGED <<notifi, last>>
      BY <1>4 DEF Move, Returns, ReaderMoves
    <2>2. TypeOK'
      BY <1>1, <1>2, <2>1 DEF TypeOK, ReaderState
    <2>3. Counted'
      BY <1>2, <1>3, <2>1 DEF Counted
    <2>4. NotYetMade' /\ TellsWaiter' /\ WaitsForSome' /\ OneAtATime'
      BY <1>2, <2>1 DEF NotYetMade, TellsWaiter, WaitsForSome, OneAtATime, Waiting
    <2> QED BY <1>1, <2>2, <2>3, <2>4
  <1>5. CASE ~Enough
    <2>1. /\ exi /\ reader' = "check" /\ last' = last + 1 /\ notifi' = last'
      BY <1>5 DEF Move, Awaits, ReaderMoves, Enough
    <2>2. last' \in Ids
      BY <1>3, <2>1 DEF Ids
    <2>3. TypeOK'
      BY <1>1, <1>2, <2>1, <2>2 DEF TypeOK, ReaderState
    <2>4. last' \notin completed' /\ posted'[last'] = 0 /\ last' # Never
      BY <1>2, <1>3, <2>1, <2>2 DEF NotYetMade, Never
    <2>5. Counted'
      BY <1>2, <1>3, <2>1, <2>4 DEF Counted, Told
    <2>6. NotYetMade'
      BY <1>2, <1>3, <2>1 DEF NotYetMade, Ids, Never
    <2>7. TellsWaiter' /\ WaitsForSome' /\ OneAtATime'
      BY <1>2, <2>1, <2>4 DEF TellsWaiter, WaitsForSome, OneAtATime
    <2> QED BY <1>1, <2>3, <2>5, <2>6, <2>7
  <1> QED BY <1>4, <1>5

(* Looking at the future, and parking under it. *)
LEMMA ParkInv ==
  ASSUME IInv, Check \/ Add
  PROVE  IInv'
  <1> USE DEF IInv
  <1>1. /\ \/ reader = "check" /\ reader' = "reset" /\ last \in completed
           \/ Waiting /\ reader' \in {"add", "parked"}
        /\ UNCHANGED <<buff, written, exi, telling, posting, notifi, last, completed, posted,
                       workers, want, reads, got, crashed>>
    BY DEF Check, Add, ReaderMoves, writerVars, clientVars, Waiting
  <1>2. TypeOK'
    BY <1>1 DEF TypeOK, ReaderState
  <1>3. Ascends'
    BY <1>1, SameBytes
  <1>4. Counted' /\ NotYetMade' /\ TellsWaiter' /\ WaitsForSome' /\ OneAtATime'
    BY <1>1 DEF Counted, Told, Ended, NotYetMade, TellsWaiter, WaitsForSome, OneAtATime, Waiting
  <1> QED BY <1>2, <1>3, <1>4

(* A worker takes a notification: with one worker the reader is parked, or *)
(* not waiting at all.                                                     *)
LEMMA DropInv ==
  ASSUME IInv, NEW n \in Ids, Drop(n)
  PROVE  IInv'
  <1> USE DEF IInv
  <1>1. /\ posted \in [Ids -> Nat] /\ posted[n] > 0
        /\ posted' = [posted EXCEPT ![n] = @ - 1]
        /\ workers > 1 \/ reader \in {"idle", "parked", "gone"}
        /\ \/ reader = "parked" /\ n = last /\ reader' = "reset"
           \/ (reader # "parked" \/ n # last) /\ reader' = reader
        /\ UNCHANGED <<buff, written, exi, telling, posting, notifi, last, completed,
                       workers, want, reads, got, crashed>>
    BY DEF Drop, ReaderMoves, writerVars, clientVars, TypeOK
  <1>2. TypeOK'
    BY <1>1 DEF TypeOK, ReaderState
  <1>3. Ascends'
    BY <1>1, SameBytes
  <1>4. Told' => Told
    BY <1>1 DEF Told
  <1>5. Counted' /\ NotYetMade' /\ WaitsForSome' /\ OneAtATime'
    BY <1>1, <1>4 DEF Counted, Ended, NotYetMade, WaitsForSome, OneAtATime, Waiting
  <1>6. TellsWaiter'
    BY <1>1 DEF TellsWaiter, Waiting
  <1> QED BY <1>2, <1>3, <1>5, <1>6

------------------------------------------------------------------------------
(* Every step keeps the invariant. *)
LEMMA StepInv == IInv /\ [Next]_vars => IInv'
  <1> SUFFICES ASSUME IInv, [Next]_vars PROVE IInv'
    OBVIOUS
  <1>1. CASE \E n \in Chunks : Write(n)
    BY <1>1, WriteInv
  <1>2. CASE \E b \in Requests : Read(b)
    BY <1>2, ReadInv
  <1>3. CASE Engine
    BY <1>3, DropInv DEF Engine
  <1>4. CASE UNCHANGED vars
    BY <1>4 DEF vars, writerVars, engineVars, clientVars, IInv, TypeOK, Ascends, Seen, Counted,
                Told, Ended, NotYetMade, TellsWaiter, WaitsForSome, OneAtATime, Waiting
  <1> QED BY <1>1, <1>2, <1>3, <1>4, WriterGoneInv, TellInv, LetGoInv, MoveInv, ParkInv
             DEF Next, ReaderStep

(* The inductive invariant of the pipe. *)
THEOREM PipeInvariance == Spec => []IInv
  BY InitInv, StepInv, PTL DEF Spec

(* Every variable keeps its type: a reader makes at most one future more   *)
(* than there are writes and the end of transmission to complete them.     *)
THEOREM PipeTypeCorrect == Spec => []TypeOK
  BY PipeInvariance, PTL DEF IInv

(* No byte is read twice or out of order, by however many reads.           *)
THEOREM BytesOnceInOrder == Spec => []OnceInOrder
  <1>1. IInv => OnceInOrder
    BY DEF IInv, Ascends, Seen, OnceInOrder
  <1> QED BY <1>1, PipeInvariance, PTL

(* With one worker, a parked reader is told of what is there to be read.   *)
THEOREM ParkedReaderTold == Spec => []ParkedIsTold
  <1>1. IInv => ParkedIsTold
    BY DEF IInv, TellsWaiter, Waiting, ParkedIsTold
  <1> QED BY <1>1, PipeInvariance, PTL
==============================================================================
