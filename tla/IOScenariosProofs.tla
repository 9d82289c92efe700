------------------------- MODULE IOScenariosProofs --------------------------
(***************************************************************************)
(* The IO engine, for any number of calls, connections, cancellations,     *)
(* signals and bytes.  There is a ticket for every resource that is in     *)
(* use, so that wioe() does not stop the IO thread before all are gone;    *)
(* what the IO thread, the clients and the generators tell one another     *)
(* through engif is what happened, and is all taken when an operation      *)
(* ends; what was received is what was sent, in its order, each reply is   *)
(* what was asked for, and what is written is what the writer was given.   *)
(***************************************************************************)
EXTENDS IOScenarios, SequenceTheorems, WellFoundedInduction, TLAPS

One(b) == IF b THEN 1 ELSE 0

(* A listener, a connection or a file has one, and so has every stream     *)
(* that was made of a socket.                                              *)
TicketsCounted ==
  /\ accepted \in Nat /\ live \in BOOLEAN /\ stream \in BOOLEAN
  /\ tickets = One(live) + accepted + One(stream)

WioeFollows == wioe # "waits" => tickets = 0

(* A listener's generator runs only while the listener has its ticket ...  *)
ListenerLives == scenario = "listener" /\ phase \notin {"none", "returned"} => live

(* ... and connest() is on its way only before its outcome.                *)
ConnectionLives ==
  scenario = "connection" =>
    /\ outcome = {} => live /\ ~stream
    /\ phase \notin {"none", "returned"} => outcome = {} /\ link \notin {"none", "fresh"}
    /\ link \in {"none", "fresh"} => outcome = {}

TicketInv == TicketsCounted /\ WioeFollows /\ ListenerLives /\ ConnectionLives

(* What TicketInv speaks of.                                               *)
ticketVars == <<scenario, live, tickets, wioe, accepted, stream, outcome, link>>

------------------------------------------------------------------------------
(* What One makes of its argument. *)
LEMMA OneOf == /\ One(TRUE) = 1 /\ One(FALSE) = 0
               /\ \A b \in BOOLEAN : One(b) \in {0, 1}
  BY DEF One

(* The resource has its ticket at first, and nothing else has one.         *)
LEMMA InitTickets == Init => TicketInv
  <1> SUFFICES ASSUME Init PROVE TicketInv
    OBVIOUS
  <1>1. live /\ live = TRUE /\ tickets = 1 /\ wioe = "waits" /\ phase = "none"
    BY DEF Init, IOInit
  <1>2. accepted = 0 /\ stream = FALSE /\ ~stream
    BY DEF Init, ListenInit, ConnectInit
  <1>3. outcome = {}
    BY DEF Init, ConnectInit
  <1>4. TicketsCounted
    <2>1. One(live) = 1 /\ One(stream) = 0
      BY <1>1, <1>2, OneOf
    <2>2. tickets = One(live) + accepted + One(stream)
      BY <2>1, <1>1, <1>2
    <2>3. live \in BOOLEAN /\ stream \in BOOLEAN
      BY <1>1, <1>2
    <2> QED
      BY <2>2, <2>3, <1>2 DEF TicketsCounted
  <1>5. WioeFollows /\ ListenerLives
    BY <1>1 DEF WioeFollows, ListenerLives
  <1>6. ConnectionLives
    <2>1. live /\ ~stream
      BY <1>1, <1>2
    <2>2. ~(phase \notin {"none", "returned"})
      BY <1>1
    <2> QED
      BY <2>1, <2>2, <1>3 DEF ConnectionLives
  <1> QED
    BY <1>4, <1>5, <1>6 DEF TicketInv

(* A step that takes or releases no ticket and lets no generator start.    *)
LEMMA QuietStep ==
  ASSUME TicketInv, UNCHANGED ticketVars,
         phase' \notin {"none", "returned"} =>
           phase \notin {"none", "returned"} \/ scenario \in {"reader", "writer"}
  PROVE  TicketInv'
  BY DEF TicketInv, TicketsCounted, WioeFollows, ListenerLives, ConnectionLives, One, ticketVars

(* A resource that has its ticket closes.                                  *)
LEMMA CloseStep ==
  ASSUME TicketInv, live, live' = FALSE, Release(1), UNCHANGED <<scenario, accepted, stream>>,
         phase' \in {"none", "returned"} \/ scenario \in {"reader", "writer"},
         scenario = "connection" => outcome' # {} /\ link' \notin {"none", "fresh"}
  PROVE  TicketInv'
  <1>1. live = TRUE /\ live' = FALSE /\ tickets' = tickets - 1
    BY DEF Release, TicketInv, TicketsCounted
  <1>2. One(live) = 1 /\ One(live') = 0 /\ One(stream) \in {0, 1}
    BY <1>1, OneOf DEF TicketInv, TicketsCounted
  <1>3. tickets = 1 + accepted + One(stream) /\ accepted \in Nat
    BY <1>2 DEF TicketInv, TicketsCounted
  <1>4. tickets # 0 /\ tickets' = 0 + accepted + One(stream)
    BY <1>1, <1>2, <1>3
  <1>5. TicketsCounted'
    BY <1>1, <1>2, <1>4 DEF TicketInv, TicketsCounted
  <1>6. WioeFollows'
    BY <1>1, <1>4 DEF Release, TicketInv, WioeFollows
  <1>7. ListenerLives' /\ ConnectionLives'
    BY <1>1 DEF ListenerLives, ConnectionLives
  <1> QED
    BY <1>5, <1>6, <1>7 DEF TicketInv

(* engif is told and the engine notified, by the IO thread or the client.  *)
LEMMA NotifyQuiet ==
  ASSUME NEW t, Notify(t) PROVE UNCHANGED <<live, tickets, wioe, phase>>
  BY DEF Notify, SetResult, SetCompleted, Post, lifeVars

LEMMA EventQuiet ==
  ASSUME NEW ready, NEW e, EpollWait(ready, e) PROVE UNCHANGED <<live, tickets, wioe, phase>>
  BY DEF EpollWait, NotifyCall, lifeVars

LEMMA ClientQuiet ==
  ASSUME NEW e, ClientNotifies(e) PROVE UNCHANGED <<live, tickets, wioe, phase>>
  BY DEF ClientNotifies, NotifyCall

LEMMA EngineQuiet ==
  ASSUME EngineStep PROVE
    /\ UNCHANGED <<live, tickets, wioe>>
    /\ phase' \notin {"none", "returned"} => phase \notin {"none", "returned"}
  BY DEF EngineStep, Check, Drop, Goes, lifeVars
------------------------------------------------------------------------------
(* The files: only their end touches the tickets.                          *)
LEMMA FileGoneStep ==
  ASSUME TicketInv, FileGone, IsFile, UNCHANGED <<scenario, accepted, stream, outcome, link>>
  PROVE  TicketInv'
  BY CloseStep DEF FileGone, Close, IsFile

LEMMA FileStepsQuiet ==
  ASSUME FileStep \/ FileEvent \/ FileNotify \/ FileCancel \/ FilePeer
  PROVE  UNCHANGED <<live, tickets, wioe>>
  <1>1. CASE FileEvent
    BY <1>1, EventQuiet DEF FileEvent
  <1>2. CASE FileNotify
    BY <1>2, NotifyQuiet DEF FileNotify
  <1>3. CASE FileCancel
    BY <1>3, ClientQuiet DEF FileCancel
  <1>4. CASE FilePeer
    BY <1>4 DEF FilePeer, PeerSends, PeerCloses, PeerReads, ioVars, lifeVars
  <1>5. CASE FileStep
    <2>1. CASE EngineStep
      BY <2>1, EngineQuiet
    <2>2. CASE FileGenerator
      <3> USE DEF Goes, Arm, Return, Running, lifeVars
      <3>1. CASE WriteNothing \/ lazyEpollReg \/ TakeUp
        BY <3>1 DEF WriteNothing, lazyEpollReg, TakeUp
      <3>2. CASE Await \/ Switch
        BY <3>2 DEF Await, Switch, epollRearm
      <3>3. CASE ReadSome \/ ReadNone
        BY <3>3 DEF ReadSome, ReadNone, epollRearm
      <3>4. CASE WriteSome \/ WriteNone
        BY <3>4 DEF WriteSome, WriteNone, epollRearm
      <3> QED
        BY <2>2, <3>1, <3>2, <3>3, <3>4 DEF FileGenerator
    <2> QED
      BY <1>5, <2>1, <2>2 DEF FileStep
  <1> QED
    BY <1>1, <1>2, <1>3, <1>4, <1>5

LEMMA BufferQuiet ==
  ASSUME Mapped \/ \E q \in Requests : Call(q)
  PROVE  UNCHANGED <<live, tickets, wioe>>
  <1>1. CASE Mapped
    BY <1>1 DEF Mapped, Settled, Failed, Written, ReadAll, ReadUpTo, Peeked, ReadUntilEnd,
       ReadUntilMet, ReadUntilMore, lifeVars
  <1>2. CASE \E q \in Requests : Call(q)
    BY <1>2 DEF Call, CallBuffered, CallRead, CallWrite, Launch, ioVars, lifeVars
  <1> QED
    BY <1>1, <1>2

LEMMA WriterQuiet ==
  ASSUME WriterClient \/ WriterEngine
  PROVE  UNCHANGED <<live, tickets, wioe>>
  BY DEF WriterClient, WriterWrite, Flush, WriterGone, LaunchFlush, WriterEngine, FlushStarts,
     FlushFails, FlushEnds, EodCompleted, Launch, ioVars, lifeVars

------------------------------------------------------------------------------
(* The resource that is used is counted, and wioe() waits for it.          *)
LEMMA LiveWaits == ASSUME TicketInv, live PROVE tickets # 0 /\ wioe = "waits"
  <1>1. live = TRUE
    BY DEF TicketInv, TicketsCounted
  <1>2. One(live) = 1 /\ One(stream) \in {0, 1}
    BY <1>1, OneOf DEF TicketInv, TicketsCounted
  <1>3. tickets = 1 + accepted + One(stream) /\ accepted \in Nat
    BY <1>2 DEF TicketInv, TicketsCounted
  <1>4. tickets # 0
    BY <1>2, <1>3
  <1> QED
    BY <1>4 DEF TicketInv, WioeFollows

(* A connection is accepted: it has a ticket of its own.                   *)
LEMMA AcceptStep ==
  ASSUME TicketInv, scenario = "listener", Accept, UNCHANGED <<scenario, connectVars>>
  PROVE  TicketInv'
  <1>1. live
    BY DEF Accept, TicketInv, ListenerLives
  <1>2. /\ tickets' = tickets + 1 /\ wioe' = wioe /\ accepted' = accepted + 1
        /\ UNCHANGED <<live, phase, scenario, stream>>
    BY DEF Accept, Ticket, connectVars
  <1>3. One(live) \in {0, 1} /\ One(stream) \in {0, 1}
    BY OneOf DEF TicketInv, TicketsCounted
  <1>4. TicketsCounted'
    <2>1. One(live') = One(live) /\ One(stream') = One(stream)
      BY <1>2
    <2> QED
      BY <2>1, <1>2, <1>3 DEF TicketInv, TicketsCounted
  <1>5. WioeFollows' /\ ListenerLives' /\ ConnectionLives'
    BY <1>1, <1>2, LiveWaits DEF WioeFollows, ListenerLives, ConnectionLives
  <1> QED
    BY <1>4, <1>5 DEF TicketInv

(* It is let go with its ticket.                                           *)
LEMMA ConnectionGoneStep ==
  ASSUME TicketInv, scenario = "listener", ConnectionGone, UNCHANGED <<scenario, connectVars>>
  PROVE  TicketInv'
  <1>1. /\ accepted' = accepted - 1 /\ accepted > 0 /\ tickets' = tickets - 1
        /\ UNCHANGED <<live, phase, scenario, stream>>
    BY DEF ConnectionGone, Release, connectVars
  <1>2. One(live) \in {0, 1} /\ One(stream) \in {0, 1}
    BY OneOf DEF TicketInv, TicketsCounted
  <1>3. One(live') = One(live) /\ One(stream') = One(stream)
    BY <1>1
  <1>4. TicketsCounted'
    BY <1>1, <1>2, <1>3 DEF TicketInv, TicketsCounted
  <1>5. tickets # 0
    BY <1>1, <1>2 DEF TicketInv, TicketsCounted
  <1>6. WioeFollows'
    BY <1>5 DEF ConnectionGone, Release, TicketInv, WioeFollows
  <1>7. ListenerLives' /\ ConnectionLives'
    BY <1>1 DEF TicketInv, ListenerLives, ConnectionLives
  <1> QED
    BY <1>4, <1>6, <1>7 DEF TicketInv

(* The listener closes.                                                    *)
LEMMA StahpStep ==
  ASSUME TicketInv, scenario = "listener", live, Stahp,
         UNCHANGED <<scenario, accepted, connectVars>>
  PROVE  TicketInv'
  <1>1. Close /\ phase' = "returned" /\ UNCHANGED stream
    BY DEF Stahp, connectVars
  <1> QED
    BY <1>1, CloseStep DEF Close

LEMMA ListenerStep ==
  ASSUME TicketInv, scenario = "listener", UNCHANGED <<scenario, connectVars>>,
         \/ Listen \/ ConnectionArrives \/ ConnectionGone \/ Shutdown
         \/ ListenStep \/ ListenEvent \/ ListenNotify
  PROVE  TicketInv'
  <1>0. UNCHANGED <<scenario, stream, outcome, link>>
    BY DEF connectVars
  <1>1. CASE Listen
    BY <1>1, <1>0 DEF Listen, lifeVars, listenVars, TicketInv, TicketsCounted, WioeFollows,
       ListenerLives, ConnectionLives, One
  <1>2. CASE ConnectionArrives
    BY <1>2, <1>0, QuietStep DEF ConnectionArrives, ioVars, lifeVars, ticketVars
  <1>3. CASE ConnectionGone
    BY <1>3, ConnectionGoneStep
  <1>4. CASE Shutdown
    BY <1>4, <1>0, ClientQuiet, QuietStep DEF Shutdown, listenVars, ticketVars
  <1>5. CASE ListenNotify
    BY <1>5, <1>0, NotifyQuiet, QuietStep DEF ListenNotify, listenVars, ticketVars
  <1>6. CASE ListenEvent
    BY <1>6, <1>0, EventQuiet, QuietStep DEF ListenEvent, listenVars, ticketVars
  <1>7. CASE ListenStep
    <2>1. CASE ListenTakesUp \/ ListenAwaits \/ AcceptBlocks
      BY <2>1, <1>0, QuietStep DEF ListenTakesUp, ListenAwaits, AcceptBlocks, Running, Arm, Goes,
         lifeVars, listenVars, ticketVars
    <2>2. CASE ListenSwitch
      <3>1. live /\ UNCHANGED accepted
        BY <2>2 DEF ListenSwitch, listenVars, TicketInv, ListenerLives
      <3>2. CASE Stahp
        BY <3>1, <3>2, StahpStep
      <3>3. CASE Goes("loop") \/ Arm("IN")
        BY <2>2, <3>1, <3>3, <1>0, QuietStep DEF ListenSwitch, Goes, Arm, lifeVars, ticketVars
      <3> QED
        BY <2>2, <3>2, <3>3 DEF ListenSwitch
    <2>3. CASE Accept
      BY <2>3, AcceptStep
    <2>4. CASE AcceptFails
      <3>1. live /\ UNCHANGED accepted
        BY <2>4 DEF AcceptFails, TicketInv, ListenerLives
      <3>2. CASE Stahp
        BY <3>1, <3>2, StahpStep
      <3>3. CASE Goes("loop")
        BY <2>4, <3>1, <3>3, <1>0, QuietStep DEF AcceptFails, Goes, lifeVars, ticketVars
      <3> QED
        BY <2>4, <3>2, <3>3 DEF AcceptFails
    <2>5. CASE EngineStep /\ UNCHANGED listenVars
      BY <2>5, <1>0, EngineQuiet, QuietStep DEF listenVars, ticketVars
    <2> QED
      BY <1>7, <2>1, <2>2, <2>3, <2>4, <2>5 DEF ListenStep
  <1> QED
    BY <1>1, <1>2, <1>3, <1>4, <1>5, <1>6, <1>7

------------------------------------------------------------------------------
(* connest() yields a stream, which has a ticket of its own, or none.      *)
LEMMA ConnectedStep ==
  ASSUME TicketInv, scenario = "connection", Connected, UNCHANGED <<scenario, accepted>>
  PROVE  TicketInv'
  <1>1. /\ live = TRUE /\ stream = FALSE /\ link \notin {"none", "fresh"}
        /\ UNCHANGED <<live, link>> /\ phase' = "returned"
    BY DEF Connected, TicketInv, TicketsCounted, ConnectionLives
  <1>2. ListenerLives' /\ ConnectionLives'
    BY <1>1 DEF Connected, ListenerLives, ConnectionLives
  <1>3. stream' \in BOOLEAN
    BY DEF Connected
  <1>4. One(live) = 1 /\ One(live') = 1 /\ One(stream) = 0
    BY <1>1, OneOf
  <1>5. accepted \in Nat /\ accepted' = accepted /\ tickets = 1 + accepted
    BY <1>4 DEF TicketInv, TicketsCounted
  <1>6. wioe = "waits" /\ wioe' = wioe
    BY <1>1, LiveWaits DEF Connected, Ticket
  <1>7. CASE stream' = TRUE
    <2>1. tickets' = tickets + 1 /\ One(stream') = 1
      BY <1>7, OneOf DEF Connected, Ticket
    <2> QED
      BY <2>1, <1>1, <1>2, <1>3, <1>4, <1>5, <1>6 DEF TicketInv, TicketsCounted, WioeFollows
  <1>8. CASE stream' = FALSE
    <2>1. tickets' = tickets /\ One(stream') = 0
      BY <1>8, OneOf DEF Connected
    <2> QED
      BY <2>1, <1>1, <1>2, <1>3, <1>4, <1>5, <1>6 DEF TicketInv, TicketsCounted, WioeFollows
  <1> QED
    BY <1>3, <1>7, <1>8

(* The stream is let go with its ticket.                                   *)
LEMMA StreamGoneStep ==
  ASSUME TicketInv, scenario = "connection", StreamGone, UNCHANGED <<scenario, accepted>>
  PROVE  TicketInv'
  <1>1. /\ stream = TRUE /\ stream' = FALSE /\ tickets' = tickets - 1
        /\ UNCHANGED <<live, link, outcome, phase, accepted, scenario>>
    BY DEF StreamGone, Release, TicketInv, TicketsCounted
  <1>2. One(stream) = 1 /\ One(stream') = 0 /\ One(live) \in {0, 1} /\ One(live') = One(live)
    BY <1>1, OneOf DEF TicketInv, TicketsCounted
  <1>3. /\ tickets = One(live) + accepted + 1 /\ accepted \in Nat
        /\ live \in BOOLEAN /\ stream' \in BOOLEAN
    BY <1>1, <1>2 DEF TicketInv, TicketsCounted
  <1>4. TicketsCounted'
    BY <1>1, <1>2, <1>3 DEF TicketsCounted
  <1>5. tickets # 0
    BY <1>2, <1>3
  <1>6. WioeFollows'
    BY <1>5 DEF StreamGone, Release, TicketInv, WioeFollows
  <1>7. ListenerLives' /\ ConnectionLives'
    BY <1>1 DEF TicketInv, ListenerLives, ConnectionLives
  <1> QED
    BY <1>4, <1>6, <1>7 DEF TicketInv

(* netConnectTo(): it ends with the ticket if there is nothing to try.     *)
LEMMA ConnectToStep ==
  ASSUME TicketInv, scenario = "connection", netConnectTo, UNCHANGED <<scenario, accepted>>
  PROVE  TicketInv'
  <1>1. /\ live /\ phase \in {"none", "returned"} /\ UNCHANGED <<stream, phase>>
        /\ outcome = {} /\ ~stream
    BY DEF netConnectTo, Register, ConnectCandidates, TicketInv, ConnectionLives
  <1>2. CASE Close
    <2>1. outcome' # {} /\ link' \notin {"none", "fresh"}
      BY <1>1, <1>2 DEF netConnectTo, Register, ConnectCandidates, Close, lifeVars
    <2> QED
      BY <1>1, <1>2, <2>1, CloseStep DEF Close
  <1>3. CASE ~Close
    <2>1. UNCHANGED <<live, tickets, wioe, outcome>>
      BY <1>3 DEF netConnectTo, Register, ConnectCandidates, lifeVars
    <2> QED
      BY <2>1, <1>1 DEF TicketInv, TicketsCounted, WioeFollows, ListenerLives, ConnectionLives,
         One
  <1> QED
    BY <1>2, <1>3

LEMMA ConnectionStep ==
  ASSUME TicketInv, scenario = "connection", UNCHANGED <<scenario, listenVars>>,
         ConnectClient \/ LinkSettles \/ ConnectStep \/ ConnectEvent \/ ConnectNotify
  PROVE  TicketInv'
  <1>0. UNCHANGED <<scenario, accepted>>
    BY DEF listenVars
  <1>1. CASE netConnectTo
    BY <1>1, <1>0, ConnectToStep
  <1>2. CASE connest \/ LinkSettles
    <2>1. /\ UNCHANGED <<live, tickets, wioe, stream, outcome>> /\ link' \notin {"none", "fresh"}
          /\ phase' \notin {"none", "returned"} => outcome = {} \/ phase' = phase
      BY <1>2 DEF connest, LinkSettles, connectVars, ioVars, lifeVars
    <2> QED
      BY <2>1, <1>0 DEF TicketInv, TicketsCounted, WioeFollows, ListenerLives, ConnectionLives,
         One
  <1>3. CASE ConnectCancel
    BY <1>3, <1>0, ClientQuiet, QuietStep DEF ConnectCancel, connectVars, ticketVars
  <1>4. CASE ConnectNotify
    BY <1>4, <1>0, NotifyQuiet, QuietStep DEF ConnectNotify, connectVars, ticketVars
  <1>5. CASE ConnectEvent
    BY <1>5, <1>0, EventQuiet, QuietStep DEF ConnectEvent, ticketVars
  <1>6. CASE StreamRearms
    BY <1>6, <1>0, QuietStep DEF StreamRearms, lifeVars, connectVars, ticketVars
  <1>7. CASE StreamGone
    BY <1>7, <1>0, StreamGoneStep
  <1>8. CASE SocketGone
    <2>1. /\ live /\ live' = FALSE /\ Release(1) /\ UNCHANGED <<stream, outcome, link, phase>>
          /\ outcome # {} /\ phase \in {"none", "parked", "returned"}
      BY <1>8 DEF SocketGone, WorkerFree, connectVars
    <2>2. phase \in {"none", "returned"} /\ link \notin {"none", "fresh"}
      BY <2>1 DEF TicketInv, ConnectionLives
    <2> QED
      BY <2>1, <2>2, <1>0, CloseStep
  <1>9. CASE Connected
    BY <1>9, <1>0, ConnectedStep
  <1>10. CASE EngineStep /\ UNCHANGED connectVars
    BY <1>10, <1>0, EngineQuiet, QuietStep DEF connectVars, ticketVars
  <1> QED
    BY <1>1, <1>2, <1>3, <1>4, <1>5, <1>6, <1>7, <1>8, <1>9, <1>10 DEF ConnectClient, ConnectStep

------------------------------------------------------------------------------
LEMMA FilesStep ==
  ASSUME TicketInv, IsFile, UNCHANGED <<scenario, listenVars, connectVars>>,
         (ReaderClient /\ Reader) \/ (WriterScenario /\ Writing)
           \/ Mapped \/ WriterEngine \/ FileStep \/ FileEvent \/ FileNotify
  PROVE  TicketInv'
  <1>1. CASE FileGone
    BY <1>1, FileGoneStep DEF listenVars, connectVars
  <1>2. CASE UNCHANGED <<live, tickets, wioe>>
    BY <1>2, QuietStep DEF IsFile, ticketVars, listenVars, connectVars
  <1>3. UNCHANGED <<live, tickets, wioe>> \/ FileGone
    <2>1. FilePeer \/ FileCancel \/ PeerReads => UNCHANGED <<live, tickets, wioe>>
      BY FileStepsQuiet DEF FilePeer
    <2>2. CASE ReaderClient
      BY <2>2, <2>1, BufferQuiet DEF ReaderClient
    <2>3. CASE WriterScenario
      BY <2>3, <2>1, WriterQuiet DEF WriterScenario
    <2> QED
      BY <2>2, <2>3, FileStepsQuiet, BufferQuiet, WriterQuiet
  <1> QED
    BY <1>1, <1>2, <1>3

(* wioe() returns only when it was woken.                                  *)
LEMMA IOThreadEndsStep ==
  ASSUME TicketInv, IOThreadEnds,
         UNCHANGED <<scenario, listenVars, connectVars>>
  PROVE  TicketInv'
  BY DEF IOThreadEnds, TicketInv, TicketsCounted, WioeFollows, ListenerLives, ConnectionLives,
     One,
     listenVars, connectVars

(* CtrlC has nothing to do with them.                                      *)
LEMMA StillStep ==
  ASSUME TicketInv, UNCHANGED <<scenario, ioVars, resourceVars>>
  PROVE  TicketInv'
  BY QuietStep DEF ticketVars, ioVars, lifeVars, resourceVars, listenVars, connectVars

LEMMA TicketInvSteps == TicketInv /\ [Next]_vars => TicketInv'
  <1> SUFFICES ASSUME TicketInv, [Next]_vars PROVE TicketInv'
    OBVIOUS
  <1>1. ASSUME Reader \/ Writing
        PROVE  IsFile /\ UNCHANGED <<scenario, listenVars, connectVars>>
    BY <1>1 DEF Reader, Writing, IsFile
  <1>2. CASE Client
    <2>1. CASE (Reader /\ ReaderClient) \/ (Writing /\ WriterScenario)
      BY <2>1, <1>1, FilesStep
    <2>2. CASE Listener /\ (Listen \/ ConnectionArrives \/ ConnectionGone \/ Shutdown)
      BY <2>2, ListenerStep DEF Listener
    <2>3. CASE Connection /\ (ConnectClient \/ LinkSettles)
      BY <2>3, ConnectionStep DEF Connection
    <2>4. CASE Interrupt
      BY <2>4, StillStep DEF Interrupt
    <2> QED
      BY <1>2, <2>1, <2>2, <2>3, <2>4 DEF Client
  <1>3. CASE WorkerStep
    <2>1. CASE (Reader /\ (Mapped \/ FileStep)) \/ (Writing /\ (WriterEngine \/ FileStep))
      BY <2>1, <1>1, FilesStep
    <2>2. CASE Listener /\ ListenStep
      BY <2>2, ListenerStep DEF Listener
    <2>3. CASE Connection /\ ConnectStep
      BY <2>3, ConnectionStep DEF Connection
    <2> QED
      BY <1>3, <2>1, <2>2, <2>3 DEF WorkerStep
  <1>4. CASE IOStep
    <2>1. CASE (Reader \/ Writing) /\ (FileEvent \/ FileNotify)
      BY <2>1, <1>1, FilesStep
    <2>2. CASE Listener /\ (ListenEvent \/ ListenNotify)
      BY <2>2, ListenerStep DEF Listener
    <2>3. CASE Connection /\ (ConnectEvent \/ ConnectNotify)
      BY <2>3, ConnectionStep DEF Connection
    <2>4. CASE IOThreadEnds /\ UNCHANGED <<scenario, resourceVars, ctrlcVars>>
      BY <2>4, IOThreadEndsStep DEF resourceVars
    <2>5. CASE Interrupt
      BY <2>5, StillStep DEF Interrupt
    <2> QED
      BY <1>4, <2>1, <2>2, <2>3, <2>4, <2>5 DEF IOStep
  <1>5. CASE CatcherStep \/ UNCHANGED vars
    BY <1>5, StillStep DEF CatcherStep, Interrupt, vars
  <1> QED
    BY <1>2, <1>3, <1>4, <1>5 DEF Next

(* Every resource in use has a ticket, whatever the clients do and however *)
(* many connections there are (io.cpp:409-433).                   *)
THEOREM EveryResourceHasATicket == Spec => []TicketInv
  BY InitTickets, TicketInvSteps, PTL DEF Spec

(* What TicketInv says of the end: wioe() has not been woken, and the IO   *)
(* thread not been stopped, before every resource is gone (io.cpp:395-407).*)
LEMMA TicketsMeanWaiting == TicketInv => WioeWaits
  <1> SUFFICES ASSUME TicketInv, wioe # "waits" PROVE Gone
    BY DEF WioeWaits
  <1>1. tickets = 0
    BY DEF TicketInv, WioeFollows
  <1>2. One(live) \in {0, 1} /\ One(stream) \in {0, 1}
    BY OneOf DEF TicketInv, TicketsCounted
  <1>3. One(live) = 0 /\ One(stream) = 0 /\ accepted = 0
    BY <1>1, <1>2 DEF TicketInv, TicketsCounted
  <1> QED
    BY <1>3 DEF Gone, One

THEOREM WioeWaitsForAll == Spec => []WioeWaits
  BY EveryResourceHasATicket, TicketsMeanWaiting, PTL

------------------------------------------------------------------------------
(* The exchange of events. *)

(* The descriptor waits for an event, and the IO thread is to tell one.    *)
Armed == epoll \in {"IN", "OUT"}
Telling == notifier["io"].at \in {"result", "state"}

(* Events of epoll, and what the resources make of them.                   *)
Flags == {"IN", "OUT", "HUP", "ERR", "Accept", "Error", "Close", "ok", "cancelled", "failed",
          "exhausted"}
(* Where a caller of notify() is, and with what.                           *)
Notes == [at : {"out", "result", "state", "post"}, event : SUBSET Flags]

(* The types of what the engine, the IO thread and the resource share.     *)
IOTypes ==
  /\ epoll \in {"unknown", "idle", "IN", "OUT"} /\ phase \in Phases
  /\ engif \in [completed : BOOLEAN, r : SUBSET Flags]
  /\ notifier \in [{"io", "client"} -> Notes]
  /\ cancels \in 0..MaxCancels /\ posted \in Nat

(* A caller of notify() goes on, with the same event.                      *)
LEMMA NoteMoves ==
  ASSUME NEW n \in Notes, NEW a \in {"out", "result", "state", "post"}
  PROVE  [n EXCEPT !.at = a] = [at |-> a, event |-> n.event] /\ [n EXCEPT !.at = a] \in Notes
  BY DEF Notes

(* At first nothing is on its way.                                         *)
LEMMA InitTypes == Init => IOTypes
  <1> SUFFICES ASSUME Init PROVE IOTypes
    OBVIOUS
  <1>1. /\ epoll \in {"unknown", "idle"} /\ engif = [completed |-> FALSE, r |-> {}]
        /\ notifier = [t \in {"io", "client"} |-> [at |-> "out", event |-> {}]]
        /\ cancels = 0 /\ phase = "none"
    BY DEF Init, IOInit
  <1>2. posted = 0
    BY DEF Init, IOInit
  <1>3. notifier \in [{"io", "client"} -> Notes]
    <2>1. [at |-> "out", event |-> {}] \in Notes
      BY DEF Notes
    <2> QED
      BY <1>1, <2>1
  <1>4. engif \in [completed : BOOLEAN, r : SUBSET Flags]
    BY <1>1
  <1> QED
    BY <1>1, <1>2, <1>3, <1>4, CancelAssumption DEF IOTypes, Phases

(* notify() is called: it is on its way with its event.                    *)
LEMMA NotifyCalled ==
  ASSUME IOTypes, NEW t \in {"io", "client"}, NEW e \in SUBSET Flags, NotifyCall(t, e)
  PROVE  /\ notifier' \in [{"io", "client"} -> Notes]
         /\ notifier[t].at = "out" /\ notifier'[t] = [at |-> "result", event |-> e]
         /\ \A u \in {"io", "client"} : u # t => notifier'[u] = notifier[u]
  BY DEF NotifyCall, IOTypes, Notes

(* The three steps of notify() (impls.hpp:37-41, io.cpp:41-44): the result *)
(* is written, then the state, then the engine is told; only the caller    *)
(* moves, and nothing is armed.                                            *)
LEMMA NotifySteps ==
  ASSUME IOTypes, NEW t \in {"io", "client"}, Notify(t)
  PROVE  /\ UNCHANGED <<epoll, phase, cancels, live>>
         /\ \A u \in {"io", "client"} : u # t => notifier'[u] = notifier[u]
         /\ notifier'[t].event = notifier[t].event
         /\ \/ /\ notifier[t].at = "result" /\ notifier'[t].at = "state"
               /\ engif'.completed = engif.completed /\ engif'.r = notifier[t].event
            \/ /\ notifier[t].at = "state" /\ notifier'[t].at = "post"
               /\ engif'.completed = TRUE /\ engif'.r = engif.r
            \/ notifier[t].at = "post" /\ notifier'[t].at = "out" /\ engif' = engif
  <1>0. notifier \in [{"io", "client"} -> Notes] /\ notifier[t] \in Notes
    BY DEF IOTypes
  <1>1. CASE SetResult(t)
    BY <1>0, <1>1, NoteMoves DEF SetResult, IOTypes, lifeVars
  <1>2. CASE SetCompleted(t)
    BY <1>0, <1>2, NoteMoves DEF SetCompleted, IOTypes, lifeVars
  <1>3. CASE Post(t)
    BY <1>0, <1>3, NoteMoves DEF Post, IOTypes
  <1> QED
    BY <1>1, <1>2, <1>3 DEF Notify

(* The types are kept by notify() ...                                      *)
LEMMA NotifyTypes ==
  ASSUME IOTypes, NEW t \in {"io", "client"}, Notify(t) PROVE IOTypes'
  <1>0. notifier \in [{"io", "client"} -> Notes] /\ notifier[t] \in Notes
    BY DEF IOTypes
  <1>1. CASE SetResult(t)
    <2>1. notifier' \in [{"io", "client"} -> Notes]
      BY <1>0, <1>1, NoteMoves DEF SetResult
    <2>2. engif' \in [completed : BOOLEAN, r : SUBSET Flags]
      BY <1>0, <1>1 DEF SetResult, IOTypes, Notes
    <2> QED
      BY <1>1, <2>1, <2>2 DEF SetResult, IOTypes, lifeVars
  <1>2. CASE SetCompleted(t)
    <2>1. notifier' \in [{"io", "client"} -> Notes]
      BY <1>0, <1>2, NoteMoves DEF SetCompleted
    <2>2. engif' \in [completed : BOOLEAN, r : SUBSET Flags]
      BY <1>2 DEF SetCompleted, IOTypes
    <2> QED
      BY <1>2, <2>1, <2>2 DEF SetCompleted, IOTypes, lifeVars
  <1>3. CASE Post(t)
    <2>1. notifier' \in [{"io", "client"} -> Notes]
      BY <1>0, <1>3, NoteMoves DEF Post
    <2> QED
      BY <1>3, <2>1 DEF Post, IOTypes
  <1> QED
    BY <1>1, <1>2, <1>3 DEF Notify

(* The types are kept when an event is taken ...                           *)
LEMMA EventTypes ==
  ASSUME IOTypes, NEW ready, NEW e \in SUBSET Flags, EpollWait(ready, e)
  PROVE  IOTypes'
  <1>1. notifier' \in [{"io", "client"} -> Notes]
    BY NotifyCalled DEF EpollWait
  <1> QED
    BY <1>1 DEF EpollWait, IOTypes, lifeVars

(* ... when the client cancels or shuts down ...                           *)
LEMMA ClientTypes ==
  ASSUME IOTypes, NEW e \in SUBSET Flags, ClientNotifies(e)
  PROVE  IOTypes'
  <1>1. notifier' \in [{"io", "client"} -> Notes]
    BY NotifyCalled DEF ClientNotifies
  <1>2. cancels' \in 0..MaxCancels
    BY CancelAssumption DEF ClientNotifies, IOTypes
  <1> QED
    BY <1>1, <1>2 DEF ClientNotifies, IOTypes

(* ... and by the engine.                                                  *)
LEMMA EngineTypes == ASSUME IOTypes, EngineStep PROVE IOTypes'
  <1>1. CASE Check
    BY <1>1 DEF Check, Goes, IOTypes, lifeVars, Phases
  <1>2. CASE Drop
    BY <1>2 DEF Drop, IOTypes, lifeVars, Phases
  <1> QED
    BY <1>1, <1>2 DEF EngineStep

------------------------------------------------------------------------------
(* The exchange of an undisturbed operation with the IO thread: the        *)
(* descriptor is armed, or an event is on its way, or engif is completed,  *)
(* never two of them; and each only while the operation waits for it.      *)
FileExchange ==
  ~disturbed =>
    /\ notifier["client"].at \in {"out", "post"}
    /\ ~(Armed /\ Telling) /\ ~(Armed /\ engif.completed) /\ ~(Telling /\ engif.completed)
    /\ Armed \/ Telling => phase \in {"check", "parked"}
    /\ engif.completed => phase \in {"check", "parked", "resume", "test"}
    /\ engif.completed => iopor /\ ~NothingToWrite

(* What the operation is told: the event it waits for, or that its pipe    *)
(* hung up, with something left to read or without.                        *)
Told(e) ==
  \/ e = {op.event}
  \/ kind = "pipe" /\ closed /\ Readable /\ e = {"IN", "HUP"}
  \/ kind = "pipe" /\ closed /\ ~Readable /\ e = {"HUP"}

(* It is told that from the event on to the switch.                        *)
AsExpected ==
  ~disturbed =>
    /\ Armed => epoll = op.event
    /\ Telling => Told(notifier["io"].event)
    /\ notifier["io"].at = "state" \/ engif.completed \/ phase = "take" => Told(engif.r)

(* Only a live resource has an operation, and epoll knows its descriptor   *)
(* unless it is a regular file, which is never armed.                      *)
Registered ==
  /\ phase # "none" => live /\ op.event \in {"IN", "OUT"}
  /\ phase \in {"test", "take", "loop", "check", "parked"} => iopor /\ ~NothingToWrite
  /\ live /\ iopor /\ kind # "regular" => epoll # "unknown"
  /\ kind = "regular" => epoll = "unknown" /\ closed
  /\ kind = "regular" => phase \notin {"check", "parked"}
  /\ kind = "regular" /\ phase = "test" => engif.completed

(* An operation that failed had its cause; if it could not be rearmed, its *)
(* file is a regular one (UsedInv below: that was used before).            *)
FailedTruly ==
  phase = "returned" =>
    /\ result.status = "cancelled" =>
         disturbed \/ (kind = "pipe" /\ closed /\ ~Readable)
    /\ result.status = "unexpected" =>
         disturbed \/ (kind = "pipe" /\ closed /\ Readable)
    /\ result.status = "rearm" => kind = "regular"

(* The invariant of a file.                                                *)
FileInv == FileExchange /\ AsExpected /\ Registered /\ FailedTruly

(* What FileInv speaks of besides phase and op.                            *)
allButPhase ==
  <<epoll, engif, notifier, cancels, live, iopor, kind, closed, sent, taken, disturbed>>

(* An operation is launched: none was on its way.                          *)
LEMMA LaunchStep ==
  ASSUME IOTypes, FileInv, NEW o, NEW d, o.event \in {"IN", "OUT"}, Launch(o, d)
  PROVE  IOTypes' /\ FileInv'
  <1>1. IOTypes'
    BY DEF Launch, IOTypes, lifeVars, Phases
  <1>2. FileInv'
    BY DEF Launch, Clean, IOTypes, lifeVars, peerVars, FileInv, FileExchange, AsExpected,
       Registered,
      FailedTruly, Armed, Telling, Told, Readable, NothingToWrite
  <1> QED
    BY <1>1, <1>2

(* notify() of a file goes on: what it writes is the event it had.         *)
LEMMA FileNotifyStep ==
  ASSUME IOTypes, FileInv, FileNotify
  PROVE  IOTypes' /\ FileInv'
  <1> PICK t \in {"io", "client"} : Notify(t) /\ UNCHANGED fileVars
    BY DEF FileNotify
  <1>1. IOTypes'
    BY NotifyTypes
  <1>2. /\ UNCHANGED <<iopor, kind, closed, op, data, result, sent, taken, disturbed>>
        /\ (Readable' <=> Readable) /\ (NothingToWrite' <=> NothingToWrite)
    BY DEF fileVars, opVars, peerVars, Readable, NothingToWrite
  <1>6. UNCHANGED <<epoll, phase, live>> /\ (engif.completed => engif'.completed)
    BY NotifySteps
  <1>7. Registered'
    BY <1>2, <1>6 DEF FileInv, Registered
  <1>3. FailedTruly'
    BY <1>2, <1>6 DEF FileInv, FailedTruly
  <1>8. ~disturbed =>
          \/ /\ t = "client" /\ engif' = engif /\ notifier'["io"] = notifier["io"]
             /\ notifier'["client"].at = "out"
          \/ t = "io" /\ notifier'["client"] = notifier["client"]
    <2>1. ~disturbed => notifier["client"].at \in {"out", "post"}
      BY DEF FileInv, FileExchange
    <2>2. CASE t = "client"
      BY <2>1, <2>2, NotifySteps
    <2>3. CASE t = "io"
      BY <2>3, NotifySteps
    <2> QED
      BY <2>2, <2>3
  <1>9. t = "io" => \/ Telling /\ Telling' /\ engif'.completed = engif.completed
                    \/ Telling /\ ~Telling' /\ engif'.completed
                    \/ ~Telling /\ ~Telling' /\ engif' = engif
    BY NotifySteps DEF Telling
  <1>4. FileExchange'
    <2>1. (Armed' <=> Armed) /\ (disturbed' <=> disturbed)
      BY <1>2, <1>6 DEF Armed
    <2>2. CASE t = "client" /\ ~disturbed
      <3>1. /\ engif' = engif /\ notifier'["client"].at = "out" /\ (Telling' <=> Telling)
        BY <1>8, <2>2 DEF Telling
      <3> QED
        BY <1>2, <1>6, <2>1, <2>2, <3>1 DEF FileInv, FileExchange
    <2>3. CASE t = "io" /\ ~disturbed
      BY <1>2, <1>6, <1>8, <1>9, <2>1, <2>3 DEF FileInv, FileExchange, Registered
    <2> QED
      BY <2>1, <2>2, <2>3 DEF FileExchange
  <1>5. AsExpected'
    <2>1. \A e : Told(e)' <=> Told(e)
      BY <1>2 DEF Told
    <2> QED
      BY <1>2, <2>1, NotifySteps DEF FileInv, FileExchange, AsExpected, Armed, Telling
  <1> QED
    BY <1>1, <1>3, <1>4, <1>5, <1>7 DEF FileInv

(* The IO thread takes an event: the descriptor is disarmed as the         *)
(* notification starts.                                                    *)
LEMMA FileEventStep ==
  ASSUME IOTypes, FileInv, FileEvent
  PROVE  IOTypes' /\ FileInv'
  <1>0. Ready \in SUBSET Flags
    BY DEF Ready, Flags
  <1>1. EpollWait(Ready, Ready) /\ Ready \in SUBSET Flags /\ UNCHANGED fileVars
    BY <1>0 DEF FileEvent
  <1>2. NotifyCall("io", Ready) /\ Armed /\ epoll' = "idle" /\ UNCHANGED <<engif, phase, cancels,
  live>>
    BY <1>1 DEF EpollWait, Armed, lifeVars
  <1>3. /\ notifier["io"].at = "out" /\ notifier'["io"] = [at |-> "result", event |-> Ready]
        /\ notifier'["client"] = notifier["client"]
    BY <1>1, <1>2, NotifyCalled
  <1>4. \/ Ready = {epoll}
        \/ kind = "pipe" /\ closed /\ Readable /\ Ready = {"IN", "HUP"}
        \/ kind = "pipe" /\ closed /\ ~Readable /\ Ready = {"HUP"}
    BY <1>1, <1>2 DEF EpollWait, Ready, Armed
  <1>6. UNCHANGED <<iopor, kind, closed, op, data, result, sent, taken, disturbed>>
    BY <1>1 DEF fileVars, opVars, peerVars
  <1>5. FileInv'
    BY <1>2, <1>3, <1>4, <1>6 DEF FileInv, FileExchange, AsExpected, Registered,
      FailedTruly, Armed, Telling, Told, Readable, NothingToWrite
  <1> QED
    BY <1>1, <1>5, EventTypes

(* After a cancellation little is claimed.                                 *)
LEMMA FileCancelStep ==
  ASSUME IOTypes, FileInv, FileCancel
  PROVE  IOTypes' /\ FileInv'
  <1>0. {"HUP"} \in SUBSET Flags
    BY DEF Flags
  <1>1. /\ disturbed' /\ IOTypes' /\ UNCHANGED <<epoll, engif, phase, live>>
        /\ UNCHANGED <<iopor, kind, closed, sent, taken, op, data, result>>
    BY <1>0, ClientTypes DEF FileCancel, ClientNotifies, peerVars
  <1> QED
    BY <1>1 DEF fileVars, opVars, peerVars, FileInv, FileExchange, AsExpected, Registered,
      FailedTruly, Told, Readable, NothingToWrite

(* The peer does not touch the exchange, and what it closes stays closed.  *)
LEMMA FilePeerStep ==
  ASSUME IOTypes, FileInv, FilePeer
  PROVE  IOTypes' /\ FileInv'
  <1>1. /\ UNCHANGED <<epoll, engif, notifier, phase, cancels, live, posted>>
        /\ UNCHANGED <<iopor, kind, op, data, result, taken, disturbed>>
    BY DEF FilePeer, PeerSends, PeerCloses, PeerReads, ioVars, lifeVars, opVars
  <1>2. closed => closed' /\ sent' = sent
    <2>1. CASE PeerCloses
      BY <2>1 DEF PeerCloses
    <2>2. CASE PeerSends \/ PeerReads
      BY <2>2, Zenon DEF PeerSends, PeerReads
    <2> QED
      BY <2>1, <2>2 DEF FilePeer
  <1> QED
    BY <1>1, <1>2 DEF IOTypes, FileInv, FileExchange, AsExpected, Registered,
      FailedTruly, Told, Readable, Armed, Telling, NothingToWrite

(* The file is destroyed between two operations.                           *)
LEMMA FileGoneMove ==
  ASSUME IOTypes, FileInv, FileGone
  PROVE  IOTypes' /\ FileInv'
  BY DEF FileGone, Close, IOTypes, FileInv, FileExchange, AsExpected, Registered,
      FailedTruly, Told, Readable, Armed, Telling, NothingToWrite, fileVars, opVars, peerVars

(* What has returned is taken, or a read is launched again.                *)
LEMMA ReturnStep ==
  ASSUME IOTypes, FileInv,
         phase = "returned", phase' \in {"none", "resume"},
         op'.event = "IN" \/ UNCHANGED <<op, data>>,
         UNCHANGED allButPhase, UNCHANGED posted
  PROVE  IOTypes' /\ FileInv'
  BY DEF allButPhase, IOTypes, Phases, FileInv, FileExchange, AsExpected, Registered,
     FailedTruly, Told, Readable, Armed, Telling, NothingToWrite

(* The engine parks or resumes the generator.                              *)
LEMMA EngineFileStep ==
  ASSUME IOTypes, FileInv, EngineStep, UNCHANGED fileVars
  PROVE  IOTypes' /\ FileInv'
  <1>1. UNCHANGED <<iopor, kind, closed, op, data, result, sent, taken, disturbed>>
    BY DEF fileVars, opVars, peerVars
  <1>2. CASE Check
    BY <1>1, <1>2, EngineTypes DEF Check, Goes, lifeVars, IOTypes, FileInv, FileExchange,
       AsExpected, Registered,
     FailedTruly, Told, Readable, Armed, Telling, NothingToWrite
  <1>3. CASE Drop
    BY <1>1, <1>3, EngineTypes DEF Drop, lifeVars, IOTypes, FileInv, FileExchange, AsExpected,
       Registered,
     FailedTruly, Told, Readable, Armed, Telling, NothingToWrite
  <1> QED
    BY <1>2, <1>3 DEF EngineStep

(* The operation returns: nothing is in flight at that point. *)
LEMMA FileReturns ==
  ASSUME IOTypes, FileInv, NEW status, NEW d, Return(status, d),
         phase \notin {"none", "check", "parked"}, ~disturbed => ~engif.completed,
         UNCHANGED <<epoll, engif, kind, closed, iopor>>,
         status = "ok" \/ UNCHANGED <<sent, taken>>,
         status = "cancelled" => disturbed \/ (kind = "pipe" /\ closed /\ ~Readable),
         status = "unexpected" => disturbed \/ (kind = "pipe" /\ closed /\ Readable),
         status = "rearm" => kind = "regular"
  PROVE  IOTypes' /\ FileInv'
  BY DEF Return, Goes, lifeVars, IOTypes, Phases, FileInv, FileExchange, AsExpected, Registered,
     FailedTruly, Told, Readable, Armed, Telling, NothingToWrite

(* It arms the descriptor for its event: no other is on its way.           *)
LEMMA FileArms ==
  ASSUME IOTypes, FileInv, Arm(op.event),
         phase \notin {"none", "check", "parked", "returned"}, ~disturbed => ~engif.completed,
         iopor', kind # "regular",
         UNCHANGED <<kind, closed, op, data, result, sent, taken, disturbed>>, ~NothingToWrite
  PROVE  IOTypes' /\ FileInv'
  BY DEF Arm, Goes, lifeVars, IOTypes, Phases, FileInv, FileExchange, AsExpected, Registered,
     FailedTruly, Told, Readable, Armed, Telling, NothingToWrite

(* epollRearm() fails on a regular file only.                              *)
LEMMA RearmStep ==
  ASSUME IOTypes, FileInv, epollRearm, iopor, ~NothingToWrite,
         phase \notin {"none", "check", "parked", "returned"}, ~disturbed => ~engif.completed,
         UNCHANGED <<kind, closed, sent, taken, iopor>>
  PROVE  IOTypes' /\ FileInv'
  <1>1. CASE epoll = "unknown"
    BY <1>1, FileReturns DEF epollRearm, FileInv, Registered
  <1>2. CASE epoll # "unknown"
    <2>1. Arm(op.event) /\ UNCHANGED opVars
      BY <1>2 DEF epollRearm
    <2>2. kind # "regular"
      BY <1>2 DEF FileInv, Registered
    <2> QED
      BY <2>1, <2>2, FileArms DEF opVars
  <1> QED
    BY <1>1, <1>2

(* It reads or writes more.                                                *)
LEMMA FileLoops ==
  ASSUME IOTypes, FileInv, Goes("loop"), phase \in {"take", "loop"}, ~NothingToWrite',
         UNCHANGED <<epoll, engif, iopor, kind, closed, op, disturbed>>
  PROVE  IOTypes' /\ FileInv'
  BY DEF Goes, lifeVars, IOTypes, Phases, FileInv, FileExchange, AsExpected, Registered,
     FailedTruly, Told, Readable, Armed, Telling, NothingToWrite

(* The first operation registers the descriptor (io.cpp:57-71).            *)
LEMMA RegisterStep ==
  ASSUME IOTypes, FileInv, lazyEpollReg
  PROVE  IOTypes' /\ FileInv'
  <1>1. /\ phase = "resume" /\ ~NothingToWrite /\ ~iopor /\ iopor'
        /\ UNCHANGED <<kind, closed, op, data, result, sent, taken, disturbed>> /\ op.event \in {"IN", "OUT"}
    BY DEF lazyEpollReg, peerVars, opVars, FileInv, Registered
  <1>2. CASE kind = "regular"
    <2>1. /\ engif' = [completed |-> TRUE, r |-> {op.event}] /\ Goes("test") /\ UNCHANGED epoll
      BY <1>2 DEF lazyEpollReg
    <2>2. {op.event} \in SUBSET Flags
      BY <1>1 DEF Flags
    <2>3. IOTypes'
      BY <2>1, <2>2 DEF Goes, lifeVars, IOTypes, Phases
    <2> QED
      BY <1>1, <1>2, <2>1, <2>3 DEF Goes, lifeVars, IOTypes, FileInv, FileExchange, AsExpected,
         Registered,
     FailedTruly, Told, Readable, Armed, Telling, NothingToWrite
  <1>3. CASE kind # "regular"
    <2>1. Arm(op.event)
      BY <1>3 DEF lazyEpollReg
    <2> QED
      BY <1>1, <1>3, <2>1, FileArms DEF FileInv, FileExchange
  <1> QED
    BY <1>2, <1>3

(* It takes up a completed engif, and makes it running again.              *)
LEMMA TakeUpStep ==
  ASSUME IOTypes, FileInv, TakeUp
  PROVE  IOTypes' /\ FileInv'
  <1>1. /\ phase \in {"test", "resume"} /\ iopor /\ ~NothingToWrite
        /\ engif.completed /\ engif' = [completed |-> FALSE, r |-> engif.r]
        /\ phase' = "take" /\ UNCHANGED <<epoll, notifier, posted, cancels, live>>
        /\ UNCHANGED <<iopor, kind, closed, op, data, result, sent, taken, disturbed>>
    BY DEF TakeUp, Running, AtTest, Goes, lifeVars, fileVars, peerVars, opVars, IOTypes, FileInv,
       Registered
  <1> QED
    BY <1>1 DEF IOTypes, Phases, FileInv, FileExchange, AsExpected, Registered,
     FailedTruly, Told, Readable, Armed, Telling, NothingToWrite

(* The switch (io.cpp:156-187): another event than the one it waits for has*)
(* its reason.                                                             *)
LEMMA SwitchStep ==
  ASSUME IOTypes, FileInv, Switch
  PROVE  IOTypes' /\ FileInv'
  <1>1. /\ phase = "take" /\ UNCHANGED <<epoll, engif, iopor, kind, closed, sent, taken>>
        /\ ~NothingToWrite
    BY DEF Switch, peerVars, FileInv, Registered
  <1>2. CASE engif.r = {op.event}
    <2>1. op.event # "HUP" /\ {op.event} # {"HUP"}
      BY <1>1 DEF FileInv, Registered
    <2>2. Goes("loop") /\ UNCHANGED opVars
      BY <1>1, <1>2, <2>1 DEF Switch
    <2> QED
      BY <1>1, <2>2, FileLoops DEF opVars, NothingToWrite
  <1>3. CASE engif.r # {op.event}
    <2>1. PICK status \in {"cancelled", "unexpected"} :
            Return(status, <<>>) /\ (status = "cancelled" <=> engif.r = {"HUP"})
      BY <1>1, <1>3 DEF Switch
    <2>2. ~disturbed => ~engif.completed
      BY <1>1 DEF FileInv, FileExchange
    <2>3. \/ disturbed
          \/ kind = "pipe" /\ closed /\ Readable /\ engif.r = {"IN", "HUP"}
          \/ kind = "pipe" /\ closed /\ ~Readable /\ engif.r = {"HUP"}
      BY <1>1, <1>3 DEF FileInv, AsExpected, Told
    <2>4. /\ status = "cancelled" => disturbed \/ (kind = "pipe" /\ closed /\ ~Readable)
          /\ status = "unexpected" => disturbed \/ (kind = "pipe" /\ closed /\ Readable)
      BY <2>1, <2>3
    <2> QED
      BY <1>1, <2>1, <2>2, <2>4, FileReturns
  <1> QED
    BY <1>2, <1>3

(* A read of the loop: it returns, or reads more.                          *)
LEMMA ReadSomeStep ==
  ASSUME IOTypes, FileInv, ReadSome
  PROVE  IOTypes' /\ FileInv'
  <1>1. phase = "loop" /\ op.event = "IN" /\ UNCHANGED <<epoll, engif, iopor, kind, closed>>
    BY DEF ReadSome, peerVars
  <1>2. CASE Goes("loop")
    BY <1>1, <1>2, FileLoops DEF ReadSome, NothingToWrite, Goes, Return
  <1>3. ASSUME NEW d, Return("ok", d) PROVE IOTypes' /\ FileInv'
    BY <1>1, <1>3, FileReturns DEF FileInv, FileExchange
  <1> QED
    BY <1>2, <1>3 DEF ReadSome

(* A write of the loop: the rest is written, or it returns.                *)
LEMMA WriteSomeStep ==
  ASSUME IOTypes, FileInv, WriteSome
  PROVE  IOTypes' /\ FileInv'
  <1>1. phase = "loop" /\ UNCHANGED <<epoll, engif, iopor, kind, closed>>
    BY DEF WriteSome
  <1>2. CASE data' = <<>>
    BY <1>1, <1>2, FileReturns DEF WriteSome, FileInv, FileExchange
  <1>3. CASE data' # <<>>
    BY <1>1, <1>3, FileLoops DEF WriteSome, NothingToWrite
  <1> QED
    BY <1>2, <1>3

(* Every step of the generator.                                            *)
LEMMA GeneratorStep ==
  ASSUME IOTypes, FileInv, FileGenerator
  PROVE  IOTypes' /\ FileInv'
  <1>1. CASE WriteNothing
    BY <1>1, FileReturns DEF WriteNothing, peerVars, FileInv, FileExchange
  <1>2. CASE Await
    BY <1>2, RearmStep DEF Await, AtTest, peerVars, FileInv, Registered
  <1>3. CASE ReadNone
    BY <1>3, FileReturns, RearmStep DEF ReadNone, peerVars, FileInv, FileExchange, Registered,
       NothingToWrite
  <1>4. CASE WriteNone
    BY <1>4, RearmStep DEF WriteNone, peerVars, FileInv, FileExchange, Registered
  <1> QED
    BY <1>1, <1>2, <1>3, <1>4, RegisterStep, TakeUpStep, SwitchStep, ReadSomeStep,
       WriteSomeStep DEF FileGenerator

(* A step that leaves the exchange alone.                                  *)
LEMMA StillFile ==
  ASSUME IOTypes, FileInv,
         UNCHANGED <<epoll, engif, notifier, posted, phase, cancels, live, fileVars>>
  PROVE  IOTypes' /\ FileInv'
  BY DEF IOTypes, FileInv, FileExchange, AsExpected, Registered, FailedTruly, Told, Readable,
     Armed,
     Telling, NothingToWrite, fileVars, opVars, peerVars

(* The calls of a client through the read buffer, and their answers.       *)
LEMMA BufferStep ==
  ASSUME IOTypes, FileInv, Mapped \/ \E q \in Requests : Call(q)
  PROVE  IOTypes' /\ FileInv'
  <1>1. CASE \E q \in Requests : Call(q)
    <2> PICK q \in Requests : Call(q)
      BY <1>1
    <2>1. CASE CallBuffered(q)
      BY <2>1, StillFile DEF CallBuffered, ioVars, lifeVars
    <2>2. CASE CallRead(q)
      BY <2>2, LaunchStep DEF CallRead
    <2>3. CASE CallWrite(q)
      BY <2>3, LaunchStep DEF CallWrite
    <2> QED
      BY <2>1, <2>2, <2>3 DEF Call
  <1>2. CASE Mapped
    <2>1. CASE Settled
      BY <1>2, <2>1, ReturnStep DEF Mapped, Settled, lifeVars, allButPhase, fileVars, opVars,
         peerVars
    <2>2. CASE ReadUntilMore
      BY <1>2, <2>2, ReturnStep DEF Mapped, ReadUntilMore, lifeVars, allButPhase, fileVars,
         opVars, peerVars
    <2> QED
      BY <1>2, <2>1, <2>2 DEF Mapped, Failed, Written, ReadAll, ReadUpTo, Peeked, ReadUntilEnd,
         ReadUntilMet
  <1> QED
    BY <1>1, <1>2

(* The flushes of a Writer.                                                *)
LEMMA WriterStep ==
  ASSUME IOTypes, FileInv, WriterClient \/ WriterEngine
  PROVE  IOTypes' /\ FileInv'
  <1>1. CASE WriterClient \/ FlushFails \/ EodCompleted
    <2>1. UNCHANGED <<ioVars, fileVars>>
      BY <1>1 DEF WriterClient, WriterWrite, Flush, WriterGone, LaunchFlush, FlushFails,
         EodCompleted
    <2> QED
      BY <2>1, StillFile DEF ioVars, lifeVars
  <1>2. CASE FlushStarts
    BY <1>2, LaunchStep DEF FlushStarts
  <1>3. CASE FlushEnds
    BY <1>3, ReturnStep DEF FlushEnds, lifeVars, allButPhase, fileVars, opVars, peerVars
  <1> QED
    BY <1>1, <1>2, <1>3 DEF WriterEngine

(* Every step of a scenario with a file.                                   *)
LEMMA FileSteps ==
  ASSUME IOTypes, FileInv,
         \/ ReaderClient \/ WriterScenario \/ Mapped \/ WriterEngine
         \/ FileStep \/ FileEvent \/ FileNotify
  PROVE  IOTypes' /\ FileInv'
  <1>1. CASE ReaderClient
    BY <1>1, BufferStep, FilePeerStep, FileCancelStep, FileGoneMove DEF ReaderClient
  <1>2. CASE WriterScenario
    BY <1>2, WriterStep, FilePeerStep, FileCancelStep, FileGoneMove DEF WriterScenario, FilePeer
  <1>3. CASE FileStep
    BY <1>3, GeneratorStep, EngineFileStep DEF FileStep
  <1> QED
    BY <1>1, <1>2, <1>3, BufferStep, WriterStep, FileEventStep, FileNotifyStep

(* A regular file is marked as registered by the first operation, which is *)
(* told at once; so one that finds the mark, and cannot rearm it, is not   *)
(* the first (io.cpp:62-69).                                               *)
UsedInv ==
  /\ calls \in Nat /\ flushed \in Nat
  /\ kind = "regular" =>
       /\ scenario = "reader" /\ (iopor \/ phase # "none") => calls > 0
       /\ scenario = "writer" /\ iopor /\ phase = "none" => flushed > 0
       /\ phase = "resume" /\ iopor => UsedBefore
       /\ phase = "returned" /\ result.status = "rearm" => UsedBefore

(* A step in which no use begins or ends, ...                              *)
LEMMA UsedStill ==
  ASSUME UsedInv, UNCHANGED <<scenario, kind, calls, call, flushed>>,
         kind = "regular" =>
           /\ (iopor' => iopor \/ phase # "none") /\ (phase' # "none" => phase # "none")
           /\ phase' = "none" => phase = "none" /\ (iopor' => iopor)
           /\ phase' = "resume" /\ iopor' => phase = "resume" /\ iopor
           /\ phase' = "returned" /\ result'.status = "rearm" =>
                \/ phase = "returned" /\ result.status = "rearm"
                \/ phase = "resume" /\ iopor
  PROVE  UsedInv'
  <1>1. UsedBefore' <=> UsedBefore
    BY DEF UsedBefore
  <1> QED
    BY <1>1 DEF UsedInv

(* ... such as all of the engine, the IO thread and the peer, ...          *)
LEMMA UsedFile ==
  ASSUME IOTypes, FileInv, UsedInv, UNCHANGED <<scenario, calls, call, flushed>>,
         FileStep \/ FileEvent \/ FileNotify \/ FilePeer \/ FileCancel \/ FileGone
  PROVE  UsedInv'
  <1>0. kind = "regular" => /\ epoll = "unknown" /\ closed /\ phase \notin {"check", "parked"}
                            /\ phase = "test" => engif.completed
    BY DEF FileInv, Registered
  <1>1. CASE FileEvent \/ FileNotify \/ FilePeer \/ FileCancel \/ FileGone
    <2>1. FileEvent => UNCHANGED <<kind, iopor, phase, result>>
      BY DEF FileEvent, EpollWait, fileVars, peerVars, opVars
    <2>2. FileNotify => UNCHANGED <<kind, iopor, phase, result>>
      BY DEF FileNotify, Notify, SetResult, SetCompleted, Post, fileVars, peerVars, opVars
    <2>3. FilePeer => UNCHANGED <<kind, iopor, phase, result>>
      BY DEF FilePeer, PeerSends, PeerCloses, PeerReads, ioVars, opVars
    <2>4. FileCancel => UNCHANGED <<kind, iopor, phase, result>>
      BY DEF FileCancel, ClientNotifies, peerVars
    <2>5. FileGone => UNCHANGED <<kind, iopor, phase, result>>
      BY DEF FileGone, fileVars, peerVars, opVars
    <2>6. UNCHANGED <<kind, iopor, phase, result>>
      BY <1>1, <2>1, <2>2, <2>3, <2>4, <2>5
    <2> QED
      BY <2>6, UsedStill
  <1>2. CASE EngineStep /\ UNCHANGED fileVars
    <2>1. UNCHANGED <<kind, iopor, result>>
      BY <1>2 DEF fileVars, peerVars, opVars
    <2>2. kind = "regular" => phase' = phase
      BY <1>0, <1>2 DEF EngineStep, Check, Drop
    <2> QED
      BY <2>1, <2>2, UsedStill
  <1>3. ASSUME FileGenerator PROVE UsedInv'
    <2>1. kind' = kind
      BY <1>3, Zenon DEF FileGenerator, WriteNothing, lazyEpollReg, TakeUp, Await, Switch,
         ReadSome,
        ReadNone, WriteSome, WriteNone, peerVars, fileVars
    <2>2. ASSUME phase # "none", phase' \notin {"none", "resume"},
                 kind = "regular" /\ phase' = "returned" /\ result'.status = "rearm" =>
                   phase = "resume" /\ iopor
          PROVE  UsedInv'
      BY <2>1, <2>2, UsedStill
    <2>3. CASE WriteNothing
      BY <2>2, <2>3 DEF WriteNothing, Return, Goes
    <2>4. CASE lazyEpollReg
      BY <2>2, <2>4 DEF lazyEpollReg, Goes, Arm
    <2>5. CASE TakeUp
      BY <2>2, <2>5 DEF TakeUp, AtTest, Running, Goes
    <2>6. CASE Await
      <3>1. AtTest /\ ~engif.completed /\ epollRearm /\ phase # "none"
        BY <2>6 DEF Await, AtTest
      <3>2. kind = "regular" => phase = "resume" /\ iopor
        BY <1>0, <3>1 DEF AtTest
      <3>3. phase' \notin {"none", "resume"}
        BY <3>1 DEF epollRearm, Return, Goes, Arm
      <3> QED
        BY <2>2, <3>1, <3>2, <3>3
    <2>7. CASE Switch
      <3>1. phase = "take" /\ phase' \in {"loop", "returned"}
        BY <2>7 DEF Switch, Return, Goes
      <3>2. phase' = "returned" => result'.status # "rearm"
        BY <2>7 DEF Switch, Return, Goes
      <3> QED
        BY <2>2, <3>1, <3>2
    <2>8. CASE ReadSome
      <3>1. phase = "loop" /\ phase' \in {"loop", "returned"}
        BY <2>8 DEF ReadSome, Return, Goes
      <3>2. phase' = "returned" => result'.status # "rearm"
        BY <2>8 DEF ReadSome, Return, Goes
      <3> QED
        BY <2>2, <3>1, <3>2
    <2>9. CASE ReadNone
      <3>1. phase = "loop" /\ phase' \in {"check", "returned"}
        BY <2>9 DEF ReadNone, epollRearm, Return, Goes, Arm
      <3>2. kind = "regular" => result'.status # "rearm"
        BY <1>0, <2>9 DEF ReadNone, Return
      <3> QED
        BY <2>2, <3>1, <3>2
    <2>10. CASE WriteSome
      <3>1. phase = "loop" /\ phase' \in {"loop", "returned"}
        BY <2>10 DEF WriteSome, Return, Goes
      <3>2. phase' = "returned" => result'.status # "rearm"
        BY <2>10 DEF WriteSome, Return, Goes
      <3> QED
        BY <2>2, <3>1, <3>2
    <2>11. CASE WriteNone
      <3>1. phase = "loop" /\ phase' \in {"check", "returned"} /\ kind # "regular"
        BY <2>11 DEF WriteNone, epollRearm, Return, Goes, Arm
      <3> QED
        BY <2>2, <3>1
    <2> QED
      BY <1>3, <2>3, <2>4, <2>5, <2>6, <2>7, <2>8, <2>9, <2>10, <2>11 DEF FileGenerator
  <1> QED
    BY <1>1, <1>2, <1>3 DEF FileStep

(* What a file may do: the reader's buffer or the writer stays as it is    *)
(* while the file does a step of its own.                                  *)
FileOwn == FileStep \/ FileEvent \/ FileNotify
FileMoves ==
  \/ Reader /\ (ReaderClient \/ Mapped \/ (FileOwn /\ UNCHANGED bufferVars))
  \/ Writing /\ (WriterScenario \/ WriterEngine \/ (FileOwn /\ UNCHANGED writerVars))

(* ... and those in which one does: a call and its answer, ...             *)
LEMMA UsedReader ==
  ASSUME IOTypes, FileInv, UsedInv, Reader,
         ReaderClient \/ Mapped \/ (FileOwn /\ UNCHANGED bufferVars)
  PROVE  UsedInv'
  <1>0. scenario = "reader" /\ UNCHANGED <<scenario, flushed>> /\ calls \in Nat /\ flushed \in Nat
    BY DEF Reader, writerVars, UsedInv
  <1>1. ASSUME NEW q \in Requests, Call(q) PROVE UsedInv'
    <2>1. calls' = calls + 1 /\ calls' \in Nat
      BY <1>0, <1>1 DEF Call
    <2>2. CASE CallBuffered(q)
      <3>1. UNCHANGED <<kind, iopor, phase, result>> /\ phase = "none"
        BY <2>2 DEF CallBuffered, ioVars, fileVars, peerVars, opVars
      <3> QED
        BY <1>0, <2>1, <3>1 DEF UsedInv
    <2>3. CASE CallRead(q) \/ CallWrite(q)
      <3>1. phase = "none" /\ phase' = "resume" /\ UNCHANGED <<kind, iopor>>
        BY <2>3 DEF CallRead, CallWrite, Launch, peerVars
      <3>2. kind = "regular" /\ iopor => calls > 0
        BY <1>0 DEF UsedInv
      <3>3. kind = "regular" /\ iopor => calls' > 1
        BY <1>0, <2>1, <3>2
      <3> QED
        BY <1>0, <2>1, <3>1, <3>3 DEF UsedInv, UsedBefore
    <2> QED
      BY <1>1, <2>2, <2>3 DEF Call
  <1>2. CASE Mapped
    <2>1. phase = "returned" /\ UNCHANGED calls
      BY <1>2 DEF Mapped
    <2>2. ASSUME Settled PROVE UsedInv'
      <3>1. phase' = "none" /\ UNCHANGED <<kind, iopor>>
        BY <2>2 DEF Settled, fileVars, peerVars
      <3> QED
        BY <1>0, <2>1, <3>1 DEF UsedInv
    <2>3. ASSUME ReadUntilMore PROVE UsedInv'
      <3>1. phase' = "resume" /\ UNCHANGED <<kind, iopor, call>> /\ call.kind = "until"
        BY <2>3 DEF ReadUntilMore, peerVars
      <3> QED
        BY <1>0, <2>1, <3>1 DEF UsedInv, UsedBefore
    <2>4. Settled \/ ReadUntilMore
      BY <1>2, Zenon DEF Mapped, Failed, Written, ReadAll, ReadUpTo, Peeked, ReadUntilEnd,
        ReadUntilMet
    <2> QED
      BY <2>2, <2>3, <2>4
  <1>3. ASSUME UNCHANGED bufferVars, FileOwn \/ FilePeer \/ FileCancel \/ FileGone
        PROVE  UsedInv'
    <2>1. UNCHANGED <<calls, call>>
      BY <1>3 DEF bufferVars
    <2> QED
      BY <1>0, <1>3, <2>1, UsedFile DEF FileOwn
  <1> QED
    BY <1>1, <1>2, <1>3 DEF ReaderClient

(* ... and a flush.                                                        *)
LEMMA UsedWriter ==
  ASSUME IOTypes, FileInv, UsedInv, Writing,
         WriterScenario \/ WriterEngine \/ (FileOwn /\ UNCHANGED writerVars)
  PROVE  UsedInv'
  <1>0. /\ scenario = "writer" /\ UNCHANGED <<scenario, calls, call>>
        /\ calls \in Nat /\ flushed \in Nat
    BY DEF Writing, bufferVars, UsedInv
  <1>1. ASSUME WriterClient \/ EodCompleted PROVE UsedInv'
    <2>1. UNCHANGED <<flushed, kind, iopor, phase, result>>
      BY <1>1 DEF WriterClient, WriterWrite, Flush, WriterGone, LaunchFlush, EodCompleted, ioVars,
        fileVars, peerVars, opVars
    <2> QED
      BY <1>0, <2>1, UsedStill
  <1>2. ASSUME FlushStarts PROVE UsedInv'
    <2>1. phase = "none" /\ phase' = "resume" /\ UNCHANGED <<flushed, kind, iopor>>
      BY <1>2 DEF FlushStarts, Launch, peerVars, writerVars
    <2> QED
      BY <1>0, <2>1 DEF UsedInv, UsedBefore
  <1>3. ASSUME FlushFails PROVE UsedInv'
    <2>1. flushed' = flushed + 1 /\ flushed' > 0 /\ flushed' \in Nat
      BY <1>0, <1>3 DEF FlushFails
    <2>2. UNCHANGED <<kind, iopor, phase, result>>
      BY <1>3 DEF FlushFails, ioVars, fileVars, peerVars, opVars
    <2> QED
      BY <1>0, <2>1, <2>2 DEF UsedInv, UsedBefore
  <1>4. ASSUME FlushEnds PROVE UsedInv'
    <2>1. flushed' > 0 /\ flushed' \in Nat /\ phase' = "none" /\ UNCHANGED <<kind, iopor>>
      BY <1>0, <1>4 DEF FlushEnds, fileVars, peerVars
    <2> QED
      BY <1>0, <2>1 DEF UsedInv, UsedBefore
  <1>5. ASSUME UNCHANGED writerVars, FileOwn \/ PeerReads \/ FileCancel \/ FileGone
        PROVE  UsedInv'
    <2>1. UNCHANGED flushed
      BY <1>5 DEF writerVars
    <2> QED
      BY <1>0, <1>5, <2>1, UsedFile DEF FileOwn, FilePeer
  <1> QED
    BY <1>1, <1>2, <1>3, <1>4, <1>5 DEF WriterScenario, WriterEngine

------------------------------------------------------------------------------
(* What an event says of the connection (iosock.cpp:69-87).                *)
EventTrue(e) ==
  /\ e = {"ok"} => link = "up"
  /\ e = {"failed"} => link = "refused"
  /\ e = {"cancelled"} => link = "refused" \/ cancels > 0 \/ early

(* Wherever it is between the IO thread and the outcome.                   *)
EventsTrue ==
  /\ EventTrue(engif.r) /\ EventTrue(outcome)
  /\ \A t \in {"io", "client"} : EventTrue(notifier[t].event)

(* The exchange of connest() with the IO thread, unless the client cancels,*)
(* connect() succeeds at once or the fresh socket is reported.             *)
ConnectionExchange ==
  cancels = 0 /\ ~atOnce /\ ~early =>
    /\ notifier["client"].at = "out"
    /\ ~(Armed /\ Telling) /\ ~(Armed /\ engif.completed) /\ ~(Telling /\ engif.completed)
    /\ phase = "resume" => engif.completed
    /\ link \in {"none", "fresh"} => ~Telling /\ ~engif.completed
    /\ outcome # {} \/ ~live => ~Armed /\ ~Telling

(* The invariant of a connection.                                          *)
ConnectionInv ==
  /\ EventsTrue /\ ConnectionExchange
  /\ link \in {"none", "fresh", "trying", "up", "refused"}
  /\ outcome \in SUBSET Flags

(* notify() of a connecting socket goes on.                                *)
LEMMA ConnectNotifyStep ==
  ASSUME IOTypes, ConnectionInv, ConnectNotify
  PROVE  IOTypes' /\ ConnectionInv'
  <1> PICK t \in {"io", "client"} : Notify(t) /\ UNCHANGED connectVars
    BY DEF ConnectNotify
  <1>1. IOTypes'
    BY NotifyTypes
  <1>2. EventsTrue'
    <2>1. UNCHANGED <<link, cancels, early, outcome>>
      BY NotifySteps DEF connectVars
    <2>2. /\ engif'.r \in {engif.r, notifier[t].event}
          /\ \A u \in {"io", "client"} : notifier'[u].event = notifier[u].event
      BY NotifySteps
    <2> QED
      BY <2>1, <2>2 DEF ConnectionInv, EventsTrue, EventTrue
  <1>3. ConnectionExchange'
    BY NotifySteps DEF ConnectionInv, ConnectionExchange, connectVars, Armed, Telling
  <1> QED
    BY <1>1, <1>2, <1>3 DEF connectVars, ConnectionInv

(* The IO thread reports what the link is.                                 *)
LEMMA ConnectReports ==
  ASSUME IOTypes, ConnectionInv, NEW ready, NEW e \in SUBSET Flags, EpollWait(ready, e),
         \/ link = "fresh" /\ e = {"cancelled"} /\ early'
         \/ link = "up" /\ e = {"ok"}
         \/ link = "refused" /\ e \in {{"failed"}, {"cancelled"}},
         early => early', UNCHANGED <<link, atOnce, outcome>>
  PROVE  IOTypes' /\ ConnectionInv'
  <1>1. /\ NotifyCall("io", e) /\ Armed /\ epoll' = "idle"
        /\ UNCHANGED <<engif, phase, cancels, live>>
    BY DEF EpollWait, Armed, lifeVars
  <1>2. /\ notifier["io"].at = "out" /\ notifier'["io"] = [at |-> "result", event |-> e]
        /\ notifier'["client"] = notifier["client"]
    BY <1>1, NotifyCalled
  <1>3. EventsTrue'
    BY <1>1, <1>2 DEF ConnectionInv, EventsTrue, EventTrue
  <1>4. ConnectionExchange'
    BY <1>1, <1>2 DEF ConnectionInv, ConnectionExchange, Armed, Telling
  <1> QED
    BY <1>3, <1>4, EventTypes DEF ConnectionInv

(* The events and what Redy makes of them.                                 *)
LEMMA ConnectEventStep ==
  ASSUME IOTypes, ConnectionInv, ConnectEvent
  PROVE  IOTypes' /\ ConnectionInv'
  <1>1. /\ Redy({"OUT", "HUP"}) = {"cancelled"} /\ Redy({"OUT"}) = {"ok"}
        /\ Redy({"OUT", "ERR"}) = {"failed"} /\ Redy({"OUT", "ERR", "HUP"}) = {"cancelled"}
    BY DEF Redy
  <1>2. (early => early') /\ (link = "fresh" => early')
    BY Zenon DEF ConnectEvent
  <1>3. UNCHANGED <<link, atOnce, outcome>>
    BY DEF ConnectEvent
  <1>4. {"cancelled"} \in SUBSET Flags /\ {"ok"} \in SUBSET Flags /\ {"failed"} \in SUBSET Flags
    BY DEF Flags
  <1>5. CASE link = "fresh" /\ EpollWait({"OUT", "HUP"}, {"cancelled"})
    BY <1>2, <1>3, <1>4, <1>5, ConnectReports
  <1>6. CASE link = "up" /\ EpollWait({"OUT"}, {"ok"})
    BY <1>2, <1>3, <1>4, <1>6, ConnectReports
  <1>7. CASE link = "refused" /\ EpollWait({"OUT", "ERR"}, {"failed"})
    BY <1>2, <1>3, <1>4, <1>7, ConnectReports
  <1>8. CASE link = "refused" /\ EpollWait({"OUT", "ERR", "HUP"}, {"cancelled"})
    BY <1>2, <1>3, <1>4, <1>8, ConnectReports
  <1> QED
    BY <1>1, <1>5, <1>6, <1>7, <1>8, Zenon DEF ConnectEvent

(* A cancellation is counted before it can be an outcome.                  *)
LEMMA ConnectCancelStep ==
  ASSUME IOTypes, ConnectionInv, ConnectCancel
  PROVE  IOTypes' /\ ConnectionInv'
  <1>1. {"cancelled"} \in SUBSET Flags
    BY DEF Flags
  <1>2. NotifyCall("client", {"cancelled"}) /\ UNCHANGED <<epoll, engif, phase, live,
  connectVars>>
    BY DEF ConnectCancel, ClientNotifies
  <1>3. notifier'["client"] = [at |-> "result",
  event |-> {"cancelled"}] /\ notifier'["io"] = notifier["io"]
    BY <1>1, <1>2, NotifyCalled
  <1>4. IOTypes' /\ cancels' = cancels + 1
    BY <1>1, ClientTypes DEF ConnectCancel, ClientNotifies
  <1>5. cancels' > 0
    BY <1>4, CancelAssumption DEF IOTypes
  <1> QED
    BY <1>2, <1>3, <1>4, <1>5 DEF ConnectionInv, EventsTrue, EventTrue, ConnectionExchange,
       connectVars

(* The engine parks or resumes connest().                                  *)
LEMMA ConnectEngineStep ==
  ASSUME IOTypes, ConnectionInv, EngineStep, UNCHANGED connectVars
  PROVE  IOTypes' /\ ConnectionInv'
  <1>1. /\ UNCHANGED <<epoll, engif, notifier, cancels, live>>
        /\ phase' = "resume" => phase = "resume" \/ engif.completed
    BY DEF EngineStep, Check, Drop, Goes, lifeVars
  <1> QED
    BY <1>1, EngineTypes DEF ConnectionInv, EventsTrue, EventTrue, ConnectionExchange,
       connectVars, Armed, Telling

(* connest() yields what engif holds.                                      *)
LEMMA ConnectedMove ==
  ASSUME IOTypes, ConnectionInv, Connected
  PROVE  IOTypes' /\ ConnectionInv'
  <1>1. /\ UNCHANGED <<epoll, engif, notifier, posted, cancels, live, link, early, atOnce>>
        /\ phase = "resume" /\ phase' = "returned" /\ outcome' = engif.r
    BY DEF Connected
  <1>2. IOTypes' /\ outcome' \in SUBSET Flags
    BY <1>1 DEF IOTypes, Phases
  <1> QED
    BY <1>1, <1>2 DEF ConnectionInv, EventsTrue, EventTrue, ConnectionExchange, Armed, Telling

(* netConnectTo(): the socket is registered, then connect is called; one   *)
(* that no candidate was left for is refused, and its outcome says so.     *)
LEMMA ConnectToMove ==
  ASSUME IOTypes, ConnectionInv, ConnectionLives, scenario = "connection", netConnectTo
  PROVE  IOTypes' /\ ConnectionInv'
  <1>0. /\ UNCHANGED <<notifier, posted, phase, cancels, early>> /\ outcome = {}
        /\ phase \in {"none", "returned"} /\ link \in {"none", "fresh"}
    BY DEF netConnectTo, Register, ConnectCandidates, lifeVars, ConnectionLives
  <1>1. CASE Register
    <2>1. /\ link = "none" /\ link' = "fresh" /\ epoll' = "OUT"
          /\ UNCHANGED <<engif, atOnce, live, outcome>>
      BY <1>1 DEF Register, lifeVars
    <2> QED
      BY <1>0, <2>1 DEF IOTypes, ConnectionInv, EventsTrue, EventTrue, ConnectionExchange,
         ConnectionLives, Armed, Telling
  <1>2. CASE ConnectCandidates /\ link' = "up"
    <2>1. /\ link = "fresh" /\ atOnce' = TRUE /\ UNCHANGED <<epoll, outcome>>
          /\ engif' = [completed |-> TRUE, r |-> {"ok"}]
      BY <1>2, <1>0 DEF ConnectCandidates
    <2>2. {"ok"} \in SUBSET Flags
      BY DEF Flags
    <2>3. IOTypes'
      BY <1>0, <2>1, <2>2 DEF IOTypes
    <2>4. EventsTrue'
      BY <1>0, <1>2, <2>1 DEF ConnectionInv, EventsTrue, EventTrue
    <2> QED
      BY <1>2, <2>1, <2>3, <2>4 DEF ConnectionInv, ConnectionExchange
  <1>3. CASE ConnectCandidates /\ link' # "up"
    <2>1. link = "fresh" /\ UNCHANGED <<engif, atOnce>> /\ link' \in {"trying", "refused"}
      BY <1>3, <1>0 DEF ConnectCandidates
    <2>2. \/ UNCHANGED <<outcome, epoll, live>>
          \/ outcome' = {"exhausted"} /\ epoll' = "unknown" /\ link' = "refused"
      BY <1>3 DEF ConnectCandidates, lifeVars, Close
    <2>3. IOTypes'
      BY <1>0, <2>1, <2>2 DEF IOTypes
    <2>4. EventsTrue'
      BY <1>0, <2>1, <2>2 DEF ConnectionInv, EventsTrue, EventTrue
    <2>5. ConnectionExchange'
      BY <1>0, <2>1, <2>2 DEF ConnectionInv, ConnectionExchange, Armed, Telling
    <2>6. {"exhausted"} \in SUBSET Flags
      BY DEF Flags
    <2> QED
      BY <2>6, <2>1, <2>2, <2>3, <2>4, <2>5 DEF ConnectionInv
  <1> QED
    BY <1>1, <1>2, <1>3 DEF netConnectTo, ConnectCandidates

(* The other calls of the client.                                          *)
LEMMA ConnectClientStep ==
  ASSUME IOTypes, ConnectionInv, ConnectionLives, scenario = "connection",
         connest \/ LinkSettles \/ SocketGone \/ StreamRearms \/ StreamGone
  PROVE  IOTypes' /\ ConnectionInv'
  <1>1. CASE connest
    BY <1>1 DEF connest, lifeVars, connectVars, IOTypes, Phases, ConnectionInv, EventsTrue,
       EventTrue, ConnectionExchange, Armed, Telling
  <1>2. CASE LinkSettles
    BY <1>2 DEF LinkSettles, ioVars, lifeVars, IOTypes, ConnectionInv, EventsTrue, EventTrue,
       ConnectionExchange, Armed, Telling
  <1>3. CASE SocketGone
    BY <1>3 DEF SocketGone, connectVars, IOTypes, ConnectionInv, EventsTrue, EventTrue,
       ConnectionExchange, Armed, Telling
  <1>4. CASE StreamRearms
    BY <1>4 DEF StreamRearms, lifeVars, connectVars, IOTypes, ConnectionInv, EventsTrue,
       EventTrue, ConnectionExchange, Armed, Telling
  <1>5. CASE StreamGone
    BY <1>5 DEF StreamGone, IOTypes, ConnectionInv, EventsTrue, EventTrue, ConnectionExchange,
       Armed, Telling
  <1> QED
    BY <1>1, <1>2, <1>3, <1>4, <1>5

(* Every step of a scenario with a connection.                             *)
LEMMA ConnectionMoves ==
  ASSUME IOTypes, ConnectionInv, ConnectionLives, scenario = "connection",
         ConnectClient \/ LinkSettles \/ ConnectStep \/ ConnectEvent \/ ConnectNotify
  PROVE  IOTypes' /\ ConnectionInv'
  BY ConnectToMove, ConnectClientStep, ConnectCancelStep, ConnectedMove, ConnectEngineStep,
     ConnectEventStep, ConnectNotifyStep DEF ConnectClient, ConnectStep

------------------------------------------------------------------------------
(* Of a listener only the types are needed here.                           *)
LEMMA ListenerTypes ==
  ASSUME IOTypes,
         \/ Listen \/ ConnectionArrives \/ ConnectionGone \/ Shutdown
         \/ ListenStep \/ ListenEvent \/ ListenNotify
  PROVE  IOTypes'
  <1>1. CASE Listen
    BY <1>1 DEF Listen, IOTypes, Phases, lifeVars
  <1>2. CASE ConnectionArrives \/ ConnectionGone
    BY <1>2 DEF ConnectionArrives, ConnectionGone, IOTypes, ioVars, lifeVars
  <1>3. {"Close"} \in SUBSET Flags /\ {"Accept"} \in SUBSET Flags /\ {"Error"} \in SUBSET Flags
    BY DEF Flags
  <1>4. CASE Shutdown
    BY <1>3, <1>4, ClientTypes DEF Shutdown
  <1>5. CASE ListenNotify
    BY <1>5, NotifyTypes DEF ListenNotify
  <1>6. CASE ListenEvent
    BY <1>3, <1>6, EventTypes DEF ListenEvent
  <1>7. CASE ListenStep
    <2>1. CASE ListenTakesUp
      <3>1. /\ engif' = [engif EXCEPT !.completed = FALSE] /\ phase' = "take"
            /\ UNCHANGED <<epoll, notifier, posted, cancels>>
        BY <2>1 DEF ListenTakesUp, Running, Goes, lifeVars
      <3>2. engif' \in [completed : BOOLEAN, r : SUBSET Flags]
        BY <3>1 DEF IOTypes
      <3> QED
        BY <3>1, <3>2 DEF IOTypes, Phases
    <2>2. CASE ListenAwaits \/ AcceptBlocks
      BY <2>2 DEF ListenAwaits, AcceptBlocks, Arm, Goes, IOTypes, Phases, lifeVars
    <2>3. CASE ListenSwitch \/ AcceptFails
      BY <2>3 DEF ListenSwitch, AcceptFails, Stahp, Close, Arm, Goes, IOTypes, Phases, lifeVars
    <2>4. CASE Accept
      BY <2>4 DEF Accept, IOTypes, Phases
    <2>5. CASE EngineStep
      BY <2>5, EngineTypes
    <2> QED
      BY <1>7, <2>1, <2>2, <2>3, <2>4, <2>5 DEF ListenStep
  <1> QED
    BY <1>1, <1>2, <1>4, <1>5, <1>6, <1>7

------------------------------------------------------------------------------
(* CtrlC (ioctrcl.cpp:59-121): the count of the semaphore is a signal that *)
(* was heard, unless un() posts it, and un() joins the catcher.            *)
Semaphore ==
  /\ ctrlcEvent \in Int
  /\ un # "idle" => stahp
  /\ stahp /\ un = "idle" => catcher = "none"
  /\ ~stahp /\ (ctrlcEvent > 0 \/ catcher = "tests") => heard
  /\ catcher = "completes" => heard
  /\ future = "Completed" => heard

(* on() and un() were not called yet.                                      *)
LEMMA InitSemaphore == CtrlCInit => Semaphore
  BY DEF CtrlCInit, Semaphore

(* on(), un() and the handler of SIGINT.                                   *)
LEMMA SemaphoreClient == ASSUME Semaphore, CtrlCClient PROVE Semaphore'
  <1>1. CASE On
    BY <1>1 DEF On, Semaphore
  <1>2. CASE OnAgain
    BY <1>2 DEF OnAgain, Semaphore, signalVars, catcherVars, futureVars
  <1>3. CASE Un
    BY <1>3 DEF Un, Semaphore, signalVars, futureVars
  <1>4. CASE Signal
    <2>1. (heard => heard') /\ (ctrlcEvent # Destroyed => heard')
      BY <1>4, Zenon DEF Signal
    <2>2. UNCHANGED <<stahp, future, un>> /\ ctrlcEvent' = Posted
      BY <1>4 DEF Signal, futureVars
    <2>3. UNCHANGED catcher \/ (stahp /\ catcher = "waits" /\ catcher' = "tests")
      BY <1>4 DEF Signal
    <2>4. ctrlcEvent' \in Int /\ (ctrlcEvent' > 0 => ctrlcEvent # Destroyed)
      BY <2>2 DEF Semaphore, Posted, Destroyed
    <2>5. stahp /\ un = "idle" => catcher' = catcher
      BY <2>3 DEF Semaphore
    <2> QED
      BY <2>1, <2>2, <2>3, <2>4, <2>5 DEF Semaphore
  <1> QED
    BY <1>1, <1>2, <1>3, <1>4 DEF CtrlCClient

(* The rest of un().                                                       *)
LEMMA SemaphoreUn == ASSUME Semaphore, UnStep PROVE Semaphore'
  <1>1. CASE UnPosts
    BY <1>1 DEF UnStep, UnPosts, Semaphore, signalVars, futureVars, Posted, Destroyed
  <1>2. CASE UnExpired
    BY <1>2 DEF UnStep, UnExpired, Semaphore, signalVars, futureVars
  <1>3. CASE UnCancels
    BY <1>3 DEF UnStep, UnCancels, Semaphore, signalVars
  <1>4. CASE UnNotifies
    BY <1>4 DEF UnStep, UnNotifies, Semaphore, signalVars
  <1>5. CASE UnJoins
    BY <1>5 DEF UnStep, UnJoins, Semaphore, signalVars, futureVars
  <1> QED
    BY <1>1, <1>2, <1>3, <1>4, <1>5 DEF UnStep

(* The catcher.                                                            *)
LEMMA SemaphoreCatcher == ASSUME Semaphore, Catcher PROVE Semaphore'
  <1>1. CASE CatcherWaits
    BY <1>1 DEF Catcher, CatcherWaits, Semaphore, signalVars, futureVars
  <1>2. CASE CatcherTests
    BY <1>2 DEF Catcher, CatcherTests, Semaphore, signalVars, futureVars
  <1>3. CASE CatcherCompletes
    BY <1>3 DEF Catcher, CatcherCompletes, Semaphore, signalVars
  <1>4. CASE CatcherNotifies
    BY <1>4 DEF Catcher, CatcherNotifies, Semaphore, signalVars
  <1>5. CASE CatcherEnds
    BY <1>5 DEF Catcher, CatcherEnds, Semaphore, signalVars, futureVars, Destroyed
  <1> QED
    BY <1>1, <1>2, <1>3, <1>4, <1>5 DEF Catcher
------------------------------------------------------------------------------
(* The invariant of all scenarios.                                         *)
ExchangeInv ==
  /\ IOTypes /\ Semaphore
  /\ IsFile => FileInv /\ UsedInv
  /\ scenario = "connection" => ConnectionInv
  /\ scenario # "connection" => outcome = {}
  /\ scenario = "interrupt" => live

(* It holds of a resource that was just made.                              *)
LEMMA InitExchange == Init => ExchangeInv
  <1> SUFFICES ASSUME Init PROVE ExchangeInv
    OBVIOUS
  <1>1. /\ engif = [completed |-> FALSE, r |-> {}] /\ epoll \in {"idle", "unknown"}
        /\ notifier = [t \in {"io", "client"} |-> [at |-> "out", event |-> {}]]
        /\ phase = "none" /\ live = TRUE /\ (iopor => epoll # "unknown")
        /\ (~iopor => epoll = "unknown")
    BY DEF Init, IOInit
  <1>2. /\ iopor = (kind = "socket") /\ (kind = "regular" => closed) /\ disturbed = FALSE
        /\ result.status = "none" /\ calls = 0 /\ flushed = 0
    BY DEF Init, FileInit, NoResult, BufferInit, WriterInit
  <1>3. outcome = {} /\ link = "none"
    BY DEF Init, ConnectInit
  <1>4. IOTypes /\ Semaphore
    BY InitTypes, InitSemaphore DEF Init
  <1>5. FileInv /\ UsedInv
    BY <1>1, <1>2 DEF FileInv, FileExchange, AsExpected, Registered, FailedTruly, Armed, Telling,
      UsedInv
  <1>6. ConnectionInv
    BY <1>1, <1>3 DEF ConnectionInv, EventsTrue, EventTrue, ConnectionExchange, Armed, Telling
  <1> QED
    BY <1>1, <1>2, <1>3, <1>4, <1>5, <1>6 DEF ExchangeInv

(* A step of a file.                                                       *)
LEMMA ExchangeFile == ASSUME ExchangeInv, FileMoves PROVE ExchangeInv'
  <1>1. IsFile /\ IsFile' /\ scenario' = scenario /\ UNCHANGED <<connectVars, ctrlcVars>>
    BY DEF FileMoves, Reader, Writing, IsFile
  <1>2. IOTypes' /\ FileInv'
    BY <1>1, FileSteps DEF ExchangeInv, FileMoves, FileOwn
  <1>3. UsedInv'
    BY <1>1, UsedReader, UsedWriter DEF ExchangeInv, FileMoves
  <1>4. Semaphore'
    BY <1>1 DEF ExchangeInv, Semaphore, ctrlcVars, signalVars, catcherVars, futureVars
  <1> QED
    BY <1>1, <1>2, <1>3, <1>4 DEF ExchangeInv, IsFile, connectVars

(* A step of a listener.                                                   *)
LEMMA ExchangeListener ==
  ASSUME ExchangeInv, Listener,
         \/ Listen \/ ConnectionArrives \/ ConnectionGone \/ Shutdown
         \/ ListenStep \/ ListenEvent \/ ListenNotify
  PROVE  ExchangeInv'
  <1>1. /\ scenario = "listener" /\ scenario' = scenario
        /\ UNCHANGED <<fileVars, connectVars, ctrlcVars>>
    BY DEF Listener
  <1>2. IOTypes'
    BY ListenerTypes DEF ExchangeInv
  <1>3. Semaphore'
    BY <1>1 DEF ExchangeInv, Semaphore, ctrlcVars, signalVars, catcherVars, futureVars
  <1> QED
    BY <1>1, <1>2, <1>3 DEF ExchangeInv, IsFile, connectVars, fileVars, opVars

(* A step of a connection.                                                 *)
LEMMA ExchangeConnection ==
  ASSUME ExchangeInv, TicketInv, Connection,
         ConnectClient \/ LinkSettles \/ ConnectStep \/ ConnectEvent \/ ConnectNotify
  PROVE  ExchangeInv'
  <1>1. /\ scenario = "connection" /\ scenario' = scenario
        /\ UNCHANGED <<fileVars, ctrlcVars>>
    BY DEF Connection
  <1>2. IOTypes' /\ ConnectionInv'
    BY <1>1, ConnectionMoves DEF ExchangeInv, TicketInv
  <1>3. Semaphore'
    BY <1>1 DEF ExchangeInv, Semaphore, ctrlcVars, signalVars, catcherVars, futureVars
  <1> QED
    BY <1>1, <1>2, <1>3 DEF ExchangeInv, IsFile, fileVars, opVars

(* A step of CtrlC.                                                        *)
LEMMA ExchangeInterrupt ==
  ASSUME ExchangeInv, Interrupt, CtrlCClient \/ UnStep \/ Catcher
  PROVE  ExchangeInv'
  <1>1. Semaphore'
    BY SemaphoreClient, SemaphoreUn, SemaphoreCatcher DEF ExchangeInv
  <1>2. /\ scenario = "interrupt" /\ scenario' = scenario
        /\ UNCHANGED <<ioVars, fileVars, connectVars>>
    BY DEF Interrupt, resourceVars
  <1> QED
    BY <1>1, <1>2 DEF ExchangeInv, IsFile, IOTypes, ioVars, lifeVars, fileVars, opVars,
       connectVars

(* A step of none of them: the IO thread ends, or nothing changes.         *)
LEMMA ExchangeStill ==
  ASSUME ExchangeInv, UNCHANGED <<scenario, resourceVars, ctrlcVars>>,
         UNCHANGED <<epoll, engif, notifier, posted, phase, cancels, live>>
  PROVE  ExchangeInv'
  <1>1. UNCHANGED <<fileVars, connectVars>>
    BY DEF resourceVars
  <1>2. Semaphore'
    BY DEF ExchangeInv, Semaphore, ctrlcVars, signalVars, catcherVars, futureVars
  <1>3. IOTypes'
    BY DEF ExchangeInv, IOTypes
  <1>4. IsFile => FileInv' /\ UsedInv'
    <2>1. IsFile => FileInv'
      BY <1>1, StillFile DEF ExchangeInv
    <2>2. UNCHANGED <<kind, iopor, result, calls, call, flushed>>
      BY DEF resourceVars, fileVars, peerVars, opVars, bufferVars, writerVars
    <2>3. IsFile => UsedInv'
      BY <2>2, UsedStill DEF ExchangeInv
    <2> QED
      BY <2>1, <2>3
  <1>5. scenario = "connection" => ConnectionInv'
    BY <1>1 DEF ExchangeInv, ConnectionInv, EventsTrue, EventTrue, ConnectionExchange, Armed,
      Telling, connectVars
  <1> QED
    BY <1>1, <1>2, <1>3, <1>4, <1>5 DEF ExchangeInv, IsFile, fileVars, opVars, connectVars

(* Every step keeps it.                                                    *)
LEMMA ExchangeSteps == TicketInv /\ ExchangeInv /\ [Next]_vars => ExchangeInv'
  <1> SUFFICES ASSUME TicketInv, ExchangeInv, [Next]_vars PROVE ExchangeInv'
    OBVIOUS
  <1>1. CASE Client
    BY <1>1, ExchangeFile, ExchangeListener, ExchangeConnection, ExchangeInterrupt
    DEF Client, FileMoves
  <1>2. CASE WorkerStep
    BY <1>2, ExchangeFile, ExchangeListener, ExchangeConnection DEF WorkerStep, FileMoves, FileOwn
  <1>3. CASE IOStep
    <2>1. CASE IOThreadEnds /\ UNCHANGED <<scenario, resourceVars, ctrlcVars>>
      BY <2>1, ExchangeStill DEF IOThreadEnds
    <2>2. CASE FileMoves
      BY <2>2, ExchangeFile
    <2>3. CASE Listener /\ (ListenEvent \/ ListenNotify)
      BY <2>3, ExchangeListener
    <2>4. CASE Connection /\ (ConnectEvent \/ ConnectNotify)
      BY <2>4, ExchangeConnection
    <2>5. CASE Interrupt /\ UnStep
      BY <2>5, ExchangeInterrupt
    <2> QED
      BY <1>3, <2>1, <2>2, <2>3, <2>4, <2>5 DEF IOStep, FileMoves, FileOwn
  <1>4. CASE CatcherStep
    BY <1>4, ExchangeInterrupt DEF CatcherStep
  <1>5. CASE UNCHANGED vars
    BY <1>5, ExchangeStill DEF vars, ioVars, lifeVars
  <1> QED
    BY <1>1, <1>2, <1>3, <1>4, <1>5 DEF Next

(* What ExchangeInv says of the outcomes ...                               *)
LEMMA ExchangeMeansTrue == ExchangeInv => OutcomesAreTrue
  <1> SUFFICES ASSUME ExchangeInv PROVE OutcomesAreTrue
    OBVIOUS
  <1>1. IsFile => FailsForCause
    BY DEF ExchangeInv, FileInv, FailedTruly, UsedInv, FailsForCause
  <1>2. /\ outcome = {"ok"} => link = "up"
        /\ outcome = {"failed"} => link = "refused"
        /\ outcome = {"cancelled"} => link = "refused" \/ cancels > 0 \/ early
    BY DEF ExchangeInv, ConnectionInv, EventsTrue, EventTrue
  <1>3. future = "Completed" => heard
    BY DEF ExchangeInv, Semaphore
  <1> QED
    BY <1>1, <1>2, <1>3 DEF OutcomesAreTrue

(* ... and of the time between operations.                                 *)
LEMMA ExchangeMeansQuiet == ExchangeInv => QuietBetweenOperations
  <1> SUFFICES ASSUME ExchangeInv PROVE QuietBetweenOperations
    OBVIOUS
  <1>0. notifier["io"] \in Notes /\ DOMAIN notifier = {"io", "client"}
    BY DEF ExchangeInv, IOTypes
  <1>1. CatcherQuiet
    BY DEF ExchangeInv, Semaphore, CatcherQuiet
  <1>2. FileQuiet
    <2> SUFFICES ASSUME IsFile, ~disturbed, phase = "none" \/ ~live PROVE Clean
      BY DEF FileQuiet
    <2>1. phase = "none"
      BY DEF ExchangeInv, FileInv, Registered
    <2>2. ~Armed /\ ~Telling /\ ~engif.completed /\ notifier["client"].at \in {"out", "post"}
      BY <2>1 DEF ExchangeInv, FileInv, FileExchange
    <2> QED
      BY <1>0, <2>2 DEF Clean, Armed, Telling, Notes
  <1>3. ConnectionQuiet
    BY <1>0 DEF ExchangeInv, ConnectionInv, ConnectionExchange, ConnectionQuiet, Armed, Telling,
      Notes
  <1> QED
    BY <1>1, <1>2, <1>3 DEF QuietBetweenOperations

(* The exchange between the IO thread and the generators, for any number of*)
(* operations, cancellations, signals and bytes (io.cpp:57-195,            *)
(* impls.hpp:37-51).                                                       *)
THEOREM ExchangeHolds == Spec => []ExchangeInv
  BY InitExchange, ExchangeSteps, EveryResourceHasATicket, PTL DEF Spec

(* What connections and CtrlC report is so, and an operation of a file that*)
(* fails was disturbed itself, or its pipe hung up, or its file is regular *)
(* and was used before (io.hpp:78-80, io.cpp:57-79, iosock.cpp:69-87,      *)
(* ioctrcl.cpp:82-85).                                                     *)
THEOREM OutcomesTrue == Spec => []OutcomesAreTrue
  BY ExchangeHolds, ExchangeMeansTrue, PTL

(* An undisturbed operation of a file leaves nothing armed, on its way or  *)
(* in engif; a connection that is gone is not armed; un() leaves no catcher*)
(* (io.cpp:41-44, iosock.cpp:69-87, ioctrcl.cpp:109-121).                  *)
THEOREM QuietBetween == Spec => []QuietBetweenOperations
  BY ExchangeHolds, ExchangeMeansQuiet, PTL

------------------------------------------------------------------------------

(* The bytes behind position a, up to b.                                   *)
Run(a, b) == [i \in 1..(b - a) |-> a + i]

(* There are b - a of them ...                                             *)
LEMMA RunLen ==
  ASSUME NEW a \in Nat, NEW b \in Nat, a <= b
  PROVE  Run(a, b) \in Seq(Nat) /\ Len(Run(a, b)) = b - a
  <1>1. Run(a, b) \in [1..(b - a) -> Nat] /\ b - a \in Nat
    BY DEF Run
  <1>2. Run(a, b) \in Seq(Nat)
    BY <1>1, SeqDef
  <1>3. DOMAIN Run(a, b) = 1..(b - a)
    BY DEF Run
  <1> QED
    BY <1>1, <1>2, <1>3, LenProperties

(* ... of which the i-th is a + i ...                                      *)
LEMMA RunAt ==
  ASSUME NEW a \in Nat, NEW b \in Nat, a <= b, NEW i \in 1..(b - a)
  PROVE  Run(a, b)[i] = a + i
  BY DEF Run

(* ... and there is none only from a place to itself.                      *)
LEMMA RunEmpty ==
  ASSUME NEW a \in Nat, NEW b \in Nat, a <= b
  PROVE  Run(a, b) = <<>> <=> a = b
  <1>1. Run(a, b) \in Seq(Nat) /\ Len(Run(a, b)) = b - a
    BY RunLen
  <1> QED
    BY <1>1, EmptySeq

(* Bytes that follow on others make one run with them ...                  *)
LEMMA RunJoin ==
  ASSUME NEW a \in Nat, NEW b \in Nat, NEW c \in Nat, a <= b, b <= c
  PROVE  Run(a, b) \o Run(b, c) = Run(a, c)
  <1> DEFINE s == Run(a, b) t == Run(b, c) u == Run(a, c)
  <1>0. a <= c
    OBVIOUS
  <1>1. s \in Seq(Nat) /\ t \in Seq(Nat) /\ u \in Seq(Nat)
    BY <1>0, RunLen, Zenon
  <1>2. Len(s) = b - a /\ Len(t) = c - b /\ Len(u) = c - a
    BY <1>0, RunLen, Zenon
  <1> HIDE DEF s, t, u
  <1>3. /\ s \o t \in Seq(Nat) /\ Len(s \o t) = Len(s) + Len(t)
        /\ \A i \in 1 .. Len(s) + Len(t) : (s \o t)[i] = IF i <= Len(s) THEN s[i] ELSE t[i - Len(s)]
    BY <1>1, ConcatProperties
  <1>4. ASSUME NEW i \in 1 .. Len(s \o t) PROVE (s \o t)[i] = u[i]
    <2>0. i \in 1..(c - a)
      BY <1>2, <1>3, <1>4
    <2>1. u[i] = a + i
      BY <1>0, <2>0, RunAt, Zenon DEF u
    <2>2. CASE i <= b - a
      <3>1. i \in 1..(b - a)
        BY <2>0, <2>2
      <3>2. s[i] = a + i
        BY <3>1, RunAt, Zenon DEF s
      <3> QED
        BY <1>2, <1>3, <1>4, <2>0, <2>1, <2>2, <3>2
    <2>3. CASE i > b - a
      <3>1. i - (b - a) \in 1..(c - b)
        BY <1>2, <1>3, <1>4, <2>3
      <3>2. t[i - (b - a)] = b + (i - (b - a))
        BY <3>1, RunAt, Zenon DEF t
      <3> QED
        BY <1>2, <1>3, <1>4, <2>1, <2>3, <3>2
    <2> QED
      BY <1>2, <2>2, <2>3
  <1>5. Len(s \o t) = Len(u)
    BY <1>2, <1>3
  <1>6. s \o t = u
    BY <1>1, <1>3, <1>4, <1>5, SeqEqual
  <1> QED
    BY <1>6 DEF s, t, u

(* ... and a run is split at any place into two ...                        *)
LEMMA RunSplit ==
  \A a, b, c \in Nat : a <= b /\ b <= c =>
    /\ SubSeq(Run(a, c), 1, b - a) = Run(a, b)
    /\ SubSeq(Run(a, c), b - a + 1, Len(Run(a, c))) = Run(b, c)
  <1> TAKE a, b, c \in Nat
  <1> HAVE a <= b /\ b <= c
  <1> DEFINE r == Run(a, c) s == SubSeq(r, 1, b - a) t == SubSeq(r, b - a + 1, c - a)
  <1>0. a <= c
    OBVIOUS
  <1>1. Len(r) = c - a /\ \A i \in 1..(c - a) : r[i] = a + i /\ r[i] \in Nat
    <2>1. Len(r) = c - a
      BY <1>0, RunLen, Zenon
    <2>2. \A i \in 1..(c - a) : r[i] = a + i
      BY <1>0, RunAt, Zenon
    <2>3. \A i \in 1..(c - a) : a + i \in Nat
      OBVIOUS
    <2> QED
      BY <2>1, <2>2, <2>3, Zenon
  <1>2. /\ s \in Seq(Nat) /\ Len(s) = b - a
        /\ \A i \in 1..(b - a) : s[i] = r[1 + i - 1]
    <2>1. \A i \in 1..(b - a) : r[i] \in Nat
      BY <1>1
    <2> QED
      BY <2>1, SubSeqProperties
  <1>3. /\ t \in Seq(Nat) /\ Len(t) = c - b
        /\ \A i \in 1..(c - b) : t[i] = r[(b - a + 1 + i) - 1]
    <2>1. \A i \in (b - a + 1)..(c - a) : r[i] \in Nat
      BY <1>1
    <2>2. (c - a) - (b - a + 1) + 1 = c - b
      OBVIOUS
    <2> QED
      BY <2>1, <2>2, SubSeqProperties
  <1> HIDE DEF r, s, t
  <1>4. s = Run(a, b)
    <2>1. Run(a, b) \in Seq(Nat) /\ Len(Run(a, b)) = b - a
      BY RunLen, Zenon
    <2>2. \A i \in 1..(b - a) : Run(a, b)[i] = a + i
      BY RunAt, Zenon
    <2>3. \A i \in 1..(b - a) : s[i] = a + i
      BY <1>1, <1>2
    <2> QED
      BY <1>2, <2>1, <2>2, <2>3, SeqEqual
  <1>5. t = Run(b, c)
    <2>1. Run(b, c) \in Seq(Nat) /\ Len(Run(b, c)) = c - b
      BY RunLen, Zenon
    <2>2. \A i \in 1..(c - b) : Run(b, c)[i] = b + i
      BY RunAt, Zenon
    <2>3. \A i \in 1..(c - b) : t[i] = b + i
      <3> TAKE i \in 1..(c - b)
      <3>1. (b - a + 1 + i) - 1 \in 1..(c - a) /\ a + ((b - a + 1 + i) - 1) = b + i
        OBVIOUS
      <3>2. t[i] = r[(b - a + 1 + i) - 1]
        BY <1>3
      <3> QED
        BY <1>1, <3>1, <3>2
    <2> QED
      BY <1>3, <2>1, <2>2, <2>3, SeqEqual
  <1> QED
    BY <1>1, <1>4, <1>5 DEF r, s, t

(* ... one of which has the first n.                                       *)
LEMMA RunParts ==
  \A a, n, c \in Nat : a + n <= c =>
    /\ SubSeq(Run(a, c), 1, n) = Run(a, a + n)
    /\ SubSeq(Run(a, c), n + 1, Len(Run(a, c))) = Run(a + n, c)
  <1> TAKE a, n, c \in Nat
  <1> HAVE a + n <= c
  <1> DEFINE b == a + n
  <1>1. b \in Nat /\ a <= b /\ b <= c /\ b - a = n
    OBVIOUS
  <1> HIDE DEF b
  <1>2. /\ SubSeq(Run(a, c), 1, b - a) = Run(a, b)
        /\ SubSeq(Run(a, c), b - a + 1, Len(Run(a, c))) = Run(b, c)
    BY <1>1, RunSplit, ZenonT(60)
  <1>3. /\ SubSeq(Run(a, c), 1, n) = Run(a, b)
        /\ SubSeq(Run(a, c), n + 1, Len(Run(a, c))) = Run(b, c)
    BY <1>1, <1>2
  <1> QED
    BY <1>3 DEF b

(* The next byte is appended.                                              *)
LEMMA RunGrows ==
  ASSUME NEW a \in Nat, NEW b \in Nat, a <= b
  PROVE  Append(Run(a, b), b + 1) = Run(a, b + 1)
  <1> DEFINE s == Run(a, b) t == Append(s, b + 1) u == Run(a, b + 1)
  <1>0. a <= b + 1 /\ b + 1 \in Nat
    OBVIOUS
  <1>1. s \in Seq(Nat) /\ u \in Seq(Nat) /\ Len(s) = b - a /\ Len(u) = (b + 1) - a
    BY <1>0, RunLen, Zenon
  <1>2. \A i \in 1..(b - a) : s[i] = a + i
    BY RunAt, Zenon
  <1>3. \A i \in 1..((b + 1) - a) : u[i] = a + i
    BY <1>0, RunAt, Zenon
  <1> HIDE DEF s, u
  <1>4. /\ t \in Seq(Nat) /\ Len(t) = Len(s) + 1 /\ t[Len(s) + 1] = b + 1
        /\ \A i \in 1..Len(s) : t[i] = s[i]
    BY <1>1, AppendProperties
  <1> HIDE DEF t
  <1>5. \A i \in 1..Len(t) : t[i] = u[i]
    <2> TAKE i \in 1..Len(t)
    <2>1. i \in 1..((b + 1) - a) /\ (i \in 1..(b - a) \/ i = b - a + 1)
      BY <1>1, <1>4
    <2>2. CASE i \in 1..(b - a)
      BY <1>1, <1>2, <1>3, <1>4, <2>1, <2>2
    <2>3. CASE i = b - a + 1
      BY <1>1, <1>3, <1>4, <2>1, <2>3
    <2> QED
      BY <2>1, <2>2, <2>3
  <1>6. t = u
    BY <1>1, <1>4, <1>5, SeqEqual
  <1> QED
    BY <1>6 DEF t, s, u

(* The first n bytes, as the properties write them.                        *)
LEMMA RunFirst == ASSUME NEW n \in Nat PROVE Run(0, n) = [i \in 1..n |-> i]
  <1>1. n - 0 = n /\ \A i \in 1..n : 0 + i = i
    OBVIOUS
  <1> QED
    BY <1>1 DEF Run

(* UpTo(s, n) is the first n elements of s, or all of fewer.               *)
LEMMA UpToIs ==
  ASSUME NEW S, NEW s \in Seq(S), NEW n \in Nat
  PROVE  /\ UpTo(s, n) \in Seq(S) /\ Len(UpTo(s, n)) = Lesser(n, Len(s))
         /\ \A i \in 1..Lesser(n, Len(s)) : UpTo(s, n)[i] = s[i]
         /\ Lesser(n, Len(s)) \in 0..Len(s)
  <1> DEFINE k == Lesser(n, Len(s))
  <1>1. k \in 0..Len(s) /\ Len(s) \in Nat
    BY LenProperties DEF Lesser
  <1>2. \A i \in 1..k : s[i] \in S /\ 1 + i - 1 = i
    BY <1>1, ElementOfSeq
  <1>3. k - 1 + 1 = k /\ (1 <= k \/ k = 0)
    BY <1>1
  <1> HIDE DEF k
  <1>4. /\ SubSeq(s, 1, k) \in Seq(S)
        /\ Len(SubSeq(s, 1, k)) = k
        /\ \A i \in 1..k : SubSeq(s, 1, k)[i] = s[i]
    BY <1>1, <1>2, <1>3, SubSeqProperties
  <1> QED
    BY <1>1, <1>4 DEF k, UpTo

(* After(s, n) is a sequence of the same elements ...                      *)
LEMMA AfterIs ==
  ASSUME NEW S, NEW s \in Seq(S), NEW n \in Nat
  PROVE  After(s, n) \in Seq(S)
  <1>1. Len(s) \in Nat /\ \A i \in (n + 1)..Len(s) : s[i] \in S
    BY LenProperties, ElementOfSeq
  <1> QED
    BY <1>1, SubSeqProperties DEF After

(* ... and the two make up s: a read (io.cpp:349-364) loses nothing.       *)
LEMMA SplitAt ==
  ASSUME NEW S, NEW s \in Seq(S), NEW n \in Nat
  PROVE  UpTo(s, n) \o After(s, n) = s
  <1>0. Len(s) \in Nat
    BY LenProperties
  <1>1. CASE n <= Len(s)
    <2>1. Lesser(n, Len(s)) = n
      BY <1>0, <1>1 DEF Lesser
    <2>2. 1 \in 1..(Len(s) + 1) /\ n \in (1 - 1)..Len(s) /\ Len(s) \in n..Len(s)
      BY <1>0, <1>1
    <2>3. SubSeq(s, 1, n) \o SubSeq(s, n + 1, Len(s)) = SubSeq(s, 1, Len(s))
      BY <2>2, ConcatAdjacentSubSeq
    <2> QED
      BY <2>1, <2>3, SubSeqFull DEF UpTo, After
  <1>2. CASE ~(n <= Len(s))
    <2>1. Lesser(n, Len(s)) = Len(s)
      BY <1>0, <1>2 DEF Lesser
    <2>2. After(s, n) = <<>>
      BY <1>0, <1>2, SubSeqEmpty DEF After
    <2>3. UpTo(s, n) = s
      BY <2>1, SubSeqFull DEF UpTo
    <2> QED
      BY <2>2, <2>3, ConcatEmptySeq
  <1> QED
    BY <1>1, <1>2

(* A set of numbers that is not empty has a least one.                     *)
LEMMA LeastOf ==
  ASSUME NEW S \in SUBSET Nat, S # {}
  PROVE  Min(S) \in S /\ \A y \in S : Min(S) <= y
  <1> DEFINE less == {ss \in Nat \X Nat : ss[1] < ss[2]}
  <1>1. IsWellFoundedOn(less, Nat)
    BY NatLessThanWellFounded, Zenon DEF OpToRel
  <1>0. \A y, z \in Nat : y < z => <<y, z>> \in less
    <2> TAKE y, z \in Nat
    <2>1. <<y, z>> \in Nat \X Nat /\ <<y, z>>[1] = y /\ <<y, z>>[2] = z
      OBVIOUS
    <2> QED
      BY <2>1, Zenon
  <1> HIDE DEF less
  <1>2. PICK x \in S : \A y \in S : ~(<<y, x>> \in less)
    BY <1>1, WFMin
  <1>3. \A y \in S : x <= y
    <2> TAKE y \in S
    <2>1. y \in Nat /\ x \in Nat /\ ~(y < x)
      BY <1>0, <1>2
    <2> QED
      BY <2>1
  <1>4. \E z \in S : \A y \in S : z <= y
    BY <1>3
  <1> QED
    BY <1>4 DEF Min

(* Min(Ends(s)) is the first place in s where the pattern ends ...         *)
LEMMA FirstEnd ==
  ASSUME NEW S, NEW s \in Seq(S), Ends(s) # {}
  PROVE  /\ Min(Ends(s)) \in Ends(s) /\ Min(Ends(s)) \in 1..Len(s)
         /\ \A j \in Ends(s) : Min(Ends(s)) <= j
  <1>0. Len(s) \in Nat
    BY LenProperties
  <1>1. Ends(s) \in SUBSET Nat /\ \A j \in Ends(s) : j \in 1..Len(s)
    BY <1>0, BufferAssumption DEF Ends
  <1> QED
    BY <1>1, LeastOf

(* ... and the only one in the bytes up to it.                             *)
LEMMA OnlyEnd ==
  ASSUME NEW S, NEW s \in Seq(S), Ends(s) # {}
  PROVE  LET m == Min(Ends(s)) IN Len(UpTo(s, m)) = m /\ Ends(UpTo(s, m)) = {m}
  <1> DEFINE m == Min(Ends(s)) t == UpTo(s, m)
  <1>0. Len(s) \in Nat
    BY LenProperties
  <1>1. m \in Ends(s) /\ m \in 1..Len(s) /\ \A j \in Ends(s) : m <= j
    BY FirstEnd
  <1> HIDE DEF m
  <1>2. Lesser(m, Len(s)) = m /\ m \in Nat
    BY <1>0, <1>1 DEF Lesser
  <1>3. Len(t) = m /\ \A i \in 1..m : t[i] = s[i]
    BY <1>2, UpToIs
  <1> HIDE DEF t
  <1>4. ASSUME NEW j \in Len(Pattern)..m, NEW k \in 1..Len(Pattern)
        PROVE  t[j - Len(Pattern) + k] = s[j - Len(Pattern) + k]
    <2>1. j - Len(Pattern) + k \in 1..m
      BY <1>2, BufferAssumption
    <2> QED
      BY <1>3, <2>1
  <1>5. Ends(t) = {j \in Ends(s) : j <= m}
    <2>1. ASSUME NEW j PROVE j \in Ends(t) <=> j \in Ends(s) /\ j <= m
      <3>1. j \in Len(Pattern)..Len(t) <=> j \in Len(Pattern)..Len(s) /\ j <= m
        BY <1>0, <1>1, <1>2, <1>3, BufferAssumption
      <3>2. CASE j \in Len(Pattern)..m
        BY <3>1, <3>2, <1>3, <1>4 DEF Ends
      <3>3. CASE j \notin Len(Pattern)..m
        BY <3>1, <3>3, <1>3 DEF Ends
      <3> QED
        BY <3>2, <3>3
    <2> QED
      BY <2>1
  <1>6. \A j \in Ends(s) : j <= m <=> j = m
    <2>1. \A j \in Ends(s) : j \in Int
      BY <1>0, BufferAssumption DEF Ends
    <2> QED
      BY <1>1, <1>2, <2>1
  <1>7. Ends(t) = {m}
    BY <1>1, <1>5, <1>6
  <1> QED
    BY <1>3, <1>7 DEF m, t
------------------------------------------------------------------------------
(* How an operation may end.                                               *)
Statuses == {"none", "ok", "rearm", "cancelled", "unexpected"}

(* An operation is on its way.                                             *)
Busy == phase \notin {"none", "returned"}

(* What an operation does to the bytes is done to these.                   *)
dataVars == <<sent, closed, taken, wrote, op, data, result, failed>>

(* What a read returns with: the end was met, or there is enough.          *)
ReadDone(d) == (closed /\ sent = taken) \/ (op.bytes > 0 /\ Len(d) >= op.bytes)

(* The data of a file and of its operation.  Nothing is left of one that   *)
(* has returned but its result: a read that succeeds has met the end or    *)
(* has read enough (io.cpp:157-174), one that fails gives up what it had   *)
(* read.                                                                   *)
FileData ==
  /\ taken \in Nat /\ sent \in Nat /\ taken <= sent /\ sent <= InSize
  /\ result.status \in Statuses /\ result.data \in InBytes
  /\ op \in Operations \cup {Idle}
  /\ data \in Seq(Nat) /\ (op.event = "IN" => data \in InBytes)
  /\ ~Busy => data = <<>>
  /\ phase = "returned" => /\ result.status # "none"
                           /\ result.status # "ok" => result.status \in failed /\ result.data = <<>>
  /\ phase = "returned" /\ op.event = "IN" /\ result.status = "ok" => ReadDone(result.data)

(* What the kernel takes.                                                  *)
SpaceInv == space \in 0..Capacity

(* The steps of an operation, by what they do to the bytes: it goes on,    *)
(* ...                                                                     *)
GoesOn == Busy' /\ UNCHANGED dataVars

(* ... it ends with an error, which is remembered, ...                     *)
Fails ==
  \E s \in Statuses \ {"none", "ok"} :
    /\ phase' = "returned" /\ result' = [status |-> s, data |-> <<>>] /\ data' = <<>>
    /\ failed' = failed \cup {s} /\ UNCHANGED <<sent, closed, taken, wrote, op>>

(* ... reads the next n bytes, after which it goes on or has enough, ...   *)
ReadsOn(n) ==
  /\ op.event = "IN" /\ taken + n <= sent /\ taken' = taken + n
  /\ UNCHANGED <<sent, closed, wrote, op, failed>>
  /\ \/ Busy' /\ data' = data \o Run(taken, taken + n) /\ UNCHANGED result
     \/ /\ phase' = "returned" /\ data' = <<>>
        /\ result' = [status |-> "ok", data |-> data \o Run(taken, taken + n)]
        /\ op.bytes > 0 /\ Len(data \o Run(taken, taken + n)) >= op.bytes

(* ... meets the end, ...                                                  *)
ReadsEnd ==
  /\ op.event = "IN" /\ closed /\ sent = taken /\ UNCHANGED <<sent, closed, taken, wrote, op, failed>>
  /\ phase' = "returned" /\ data' = <<>> /\ result' = [status |-> "ok", data |-> data]

(* ... writes the next n of its bytes, ...                                 *)
WritesOn(n) ==
  /\ op.event = "OUT" /\ n <= Len(data) /\ UNCHANGED <<sent, closed, taken, op, failed>>
  /\ wrote' = wrote \o SubSeq(data, 1, n) /\ data' = SubSeq(data, n + 1, Len(data))
  /\ \/ Busy' /\ data' # <<>> /\ UNCHANGED result
     \/ phase' = "returned" /\ data' = <<>> /\ result' = [status |-> "ok", data |-> <<>>]

(* ... or has nothing to write.                                            *)
WritesNone ==
  /\ op.event = "OUT" /\ data = <<>> /\ UNCHANGED <<sent, closed, taken, wrote, op, data, failed>>
  /\ phase' = "returned" /\ result' = [status |-> "ok", data |-> <<>>]

(* Each step of a generator is one of them.                                *)
Moves ==
  \/ GoesOn \/ Fails \/ ReadsEnd \/ WritesNone
  \/ \E n \in Nat \ {0} : ReadsOn(n) \/ WritesOn(n)

(* epollRearm() goes on or fails.                                          *)
LEMMA RearmBytes ==
  ASSUME epollRearm, UNCHANGED <<sent, closed, taken, wrote>>
  PROVE  GoesOn \/ Fails
  <1>1. CASE epoll = "unknown"
    <2>1. "rearm" \in Statuses \ {"none", "ok"}
      BY DEF Statuses
    <2>2. /\ phase' = "returned" /\ result' = [status |-> "rearm", data |-> <<>>] /\ data' = <<>>
          /\ failed' = failed \cup {"rearm"} /\ UNCHANGED op
      BY <1>1 DEF epollRearm, Return, Goes
    <2> QED
      BY <2>1, <2>2 DEF Fails
  <1>2. CASE epoll # "unknown"
    BY <1>2 DEF epollRearm, Arm, Goes, opVars, GoesOn, dataVars, Busy
  <1> QED
    BY <1>1, <1>2

(* The generator of a file does nothing else to the bytes.                 *)
LEMMA GeneratorBytes ==
  ASSUME FileData, SpaceInv, FileGenerator
  PROVE  Busy /\ Moves
  <1>0. Busy
    BY DEF FileGenerator, WriteNothing, lazyEpollReg, TakeUp, Await, AtTest, Switch, ReadSome,
      ReadNone, WriteSome, WriteNone, Busy
  <1>1. CASE WriteNothing
    <2>1. UNCHANGED <<sent, closed, taken, wrote, op, data>> /\ op.event = "OUT" /\ data = <<>>
      BY <1>1 DEF WriteNothing, Return, NothingToWrite, peerVars
    <2>2. /\ phase' = "returned" /\ result' = [status |-> "ok", data |-> <<>>] /\ failed' = failed
      BY <1>1 DEF WriteNothing, Return, Goes
    <2> QED
      BY <1>0, <2>1, <2>2 DEF Moves, WritesNone
  <1>2. CASE lazyEpollReg
    <2>1. UNCHANGED dataVars /\ phase' \in {"test", "check"}
      BY <1>2 DEF lazyEpollReg, Goes, Arm, peerVars, opVars, dataVars
    <2> QED
      BY <1>0, <2>1 DEF Moves, GoesOn, Busy
  <1>3. CASE TakeUp
    <2>1. UNCHANGED dataVars /\ phase' = "take"
      BY <1>3 DEF TakeUp, Running, Goes, fileVars, peerVars, opVars, dataVars
    <2> QED
      BY <1>0, <2>1 DEF Moves, GoesOn, Busy
  <1>4. CASE Await
    BY <1>0, <1>4, RearmBytes DEF Await, peerVars, Moves
  <1>5. CASE Switch
    <2>1. UNCHANGED <<sent, closed, taken, wrote>>
      BY <1>5 DEF Switch, peerVars
    <2>2. CASE Goes("loop") /\ UNCHANGED opVars
      BY <1>0, <2>1, <2>2 DEF Goes, opVars, dataVars, Moves, GoesOn, Busy
    <2>3. ASSUME NEW s \in {"cancelled", "unexpected"}, Return(s, <<>>), data' = <<>>
          PROVE  Moves
      <3>1. s \in Statuses \ {"none", "ok"} /\ {s} \ {"ok"} = {s}
        BY DEF Statuses
      <3>2. /\ phase' = "returned" /\ result' = [status |-> s, data |-> <<>>]
            /\ failed' = failed \cup {s} /\ UNCHANGED op
        BY <2>3, <3>1 DEF Return, Goes
      <3> QED
        BY <2>1, <2>3, <3>1, <3>2 DEF Moves, Fails
    <2>4. \/ Goes("loop") /\ UNCHANGED opVars
          \/ Return("cancelled", <<>>) /\ data' = <<>>
          \/ Return("unexpected", <<>>) /\ data' = <<>>
      BY <1>5 DEF Switch
    <2> QED
      BY <1>0, <2>2, <2>3, <2>4
  <1>6. CASE ReadSome
    <2> DEFINE n == Lesser(BufferSize, sent - taken)
    <2>1. n \in Nat \ {0} /\ taken + n <= sent
      BY <1>6, FileAssumption DEF ReadSome, FileData, Lesser
    <2>2. [i \in 1..n |-> taken + i] = Run(taken, taken + n)
      <3>1. (taken + n) - taken = n
        BY <2>1 DEF FileData
      <3> QED
        BY <3>1 DEF Run
    <2>3. /\ op.event = "IN" /\ taken' = taken + n /\ UNCHANGED <<sent, closed, wrote, op>>
      BY <1>6 DEF ReadSome, peerVars, Return
    <2>4. \/ /\ op.bytes > 0 /\ Len(data \o [i \in 1..n |-> taken + i]) >= op.bytes
             /\ Return("ok", data \o [i \in 1..n |-> taken + i]) /\ data' = <<>>
          \/ data' = data \o [i \in 1..n |-> taken + i] /\ Goes("loop") /\ UNCHANGED <<op, result, failed>>
      BY <1>6 DEF ReadSome
    <2> HIDE DEF n
    <2>5. ReadsOn(n)
      BY <2>1, <2>2, <2>3, <2>4 DEF ReadsOn, Return, Goes, Busy
    <2> QED
      BY <1>0, <2>1, <2>5 DEF Moves
  <1>7. CASE ReadNone
    <2>1. op.event = "IN" /\ sent = taken /\ UNCHANGED <<sent, closed, taken, wrote>>
      BY <1>7 DEF ReadNone, peerVars
    <2>2. CASE closed
      BY <1>0, <1>7, <2>1, <2>2 DEF ReadNone, Return, Goes, Moves, ReadsEnd
    <2>3. CASE ~closed
      BY <1>0, <1>7, <2>1, <2>3, RearmBytes DEF ReadNone, Moves
    <2> QED
      BY <2>2, <2>3
  <1>8. CASE WriteSome
    <2> DEFINE n == IF kind = "regular" THEN Len(data) ELSE Lesser(space, Len(data))
    <2>0. Len(data) \in Nat
      BY LenProperties DEF FileData
    <2>1. n \in Nat \ {0} /\ n <= Len(data)
      BY <1>8, <2>0, FileAssumption DEF WriteSome, Lesser, SpaceInv
    <2>2. /\ op.event = "OUT" /\ UNCHANGED <<sent, closed, taken, op>>
          /\ wrote' = wrote \o SubSeq(data, 1, n) /\ data' = SubSeq(data, n + 1, Len(data))
      BY <1>8 DEF WriteSome, Return
    <2>3. \/ data' = <<>> /\ Return("ok", <<>>)
          \/ data' # <<>> /\ Goes("loop") /\ UNCHANGED <<op, result, failed>>
      BY <1>8 DEF WriteSome
    <2> HIDE DEF n
    <2>5. WritesOn(n)
      BY <2>1, <2>2, <2>3 DEF WritesOn, Return, Goes, Busy
    <2> QED
      BY <1>0, <2>1, <2>5 DEF Moves
  <1>9. CASE WriteNone
    BY <1>0, <1>9, RearmBytes DEF WriteNone, peerVars, Moves
  <1> QED
    BY <1>1, <1>2, <1>3, <1>4, <1>5, <1>6, <1>7, <1>8, <1>9 DEF FileGenerator

(* It never writes more than the kernel takes.                             *)
LEMMA GeneratorSpace == ASSUME FileData, SpaceInv, FileGenerator PROVE SpaceInv'
  <1>1. CASE WriteSome
    <2>0. Len(data) \in Nat
      BY LenProperties DEF FileData
    <2> QED
      BY <1>1, <2>0, FileAssumption DEF WriteSome, SpaceInv, Lesser
  <1>2. CASE ~WriteSome
    BY <1>2 DEF FileGenerator, WriteNothing, lazyEpollReg, TakeUp, Await, Switch, ReadSome,
      ReadNone, WriteNone, peerVars, fileVars, SpaceInv
  <1> QED
    BY <1>1, <1>2

(* The bytes of a run that ends at or before c are among the first c.      *)
LEMMA RunIn ==
  ASSUME NEW a \in Nat, NEW b \in Nat, NEW c \in Nat, a <= b, b <= c
  PROVE  Run(a, b) \in Seq(1..c)
  <1>1. Run(a, b) \in [1..(b - a) -> 1..c] /\ b - a \in Nat
    BY DEF Run
  <1> QED
    BY <1>1, SeqDef

(* Bytes that come in, joined, are bytes that come in.                     *)
LEMMA InBytesAre ==
  /\ \A s \in InBytes : s \in Seq(Nat)
  /\ <<>> \in InBytes
  /\ \A s, t \in InBytes : s \o t \in InBytes
  <1>1. 1..InSize \subseteq Nat
    BY FileAssumption
  <1> QED
    BY <1>1, SeqMonotonic, EmptySeq, ConcatProperties DEF InBytes

(* The steps of an operation keep FileData.                                *)
LEMMA MovesData == ASSUME FileData, Busy, Moves PROVE FileData'
  <1>1. CASE GoesOn
    BY <1>1 DEF GoesOn, dataVars, FileData, Busy
  <1>2. CASE Fails
    <2> PICK s \in Statuses \ {"none", "ok"} :
          /\ phase' = "returned" /\ result' = [status |-> s, data |-> <<>>] /\ data' = <<>>
          /\ failed' = failed \cup {s} /\ UNCHANGED <<sent, closed, taken, wrote, op>>
      BY <1>2 DEF Fails
    <2> QED
      BY InBytesAre DEF FileData, Busy
  <1>3. CASE ReadsEnd
    BY <1>3, InBytesAre DEF ReadsEnd, FileData, Busy, Statuses, ReadDone
  <1>4. CASE WritesNone
    BY <1>4, InBytesAre DEF WritesNone, FileData, Busy, Statuses, ReadDone
  <1>5. ASSUME NEW n \in Nat \ {0}, ReadsOn(n) PROVE FileData'
    <2> DEFINE all1 == data \o Run(taken, taken + n)
    <2>0. InSize \in Nat /\ taken \in Nat /\ taken + n \in Nat /\ taken <= taken + n /\ taken + n <= InSize
      BY <1>5, FileAssumption DEF ReadsOn, FileData
    <2>1. Run(taken, taken + n) \in InBytes
      BY <2>0, RunIn DEF InBytes
    <2>2. all1 \in InBytes /\ all1 \in Seq(Nat)
      BY <1>5, <2>1, InBytesAre DEF ReadsOn, FileData
    <2>3. /\ taken' = taken + n /\ taken + n <= sent /\ UNCHANGED <<sent, closed, op, failed>>
          /\ op.event = "IN"
          /\ \/ Busy' /\ data' = all1 /\ UNCHANGED result
             \/ /\ phase' = "returned" /\ data' = <<>>
                /\ result' = [status |-> "ok", data |-> all1] /\ op.bytes > 0 /\ Len(all1) >= op.bytes
      BY <1>5 DEF ReadsOn
    <2> HIDE DEF all1
    <2>4. CASE Busy'
      BY <2>0, <2>2, <2>3, <2>4, InBytesAre DEF FileData, Busy
    <2>5. CASE ~Busy'
      <3>1. /\ phase' = "returned" /\ data' = <<>>
            /\ result' = [status |-> "ok", data |-> all1] /\ op.bytes > 0 /\ Len(all1) >= op.bytes
        BY <2>3, <2>5
      <3>2. /\ result'.status = "ok" /\ result'.data = all1
            /\ op'.bytes > 0 /\ Len(result'.data) >= op'.bytes
        BY <2>3, <3>1
      <3>3. <<>> \in InBytes /\ <<>> \in Seq(Nat)
        BY InBytesAre
      <3>4. ~Busy'
        BY <2>5
      <3> QED
        BY <2>0, <2>2, <2>3, <3>1, <3>2, <3>3, <3>4 DEF FileData, Statuses, ReadDone
    <2> QED
      BY <2>4, <2>5
  <1>6. ASSUME NEW n \in Nat \ {0}, WritesOn(n) PROVE FileData'
    <2>1. data' \in Seq(Nat)
      <3>1. After(data, n) \in Seq(Nat)
        BY AfterIs, Zenon DEF FileData
      <3> QED
        BY <1>6, <3>1 DEF WritesOn, After
    <2>2. /\ op.event = "OUT" /\ UNCHANGED <<sent, closed, taken, op, failed>>
          /\ \/ Busy' /\ UNCHANGED result
             \/ phase' = "returned" /\ data' = <<>> /\ result' = [status |-> "ok", data |-> <<>>]
      BY <1>6 DEF WritesOn
    <2>3. <<>> \in InBytes /\ <<>> \in Seq(Nat)
      BY InBytesAre
    <2>4. CASE Busy'
      BY <2>1, <2>2, <2>4 DEF FileData, Busy
    <2>5. CASE ~Busy'
      <3>1. phase' = "returned" /\ data' = <<>> /\ result' = [status |-> "ok", data |-> <<>>]
        BY <2>2, <2>5
      <3>2. result'.status = "ok" /\ result'.data = <<>> /\ op'.event # "IN" /\ op' = op
        BY <2>2, <3>1
      <3> QED
        BY <2>2, <2>3, <2>5, <3>1, <3>2 DEF FileData, Statuses
    <2> QED
      BY <2>4, <2>5
  <1> QED
    BY <1>1, <1>2, <1>3, <1>4, <1>5, <1>6 DEF Moves

(* A step that leaves the operation alone; the peer may send or close.     *)
Still ==
  /\ UNCHANGED <<taken, wrote, op, data, result, failed>>
  /\ sent' \in sent..InSize /\ (closed => closed' /\ sent' = sent)
  /\ phase' = phase \/ (Busy /\ Busy')

(* So do the steps that leave the operation alone.                         *)
LEMMA StillData == ASSUME FileData, Still PROVE FileData'
  <1>1. /\ UNCHANGED <<taken, op, data, result, failed>> /\ sent' \in Nat /\ taken <= sent'
        /\ sent' <= InSize /\ (closed => closed' /\ sent' = sent)
        /\ phase' = phase \/ (Busy /\ Busy')
    BY FileAssumption DEF Still, FileData
  <1> QED
    BY <1>1 DEF FileData, Busy, ReadDone

(* The engine resumes or parks what is on its way.                         *)
LEMMA EngineStill == EngineStep => phase' = phase \/ (Busy /\ Busy')
  BY DEF EngineStep, Check, Drop, Goes, Busy

(* Those of the IO thread, the peer, the engine, and a client that cancels *)
(* or lets go are of this kind.                                            *)
LEMMA StillSteps ==
  ASSUME FileData,
         \/ FileEvent \/ FileNotify \/ FileCancel \/ FilePeer \/ FileGone
         \/ (EngineStep /\ UNCHANGED fileVars)
  PROVE  Still /\ (SpaceInv => SpaceInv')
  <1>0. sent \in sent..InSize
    BY FileAssumption DEF FileData
  <1>1. CASE UNCHANGED fileVars /\ (phase' = phase \/ (Busy /\ Busy'))
    BY <1>0, <1>1 DEF Still, fileVars, peerVars, opVars, SpaceInv
  <1>2. CASE PeerSends
    BY <1>2, FileAssumption DEF PeerSends, ioVars, opVars, Still, FileData, SpaceInv
  <1>3. CASE PeerCloses
    <2>1. UNCHANGED <<sent, taken, wrote, space, opVars, phase>>
      BY <1>3 DEF PeerCloses, ioVars
    <2>2. closed => closed'
      BY <1>3, Zenon DEF PeerCloses
    <2> QED
      BY <1>0, <2>1, <2>2 DEF Still, opVars, SpaceInv
  <1>8. CASE PeerReads
    <2>1. UNCHANGED <<sent, closed, taken, wrote, opVars, phase>>
      BY <1>8 DEF PeerReads, ioVars
    <2>2. SpaceInv => SpaceInv'
      BY <1>8, FileAssumption DEF PeerReads, SpaceInv
    <2> QED
      BY <1>0, <2>1, <2>2 DEF Still, opVars
  <1>4. CASE FileEvent
    BY <1>1, <1>4, EventQuiet DEF FileEvent
  <1>5. CASE FileNotify
    BY <1>1, <1>5, NotifyQuiet DEF FileNotify
  <1>6. CASE FileCancel
    BY <1>0, <1>6, ClientQuiet DEF FileCancel, Still, peerVars, SpaceInv
  <1>7. CASE FileGone
    BY <1>1, <1>7 DEF FileGone
  <1> QED
    BY <1>1, <1>2, <1>3, <1>4, <1>5, <1>6, <1>7, <1>8, EngineStill DEF FilePeer

------------------------------------------------------------------------------
(* The bytes of s come one after another, and are among the first t.       *)
Accounted(s, t) ==
  /\ s \in Seq(Nat)
  /\ \A i \in 1..Len(s) : s[i] \in 1..t
  /\ \A i, j \in 1..Len(s) : i < j => s[i] < s[j]

(* The bytes that follow the first t may be added ...                      *)
LEMMA AccountedGrows ==
  ASSUME NEW s, NEW t \in Nat, NEW u \in Nat, t <= u, Accounted(s, t)
  PROVE  Accounted(s \o Run(t, u), u)
  <1> DEFINE r == Run(t, u) w == s \o r
  <1>1. r \in Seq(Nat) /\ Len(r) = u - t /\ s \in Seq(Nat) /\ Len(s) \in Nat
    BY RunLen, LenProperties DEF Accounted
  <1>2. \A i \in 1..(u - t) : r[i] = t + i
    BY RunAt, Zenon
  <1> HIDE DEF r
  <1>3. /\ w \in Seq(Nat) /\ Len(w) = Len(s) + Len(r)
        /\ \A i \in 1 .. Len(s) + Len(r) : w[i] = IF i <= Len(s) THEN s[i] ELSE r[i - Len(s)]
    BY <1>1, ConcatProperties
  <1> HIDE DEF w
  <1>4. ASSUME NEW i \in 1..Len(w), i > Len(s) PROVE w[i] = t + (i - Len(s))
    <2>1. i - Len(s) \in 1..(u - t)
      BY <1>1, <1>3, <1>4
    <2> QED
      BY <1>1, <1>2, <1>3, <1>4, <2>1
  <1>5. ASSUME NEW i \in 1..Len(w), i <= Len(s)
       PROVE  i \in 1..Len(s) /\ w[i] = s[i] /\ s[i] \in 1..t
    <2>1. i \in 1..Len(s)
      BY <1>1, <1>5
    <2> QED
      BY <1>1, <1>3, <1>5, <2>1 DEF Accounted
  <1>6. \A i \in 1..Len(w) : w[i] \in 1..u
    <2> TAKE i \in 1..Len(w)
    <2>1. CASE i <= Len(s)
      BY <1>5, <2>1
    <2>2. CASE i > Len(s)
      <3>1. w[i] = t + (i - Len(s))
        BY <1>4, <2>2
      <3>2. i - Len(s) \in 1..(u - t)
        BY <1>1, <1>3, <2>2
      <3> QED
        BY <3>1, <3>2
    <2> QED
      BY <1>1, <2>1, <2>2
  <1>7. \A i, j \in 1..Len(w) : i < j => w[i] < w[j]
    <2> SUFFICES ASSUME NEW i \in 1..Len(w), NEW j \in 1..Len(w), i < j PROVE w[i] < w[j]
      OBVIOUS
    <2>1. CASE j <= Len(s)
      <3>1. i <= Len(s)
        BY <1>1, <1>3, <2>1
      <3> QED
        BY <1>5, <2>1, <3>1 DEF Accounted
    <2>2. CASE j > Len(s) /\ i <= Len(s)
      <3>1. w[j] = t + (j - Len(s)) /\ w[i] \in 1..t
        BY <1>4, <1>5, <2>2
      <3>2. j - Len(s) \in 1..(u - t)
        BY <1>1, <1>3, <2>2
      <3> QED
        BY <3>1, <3>2
    <2>3. CASE i > Len(s) /\ j > Len(s)
      BY <1>1, <1>3, <1>4, <2>3
    <2>4. i \in Int /\ j \in Int /\ Len(s) \in Nat
      BY <1>1
    <2> QED
      BY <2>1, <2>2, <2>3, <2>4
  <1>8. Accounted(w, u)
    BY <1>3, <1>6, <1>7 DEF Accounted
  <1> QED
    BY <1>8 DEF w, r

(* ... and the last ones left out.                                         *)
LEMMA AccountedCut ==
  ASSUME NEW s \in Seq(Nat), NEW d \in Seq(Nat), NEW t \in Nat, Accounted(s \o d, t)
  PROVE  Accounted(s, t)
  <1> DEFINE w == s \o d
  <1>1. Len(s) \in Nat /\ Len(d) \in Nat
    BY LenProperties
  <1>2. /\ Len(w) = Len(s) + Len(d)
        /\ \A i \in 1 .. Len(s) + Len(d) : w[i] = IF i <= Len(s) THEN s[i] ELSE d[i - Len(s)]
    BY ConcatProperties
  <1> HIDE DEF w
  <1>3. \A i \in 1..Len(s) : i \in 1..Len(w) /\ w[i] = s[i]
    BY <1>1, <1>2
  <1>4. Accounted(w, t)
    BY DEF w
  <1>5. \A i \in 1..Len(s) : s[i] \in 1..t
    BY <1>3, <1>4, Zenon DEF Accounted
  <1>6. \A i, j \in 1..Len(s) : i < j => s[i] < s[j]
    BY <1>3, <1>4, Zenon DEF Accounted
  <1> QED
    BY <1>5, <1>6, Zenon DEF Accounted

(* Joining is associative.                                                 *)
LEMMA Associative == \A s, t, u \in Seq(Nat) : (s \o t) \o u = s \o (t \o u)
  BY ConcatAssociative, SMTT(30)

(* What an operation has read and not yet given to the buffer.             *)
Pending == IF op.event # "IN" THEN <<>> ELSE IF phase = "returned" THEN result.data ELSE data

(* The three parts of what was received.                                   *)
LEMMA ReceivedIs == Received = (got \o readbuff) \o Pending
  BY DEF Received, Pending

(* What was returned, what is in the buffer and what was read since are    *)
(* bytes in their order; all of them, unless an operation has failed.      *)
ReceivedInv ==
  /\ got \in InBytes /\ readbuff \in InBytes
  /\ Accounted(Received, taken)
  /\ failed = {} => Received = Run(0, taken)

(* Pending is bytes.                                                       *)
LEMMA PendingIs == FileData => Pending \in InBytes /\ Pending \in Seq(Nat)
  BY InBytesAre DEF FileData, Pending

(* A step that only moves bytes between the three parts.                   *)
LEMMA ReceivedSame ==
  ASSUME ReceivedInv, got' \in InBytes, readbuff' \in InBytes, Received' = Received,
         UNCHANGED <<taken, failed>>
  PROVE  ReceivedInv'
  BY Zenon DEF ReceivedInv

(* The steps of an operation, on what it has read.                         *)
LEMMA MovesPending ==
  ASSUME FileData, Busy, Moves
  PROVE  \/ Pending' = Pending /\ UNCHANGED <<taken, failed>>
         \/ Pending' = <<>> /\ failed' # {} /\ UNCHANGED taken
         \/ \E n \in Nat : /\ Pending' = Pending \o Run(taken, taken + n)
                           /\ taken' = taken + n /\ UNCHANGED failed
  <1>1. CASE GoesOn
    BY <1>1 DEF GoesOn, dataVars, Pending, Busy
  <1>2. CASE Fails
    <2> PICK s \in Statuses \ {"none", "ok"} :
          /\ phase' = "returned" /\ result' = [status |-> s, data |-> <<>>] /\ data' = <<>>
          /\ failed' = failed \cup {s} /\ UNCHANGED <<sent, closed, taken, wrote, op>>
      BY <1>2 DEF Fails
    <2> QED
      BY DEF Pending
  <1>3. CASE ReadsEnd
    BY <1>3 DEF ReadsEnd, Pending, Busy
  <1>4. CASE WritesNone
    BY <1>4 DEF WritesNone, Pending
  <1>5. ASSUME NEW n \in Nat \ {0}, ReadsOn(n)
        PROVE  /\ Pending' = Pending \o Run(taken, taken + n)
               /\ taken' = taken + n /\ UNCHANGED failed
    <2>1. Pending = data
      BY <1>5 DEF Pending, ReadsOn, Busy
    <2>2. Pending' = data \o Run(taken, taken + n)
      BY <1>5 DEF Pending, ReadsOn, Busy
    <2> QED
      BY <1>5, <2>1, <2>2 DEF ReadsOn
  <1>6. ASSUME NEW n \in Nat \ {0}, WritesOn(n)
        PROVE  Pending' = Pending /\ UNCHANGED <<taken, failed>>
    BY <1>6 DEF WritesOn, Pending
  <1> QED
    BY <1>1, <1>2, <1>3, <1>4, <1>5, <1>6 DEF Moves

(* The steps of an operation keep ReceivedInv: what is read follows on     *)
(* what was received, and what a failure drops is the end of it.           *)
LEMMA ReceivedMoves ==
  ASSUME FileData, ReceivedInv, Busy, Moves, UNCHANGED <<got, readbuff>>
  PROVE  ReceivedInv'
  <1> DEFINE b == got \o readbuff
  <1>0. b \in Seq(Nat) /\ Pending \in Seq(Nat) /\ taken \in Nat
    BY PendingIs, InBytesAre, ConcatProperties DEF ReceivedInv, FileData
  <1>1. Received = b \o Pending /\ Received' = b \o Pending'
    BY DEF Received, Pending
  <1>2. /\ got' \in InBytes /\ readbuff' \in InBytes
        /\ Accounted(b \o Pending, taken) /\ (failed = {} => b \o Pending = Run(0, taken))
    BY <1>1 DEF ReceivedInv
  <1> HIDE DEF b
  <1>3. CASE Pending' = Pending /\ UNCHANGED <<taken, failed>>
    BY <1>1, <1>2, <1>3, ReceivedSame
  <1>4. CASE Pending' = <<>> /\ failed' # {} /\ UNCHANGED taken
    <2>1. Received' = b
      BY <1>0, <1>1, <1>4, ConcatEmptySeq
    <2>2. Accounted(b, taken)
      BY <1>0, <1>2, AccountedCut
    <2> QED
      BY <1>2, <1>4, <2>1, <2>2, Zenon DEF ReceivedInv
  <1>5. ASSUME NEW n \in Nat, Pending' = Pending \o Run(taken, taken + n),
               taken' = taken + n, UNCHANGED failed
        PROVE  ReceivedInv'
    <2>0. 0 \in Nat /\ 0 <= taken /\ taken + n \in Nat /\ taken <= taken + n
      BY <1>0
    <2>1. Run(taken, taken + n) \in Seq(Nat)
      BY <1>0, <2>0, RunLen, Zenon
    <2>2. Received' = (b \o Pending) \o Run(taken, taken + n)
      <3>1. (b \o Pending) \o Run(taken, taken + n) = b \o (Pending \o Run(taken, taken + n))
        BY <1>0, <2>1, Associative, Zenon
      <3> QED
        BY <1>1, <1>5, <3>1, Zenon
    <2>3. Accounted((b \o Pending) \o Run(taken, taken + n), taken + n)
      BY <1>0, <1>2, <2>0, AccountedGrows, Zenon
    <2>4. failed' = {} => Received' = Run(0, taken + n)
      <3>1. Run(0, taken) \o Run(taken, taken + n) = Run(0, taken + n)
        BY <1>0, <2>0, RunJoin, Zenon
      <3> QED
        BY <1>2, <1>5, <2>2, <3>1
    <2> QED
      BY <1>2, <1>5, <2>2, <2>3, <2>4, Zenon DEF ReceivedInv
  <1> QED
    BY <1>3, <1>4, <1>5, MovesPending

(* A step that leaves the operation alone keeps it.                        *)
LEMMA ReceivedStill ==
  ASSUME FileData, ReceivedInv, Still, UNCHANGED <<got, readbuff>>
  PROVE  ReceivedInv'
  <1>1. Pending' = Pending
    BY DEF Still, Pending, Busy
  <1>2. Received' = Received
    BY <1>1 DEF Received, Pending
  <1> QED
    BY <1>2, ReceivedSame DEF ReceivedInv, Still
------------------------------------------------------------------------------
(* The call that the client waits for, and what its operation is to do:    *)
(* the read is of what the buffer does not have, and the buffer did not    *)
(* have the answer.                                                        *)
CallInv ==
  /\ given \in Nat /\ reply.data \in InBytes
  /\ call = NoCall <=> phase = "none"
  /\ call # NoCall =>
       /\ call \in Requests /\ reply = NoReply
       /\ call.kind = "write" => op.event = "OUT"
       /\ call.kind # "write" => op = [event |-> "IN", bytes |-> Missing(call)] /\ ~Buffered(call)

(* The invariant of the reader.                                            *)
ReaderInv == ReceivedInv /\ CallInv /\ RepliesAsAsked

(* What the client may ask for.                                            *)
LEMMA RequestIs ==
  ASSUME NEW q \in Requests
  PROVE  /\ q # NoCall /\ q.size \in Nat
         /\ q.kind \in {"upto", "peek", "write", "all", "until"}
         /\ q.kind \in {"upto", "peek", "write"} => q.size > 0
  BY BufferAssumption DEF NoCall

(* What is missing depends on the call and the buffer only.                *)
LEMMA BufferedSame ==
  ASSUME UNCHANGED <<readbuff, call>>
  PROVE  Buffered(call)' = Buffered(call) /\ Missing(call)' = Missing(call)
  <1>1. Buffered(call)' = Buffered(call)
    BY Zenon DEF Buffered, Ends
  <1>2. Missing(call)' = Missing(call)
    BY Zenon DEF Missing
  <1> QED
    BY <1>1, <1>2

(* A step that leaves the call and its operation alone keeps CallInv.      *)
LEMMA CallSame ==
  ASSUME CallInv, UNCHANGED <<bufferVars, op>>, phase' = "none" <=> phase = "none"
  PROVE  CallInv'
  <1>1. UNCHANGED <<readbuff, call, reply, given>>
    BY DEF bufferVars
  <1>2. /\ given' \in Nat /\ reply'.data \in InBytes
        /\ call' = NoCall <=> phase' = "none"
    BY <1>1 DEF CallInv
  <1>3. ASSUME call' # NoCall
        PROVE  /\ call' \in Requests /\ reply' = NoReply
               /\ call'.kind = "write" => op'.event = "OUT"
               /\ call'.kind # "write" => op' = [event |-> "IN", bytes |-> Missing(call)'] /\ ~Buffered(call)'
    BY <1>1, <1>3, BufferedSame DEF CallInv
  <1> QED
    BY <1>2, <1>3, Zenon DEF CallInv

(* As long as there is no reply nothing is claimed of it.                  *)
LEMMA NoReplyYet == reply = NoReply => RepliesAsAsked
  BY DEF NoReply, RepliesAsAsked

(* The steps of an operation keep the invariant of the reader: its call is *)
(* not answered yet.                                                       *)
LEMMA ReaderMoves ==
  ASSUME FileData, ReaderInv, Busy, Moves, UNCHANGED bufferVars
  PROVE  ReaderInv'
  <1>1. ReceivedInv'
    BY ReceivedMoves DEF ReaderInv, bufferVars
  <1>2. phase # "none" /\ phase' # "none" /\ op' = op
    BY DEF Busy, Moves, GoesOn, Fails, ReadsEnd, WritesNone, ReadsOn, WritesOn, dataVars
  <1>3. CallInv'
    BY <1>2, CallSame DEF ReaderInv
  <1>4. reply' = NoReply
    BY <1>2 DEF ReaderInv, CallInv, bufferVars
  <1>5. RepliesAsAsked'
    BY <1>4 DEF NoReply, RepliesAsAsked
  <1> QED
    BY <1>1, <1>3, <1>5 DEF ReaderInv

(* So do the steps that leave it alone: the end that was met stays.        *)
LEMMA ReaderStill ==
  ASSUME FileData, ReaderInv, Still, UNCHANGED bufferVars
  PROVE  ReaderInv'
  <1>1. ReceivedInv'
    BY ReceivedStill DEF ReaderInv, bufferVars
  <1>2. (phase' = "none" <=> phase = "none") /\ op' = op
    BY DEF Still, Busy
  <1>3. CallInv'
    BY <1>2, CallSame DEF ReaderInv
  <1>4. closed /\ taken = sent => closed' /\ taken' = sent'
    BY DEF Still
  <1>5. UNCHANGED <<reply, readbuff>>
    BY DEF bufferVars
  <1>6. RepliesAsAsked
    BY DEF ReaderInv
  <1>7. RepliesAsAsked'
    BY <1>4, <1>5, <1>6 DEF RepliesAsAsked, Ends, UpTo, Lesser
  <1> QED
    BY <1>1, <1>3, <1>7 DEF ReaderInv

(* What is split off is accounted for once.                                *)
LEMMA Split ==
  ASSUME NEW s \in InBytes, NEW n \in Nat
  PROVE  UpTo(s, n) \in InBytes /\ After(s, n) \in InBytes /\ UpTo(s, n) \o After(s, n) = s
  BY UpToIs, AfterIs, SplitAt DEF InBytes

(* A call that the buffer answers (io.hpp:143-170).                        *)
LEMMA ReaderCallBuffered ==
  ASSUME FileData, ReaderInv, NEW q \in Requests, call = NoCall, CallBuffered(q)
  PROVE  FileData' /\ ReaderInv'
  <1> DEFINE n == Size(q, readbuff) d == UpTo(readbuff, n)
  <1>0. readbuff \in InBytes /\ readbuff \in Seq(Nat) /\ got \in InBytes /\ got \in Seq(Nat)
        /\ Len(readbuff) \in Nat
    BY InBytesAre, LenProperties DEF ReaderInv, ReceivedInv
  <1>1. /\ phase = "none" /\ UNCHANGED <<ioVars, fileVars, given>> /\ Buffered(q)
        /\ call' = NoCall /\ reply' = [to |-> q, status |-> "ok", data |-> d]
        /\ got' = IF q.kind = "peek" THEN got ELSE got \o d
        /\ readbuff' = IF q.kind = "peek" THEN readbuff ELSE After(readbuff, n)
    BY DEF CallBuffered, Answer
  <1>2. UNCHANGED <<sent, closed, taken, wrote, op, data, result, failed, phase>>
    BY <1>1 DEF ioVars, fileVars, peerVars, opVars
  <1>3. FileData'
    BY <1>2 DEF FileData, Busy, ReadDone
  <1>4. n \in Nat /\ n <= Len(readbuff) /\ q.kind # "all" /\ q.kind # "write"
        /\ (q.kind # "until" => n = q.size)
    <2>1. CASE q.kind = "until"
      <3>1. Ends(readbuff) # {}
        BY <1>1, <2>1 DEF Buffered
      <3> QED
        BY <1>0, <2>1, <3>1, FirstEnd DEF Size
    <2>2. CASE q.kind # "until"
      BY <1>0, <1>1, <2>2, RequestIs DEF Buffered, Size
    <2> QED
      BY <2>1, <2>2
  <1>5. q.kind = "until" => Ends(d) = {Len(d)}
    <2> SUFFICES ASSUME q.kind = "until" PROVE Ends(d) = {Len(d)}
      OBVIOUS
    <2>1. Ends(readbuff) # {} /\ n = Min(Ends(readbuff))
      BY <1>1 DEF Buffered, Size
    <2> QED
      BY <1>0, <2>1, OnlyEnd
  <1> HIDE DEF n
  <1>6. d \in InBytes /\ After(readbuff, n) \in InBytes /\ d \o After(readbuff, n) = readbuff
    BY <1>0, <1>4, Split
  <1>7. Len(d) = n /\ UpTo(readbuff, Len(d)) = d
    <2>1. Lesser(n, Len(readbuff)) = n
      BY <1>0, <1>4 DEF Lesser
    <2>2. Len(d) = n
      BY <1>0, <1>4, <2>1, UpToIs
    <2> QED
      BY <2>2
  <1> HIDE DEF d
  <1>8. ReceivedInv'
    <2>1. d \in Seq(Nat) /\ After(readbuff, n) \in Seq(Nat)
      BY <1>6, InBytesAre
    <2>2. got' \o readbuff' = got \o readbuff
      <3>1. (got \o d) \o After(readbuff, n) = got \o readbuff
        <4>1. (got \o d) \o After(readbuff, n) = got \o (d \o After(readbuff, n))
          BY <1>0, <2>1, Associative, Zenon
        <4> QED
          BY <1>6, <4>1
      <3> QED
        BY <1>1, <3>1
    <2>3. Received' = Received
      BY <1>2, <2>2 DEF Received
    <2>4. got' \in InBytes /\ readbuff' \in InBytes
      BY <1>0, <1>1, <1>6, InBytesAre
    <2> QED
      BY <1>2, <2>3, <2>4, ReceivedSame DEF ReaderInv
  <1>9. CallInv'
    BY <1>1, <1>2, <1>6 DEF ReaderInv, CallInv
  <1>10. RepliesAsAsked'
    <2>1. q.kind \in {"upto", "peek"} => Len(d) = q.size
      BY <1>4, <1>7
    <2>2. q.kind = "peek" => UpTo(readbuff', Len(d)) = d
      BY <1>1, <1>7
    <2>3. reply'.to = q /\ reply'.status = "ok" /\ reply'.data = d
      BY <1>1
    <2> QED
      BY <1>4, <1>5, <2>1, <2>2, <2>3 DEF RepliesAsAsked, Ends, UpTo, Lesser
  <1> QED
    BY <1>3, <1>8, <1>9, <1>10 DEF ReaderInv
(* A call that launches an operation.                                      *)
LEMMA ReaderLaunch ==
  ASSUME FileData, ReaderInv, NEW q \in Requests, call = NoCall, CallRead(q) \/ CallWrite(q)
  PROVE  FileData' /\ ReaderInv'
  <1>0. q # NoCall /\ q.size \in Nat /\ q.kind \in {"upto", "peek", "write", "all", "until"}
        /\ (q.kind \in {"upto", "peek", "write"} => q.size > 0)
    BY RequestIs
  <1>1. /\ phase = "none" /\ phase' = "resume" /\ result' = NoResult
        /\ call' = q /\ reply' = NoReply
        /\ UNCHANGED <<sent, closed, taken, wrote, failed, readbuff, got>>
    BY DEF CallRead, CallWrite, Launch, peerVars
  <1>2. data = <<>>
    BY <1>1 DEF FileData, Busy
  <1>3. Len(readbuff) \in Nat
    BY LenProperties DEF ReaderInv, ReceivedInv, InBytes
  <1>4. /\ op' \in Operations \cup {Idle}
        /\ data' \in Seq(Nat) /\ (op'.event = "IN" => data' = <<>>)
        /\ q.kind = "write" => op'.event = "OUT"
        /\ q.kind # "write" => op' = [event |-> "IN", bytes |-> Missing(q)] /\ ~Buffered(q)
        /\ given' \in Nat
    <2>1. CASE CallRead(q)
      <3>1. q.kind # "write" /\ op' = [event |-> "IN", bytes |-> Missing(q)] /\ ~Buffered(q)
            /\ data' = <<>> /\ given' = given
        BY <2>1 DEF CallRead, Launch
      <3>2. Missing(q) \in Nat
        BY <1>0, <1>3, <3>1 DEF Missing, Buffered
      <3> QED
        BY <3>1, <3>2, InBytesAre DEF ReaderInv, CallInv, Operations
    <2>2. CASE CallWrite(q)
      <3>1. q.kind = "write" /\ op' = [event |-> "OUT", bytes |-> 0] /\ given' = given + q.size
            /\ data' = [i \in 1..q.size |-> given + i]
        BY <2>2 DEF CallWrite, Launch
      <3>2. given \in Nat
        BY DEF ReaderInv, CallInv
      <3>3. data' \in [1..q.size -> Nat]
        BY <1>0, <3>1, <3>2
      <3>4. data' \in Seq(Nat)
        BY <1>0, <3>3, SeqDef
      <3> QED
        BY <1>0, <3>1, <3>2, <3>4 DEF Operations
    <2> QED
      BY <2>1, <2>2
  <1>5. FileData'
    BY <1>1, <1>4, InBytesAre DEF FileData, Busy, NoResult, Statuses
  <1>6. ReceivedInv'
    <2>1. Pending = <<>> \/ op.event # "IN"
      BY <1>1, <1>2 DEF Pending
    <2>2. Received' = Received
      BY <1>1, <1>2, <1>4 DEF Received
    <2> QED
      BY <1>1, <2>2, ReceivedSame DEF ReaderInv, ReceivedInv
  <1>7. CallInv'
    <2>1. reply'.data \in InBytes
      BY <1>1, InBytesAre DEF NoReply
    <2>2. Missing(call)' = Missing(q) /\ Buffered(call)' = Buffered(q)
      <3>1. Buffered(call)' = Buffered(q)
        BY <1>1, Zenon DEF Buffered, Ends
      <3>2. Missing(call)' = Missing(q)
        BY <1>1, Zenon DEF Missing
      <3> QED
        BY <3>1, <3>2
    <2>3. /\ call' = NoCall <=> phase' = "none"
          /\ call' \in Requests /\ reply' = NoReply
          /\ call'.kind = "write" => op'.event = "OUT"
          /\ call'.kind # "write" => op' = [event |-> "IN", bytes |-> Missing(call)'] /\ ~Buffered(call)'
      BY <1>0, <1>1, <1>4, <2>2
    <2> QED
      BY <1>4, <2>1, <2>3, Zenon DEF CallInv
  <1>8. RepliesAsAsked'
    BY <1>1 DEF NoReply, RepliesAsAsked
  <1> QED
    BY <1>5, <1>6, <1>7, <1>8 DEF ReaderInv

(* The calls keep the invariant of the reader.                             *)
LEMMA ReaderCall ==
  ASSUME FileData, ReaderInv, NEW q \in Requests, Call(q)
  PROVE  FileData' /\ ReaderInv' /\ (SpaceInv => SpaceInv')
  <1>1. call = NoCall /\ (CallBuffered(q) \/ CallRead(q) \/ CallWrite(q))
    BY DEF Call
  <1>2. UNCHANGED space
    BY <1>1 DEF CallBuffered, CallRead, CallWrite, Launch, fileVars, peerVars
  <1> QED
    BY <1>1, <1>2, ReaderCallBuffered, ReaderLaunch DEF SpaceInv
------------------------------------------------------------------------------
(* The resource has returned, and the client is answered: if the bytes     *)
(* that were returned and are in the buffer are the same as before, they   *)
(* are accounted for.                                                      *)
LEMMA SettledInv ==
  ASSUME FileData, ReaderInv, phase = "returned", Settled, given' = given,
         NEW st, NEW d \in InBytes, Answer(call, st, d),
         readbuff' \in InBytes, got' \in InBytes,
         got' \o readbuff' = (got \o readbuff) \o Pending
  PROVE  FileData' /\ ReceivedInv' /\ CallInv'
  <1>1. /\ phase' = "none" /\ UNCHANGED <<sent, closed, taken, wrote, op, data, result, failed>>
    BY DEF Settled, fileVars, peerVars, opVars
  <1>2. data = <<>>
    BY DEF FileData, Busy
  <1>3. FileData'
    BY <1>1, <1>2 DEF FileData, Busy
  <1>4. got' \o readbuff' \in Seq(Nat)
    BY InBytesAre, ConcatProperties
  <1>5. Received' = (got' \o readbuff') \o <<>>
    BY <1>1, <1>2 DEF Received
  <1>6. Received' = Received
    BY <1>4, <1>5, ReceivedIs, ConcatEmptySeq
  <1>7. ReceivedInv'
    BY <1>1, <1>6, ReceivedSame DEF ReaderInv
  <1>8. CallInv'
    BY <1>1 DEF Answer, ReaderInv, CallInv
  <1> QED
    BY <1>3, <1>7, <1>8

(* A read that has not met the pattern goes on.                            *)
LEMMA ReaderGoesOn ==
  ASSUME FileData, ReaderInv, phase = "returned", call # NoCall, UNCHANGED given, ReadUntilMore
  PROVE  FileData' /\ ReaderInv'
  <1>1. /\ call.kind = "until" /\ Ends(all) = {} /\ readbuff' = all
        /\ phase' = "resume" /\ op' = [event |-> "IN", bytes |-> 1] /\ data' = <<>>
        /\ result' = NoResult
        /\ UNCHANGED <<sent, closed, taken, wrote, failed, call, reply, got>>
    BY DEF ReadUntilMore, peerVars
  <1>2. call \in Requests /\ op.event = "IN" /\ reply = NoReply /\ given \in Nat
    BY <1>1 DEF ReaderInv, CallInv
  <1>3. FileData'
    BY <1>1, InBytesAre DEF FileData, Busy, NoResult, Statuses, Operations
  <1>4. /\ readbuff \in Seq(Nat) /\ got \in Seq(Nat) /\ result.data \in Seq(Nat) /\ all \in Seq(Nat)
        /\ all \in InBytes
    BY InBytesAre, ConcatProperties DEF ReaderInv, ReceivedInv, FileData, all
  <1>5. ReceivedInv'
    <2>1. Received = (got \o readbuff) \o result.data
      BY <1>2 DEF Received
    <2>2. Received = got \o all
      BY <1>4, <2>1, Associative, Zenon DEF all
    <2>3. Received' = (got \o all) \o <<>>
      BY <1>1 DEF Received
    <2>4. got \o all \in Seq(Nat)
      BY <1>4, ConcatProperties
    <2>5. Received' = Received
      BY <2>2, <2>3, <2>4, ConcatEmptySeq
    <2> QED
      BY <1>1, <1>4, <2>5, ReceivedSame DEF ReaderInv, ReceivedInv
  <1>6. CallInv'
    <2>1. Missing(call)' = 1
      BY <1>1 DEF Missing
    <2>2. Buffered(call)' = FALSE
      <3>1. Ends(readbuff') = {}
        BY <1>1
      <3> QED
        BY <1>1, <3>1 DEF Buffered, Ends
    <2>3. reply'.data \in InBytes
      BY <1>1, <1>2, InBytesAre DEF NoReply
    <2>4. /\ given' \in Nat
          /\ call' = NoCall <=> phase' = "none"
          /\ call' \in Requests /\ reply' = NoReply
          /\ call'.kind # "write" => op' = [event |-> "IN", bytes |-> Missing(call)'] /\ ~Buffered(call)'
          /\ call'.kind = "write" => op'.event = "OUT"
      BY <1>1, <1>2, <2>1, <2>2
    <2> QED
      BY <2>3, <2>4, Zenon DEF CallInv
  <1>7. RepliesAsAsked'
    BY <1>1, <1>2 DEF NoReply, RepliesAsAsked
  <1> QED
    BY <1>3, <1>5, <1>6, <1>7 DEF ReaderInv

(* What an answer consists of.                                             *)
LEMMA AnswerIs ==
  ASSUME NEW q, NEW st, NEW d, Answer(q, st, d)
  PROVE  call' = NoCall /\ reply'.to = q /\ reply'.status = st /\ reply'.data = d
  BY DEF Answer

(* The client is answered without any byte.                                *)
LEMMA ReaderNothing ==
  ASSUME FileData, ReaderInv, phase = "returned", call # NoCall, UNCHANGED given,
         Failed \/ Written \/ ReadUntilEnd
  PROVE  FileData' /\ ReaderInv'
  <1>1. /\ Settled /\ UNCHANGED readbuff
        /\ \E s \in Statuses \cup {"no pattern"} : Answer(call, s, <<>>)
    BY DEF Failed, Written, ReadUntilEnd, FileData, Statuses
  <1>2. /\ got \in InBytes /\ readbuff \in InBytes /\ got \in Seq(Nat) /\ readbuff \in Seq(Nat)
        /\ <<>> \in InBytes
    BY InBytesAre DEF ReaderInv, ReceivedInv
  <1>3. Pending = <<>>
    BY DEF Failed, Written, ReadUntilEnd, ReaderInv, CallInv, FileData, Pending
  <1>4. got' = got
    <2> PICK st \in Statuses \cup {"no pattern"} : Answer(call, st, <<>>)
      BY <1>1
    <2> QED
      BY <1>2, ConcatEmptySeq DEF Answer
  <1>5. got' \o readbuff' = (got \o readbuff) \o Pending
    <2>1. got \o readbuff \in Seq(Nat)
      BY <1>2, ConcatProperties
    <2> QED
      BY <1>1, <1>3, <1>4, <2>1, ConcatEmptySeq
  <1>6. FileData' /\ ReceivedInv' /\ CallInv'
    BY <1>1, <1>2, <1>4, <1>5, SettledInv, Zenon
  <1>7. reply'.to = call /\ reply'.data = <<>> /\ UNCHANGED <<closed, taken, sent, readbuff>>
    <2>1. reply'.to = call /\ reply'.data = <<>>
      BY <1>1, AnswerIs
    <2> QED
      BY <1>1, <2>1 DEF Settled, fileVars, peerVars
  <1>8. \/ reply'.status \notin {"ok", "no pattern"}
        \/ call.kind = "write" /\ reply'.status = "ok"
        \/ reply'.status = "no pattern" /\ closed /\ taken = sent /\ Ends(readbuff) = {}
    <2>1. CASE Failed
      <3>1. Answer(call, result.status, <<>>) /\ result.status # "ok"
        BY <2>1 DEF Failed
      <3>2. reply'.status = result.status
        BY <3>1, AnswerIs
      <3>3. result.status \notin {"ok", "no pattern"}
        BY <3>1 DEF FileData, Statuses
      <3> QED
        BY <3>2, <3>3
    <2>2. CASE Written
      <3>1. Answer(call, "ok", <<>>) /\ call.kind = "write"
        BY <2>2 DEF Written
      <3> QED
        BY <3>1, AnswerIs
    <2>3. CASE ReadUntilEnd
      <3>1. /\ call.kind = "until" /\ result.status = "ok" /\ result.data = <<>>
            /\ Answer(call, "no pattern", <<>>)
        BY <2>3 DEF ReadUntilEnd
      <3>2. op = [event |-> "IN", bytes |-> 1] /\ Ends(readbuff) = {}
        BY <3>1 DEF ReaderInv, CallInv, Missing, Buffered
      <3>3. ReadDone(<<>>)
        BY <3>1, <3>2 DEF FileData
      <3>4. op.bytes = 1 /\ ~(Len(<<>>) >= 1)
        <4>1. Len(<<>>) = 0
          BY EmptySeq, Zenon
        <4>2. op.bytes = 1
          BY <3>2
        <4>3. 0 < 1
          OBVIOUS
        <4> QED
          BY <4>1, <4>2, <4>3
      <3>5. closed /\ sent = taken
        BY <3>3, <3>4 DEF ReadDone
      <3> QED
        BY <3>1, <3>2, <3>5, AnswerIs
    <2> QED
      BY <2>1, <2>2, <2>3
  <1>9. RepliesAsAsked'
    BY <1>7, <1>8 DEF RepliesAsAsked, Ends
  <1> QED
    BY <1>6, <1>9 DEF ReaderInv

(* The client is answered with bytes (io.cpp:349-364).                     *)
LEMMA ReaderAnswers ==
  ASSUME FileData, ReaderInv, phase = "returned", call # NoCall, UNCHANGED given,
         ReadAll \/ ReadUpTo \/ Peeked \/ ReadUntilMet
  PROVE  FileData' /\ ReaderInv'
  <1>0. /\ call \in Requests /\ call.kind \in {"upto", "peek", "all", "until"} /\ call.size \in Nat
        /\ op = [event |-> "IN", bytes |-> Missing(call)] /\ ~Buffered(call)
        /\ result.status = "ok"
    BY RequestIs DEF ReadAll, ReadUpTo, Peeked, ReadUntilMet, ReaderInv, CallInv, FileData
  <1>1. /\ readbuff \in Seq(Nat) /\ got \in Seq(Nat) /\ result.data \in Seq(Nat) /\ all \in Seq(Nat)
        /\ all \in InBytes /\ got \in InBytes /\ <<>> \in InBytes
    BY InBytesAre, ConcatProperties DEF ReaderInv, ReceivedInv, FileData, all
  <1>2. (got \o readbuff) \o Pending = got \o all
    <2>1. Pending = result.data
      BY <1>0 DEF Pending
    <2>2. (got \o readbuff) \o result.data = got \o (readbuff \o result.data)
      BY <1>1, Associative, Zenon
    <2> QED
      BY <2>1, <2>2 DEF all
  <1>3. /\ Len(all) = Len(readbuff) + Len(result.data)
        /\ Len(all) \in Nat /\ Len(readbuff) \in Nat /\ Len(result.data) \in Nat
    BY <1>1, ConcatProperties, LenProperties DEF all
  <1>4. ReadDone(result.data)
    BY <1>0 DEF FileData
  <1>5. Settled /\ UNCHANGED <<closed, taken, sent>>
    BY DEF ReadAll, ReadUpTo, Peeked, ReadUntilMet, Settled, fileVars, peerVars
  <1> DEFINE AtEnd == closed /\ taken = sent
  <1>6. CASE ReadAll
    <2>1. call.kind = "all" /\ Answer(call, "ok", all) /\ readbuff' = <<>>
      BY <1>6 DEF ReadAll
    <2>2. got' = got \o all
      BY <2>1 DEF Answer
    <2>3. got' \in InBytes /\ readbuff' \in InBytes
      BY <1>1, <2>1, <2>2, InBytesAre
    <2>4. got' \o readbuff' = (got \o readbuff) \o Pending
      <3>1. got' \in Seq(Nat)
        BY <2>3, InBytesAre
      <3> QED
        BY <1>2, <2>1, <2>2, <3>1, ConcatEmptySeq
    <2>5. FileData' /\ ReceivedInv' /\ CallInv'
      BY <1>1, <1>5, <2>1, <2>3, <2>4, SettledInv, Zenon
    <2>6. AtEnd
      BY <1>0, <1>4, <2>1 DEF Missing, ReadDone
    <2>8. reply'.to = call /\ reply'.status = "ok"
      BY <2>1, AnswerIs
    <2>7. RepliesAsAsked'
      BY <1>5, <2>1, <2>6, <2>8 DEF RepliesAsAsked
    <2> QED
      BY <2>5, <2>7 DEF ReaderInv
  <1>7. CASE ReadUpTo
    <2> DEFINE n == call.size d == UpTo(all, n)
    <2>1. call.kind = "upto" /\ Answer(call, "ok", d) /\ readbuff' = After(all, n)
      BY <1>7 DEF ReadUpTo
    <2>2. d \in InBytes /\ After(all, n) \in InBytes /\ d \o After(all, n) = all
      BY <1>0, <1>1, Split
    <2>3. Len(d) = Lesser(n, Len(all))
      BY <1>0, <1>1, UpToIs
    <2>4. Len(d) = n \/ (Len(d) < n /\ AtEnd)
      <3>1. Missing(call) = n - Len(readbuff)
        BY <2>1 DEF Missing
      <3> QED
        BY <1>0, <1>3, <1>4, <2>3, <3>1 DEF Lesser, ReadDone
    <2> HIDE DEF d
    <2>5. got' = got \o d
      BY <2>1 DEF Answer
    <2>6. got' \in InBytes /\ readbuff' \in InBytes
      BY <1>1, <2>1, <2>2, <2>5, InBytesAre
    <2>7. got' \o readbuff' = (got \o readbuff) \o Pending
      <3>1. d \in Seq(Nat) /\ After(all, n) \in Seq(Nat)
        BY <2>2, InBytesAre
      <3>2. (got \o d) \o After(all, n) = got \o (d \o After(all, n))
        BY <1>1, <3>1, Associative, ZenonT(60)
      <3>3. got' \o readbuff' = (got \o d) \o After(all, n)
        BY <2>1, <2>5
      <3>4. got \o (d \o After(all, n)) = got \o all
        BY <2>2
      <3> QED
        BY <1>2, <3>2, <3>3, <3>4
    <2>8. FileData' /\ ReceivedInv' /\ CallInv'
      BY <1>5, <2>1, <2>2, <2>6, <2>7, SettledInv, Zenon
    <2>9. reply'.data = d /\ reply'.to = call /\ reply'.status = "ok"
      BY <2>1, AnswerIs
    <2>10. RepliesAsAsked'
      BY <1>5, <2>1, <2>4, <2>9 DEF RepliesAsAsked
    <2> QED
      BY <2>8, <2>10 DEF ReaderInv
  <1>8. CASE Peeked
    <2> DEFINE n == call.size d == UpTo(all, n)
    <2>1. call.kind = "peek" /\ Answer(call, "ok", d) /\ readbuff' = all
      BY <1>8 DEF Peeked
    <2>2. d \in InBytes
      BY <1>0, <1>1, Split
    <2>3. Len(d) = Lesser(n, Len(all))
      BY <1>0, <1>1, UpToIs
    <2>4. Len(d) = n \/ (Len(d) < n /\ AtEnd)
      <3>1. Missing(call) = n - Len(readbuff)
        BY <2>1 DEF Missing
      <3> QED
        BY <1>0, <1>3, <1>4, <2>3, <3>1 DEF Lesser, ReadDone
    <2>5. UpTo(all, Len(d)) = d
      <3>1. Lesser(Len(d), Len(all)) = Lesser(n, Len(all))
        BY <1>0, <1>3, <2>3 DEF Lesser
      <3> QED
        BY <3>1 DEF UpTo
    <2> HIDE DEF d
    <2>6. got' = got
      BY <2>1 DEF Answer
    <2>7. got' \o readbuff' = (got \o readbuff) \o Pending
      BY <1>2, <2>1, <2>6
    <2>8. FileData' /\ ReceivedInv' /\ CallInv'
      BY <1>1, <1>5, <2>1, <2>2, <2>6, <2>7, SettledInv
    <2>9. reply'.data = d /\ reply'.to = call /\ reply'.status = "ok"
      BY <2>1, AnswerIs
    <2>11. UpTo(readbuff', Len(d)) = d
      BY <2>1, <2>5
    <2>10. RepliesAsAsked'
      BY <1>5, <2>1, <2>4, <2>9, <2>11 DEF RepliesAsAsked, UpTo, Lesser
    <2> QED
      BY <2>8, <2>10 DEF ReaderInv
  <1>9. CASE ReadUntilMet
    <2> DEFINE n == Min(Ends(all)) d == UpTo(all, n)
    <2>1. call.kind = "until" /\ Answer(call, "ok", d) /\ readbuff' = After(all, n)
          /\ Ends(all) # {}
      BY <1>9 DEF ReadUntilMet
    <2>2. n \in Nat
      BY <1>1, <1>3, <2>1, FirstEnd
    <2>3. Ends(d) = {Len(d)}
      BY <1>1, <2>1, OnlyEnd
    <2> HIDE DEF n
    <2>4. d \in InBytes /\ After(all, n) \in InBytes /\ d \o After(all, n) = all
      BY <1>1, <2>2, Split
    <2> HIDE DEF d
    <2>5. got' = got \o d
      BY <2>1 DEF Answer
    <2>6. got' \in InBytes /\ readbuff' \in InBytes
      BY <1>1, <2>1, <2>4, <2>5, InBytesAre
    <2>7. got' \o readbuff' = (got \o readbuff) \o Pending
      <3>1. d \in Seq(Nat) /\ After(all, n) \in Seq(Nat)
        BY <2>4, InBytesAre
      <3>2. (got \o d) \o After(all, n) = got \o (d \o After(all, n))
        BY <1>1, <3>1, Associative, ZenonT(60)
      <3>3. got' \o readbuff' = (got \o d) \o After(all, n)
        BY <2>1, <2>5
      <3>4. got \o (d \o After(all, n)) = got \o all
        BY <2>4
      <3> QED
        BY <1>2, <3>2, <3>3, <3>4
    <2>8. FileData' /\ ReceivedInv' /\ CallInv'
      BY <1>5, <2>1, <2>4, <2>6, <2>7, SettledInv, Zenon
    <2>9. reply'.data = d /\ reply'.to = call /\ reply'.status = "ok"
      BY <2>1, AnswerIs
    <2>10. RepliesAsAsked'
      BY <2>1, <2>3, <2>9 DEF RepliesAsAsked, Ends
    <2> QED
      BY <2>8, <2>10 DEF ReaderInv
  <1> QED
    BY <1>6, <1>7, <1>8, <1>9

(* The lambdas that map the result keep the invariant of the reader.       *)
LEMMA ReaderMapped ==
  ASSUME FileData, ReaderInv, Mapped
  PROVE  FileData' /\ ReaderInv' /\ (SpaceInv => SpaceInv')
  <1>1. UNCHANGED space
    BY DEF Mapped, Failed, Written, ReadAll, ReadUpTo, Peeked, ReadUntilEnd, ReadUntilMet,
      ReadUntilMore, Settled, fileVars, peerVars
  <1>2. SpaceInv => SpaceInv'
    BY <1>1 DEF SpaceInv
  <1> QED
    BY <1>2, ReaderNothing, ReaderAnswers, ReaderGoesOn DEF Mapped
------------------------------------------------------------------------------
(* Flush n is of the bytes behind position B[n], up to B[n + 1]; the rest  *)
(* is in the buffer.                                                       *)
Laid(B) ==
  LET last == Len(flushes) + 1 IN
  /\ B \in [1..last -> Nat] /\ B[1] = 0
  /\ \A m, n \in 1..last : m <= n => B[m] <= B[n]
  /\ \A n \in 1..Len(flushes) : flushes[n] = Run(B[n], B[n + 1])
  /\ B[last] <= written /\ buffer = Run(B[last], written)

(* What the flushes before have written, and the one that is on its way.   *)
WrittenTo(B) ==
  /\ lflush = "ok" /\ phase = "none" => Len(wrote) = B[flushed + 1]
  /\ phase = "returned" =>
       IF result.status = "ok" THEN Len(wrote) = B[flushed + 2] ELSE result.status \in failed
  /\ Busy => Len(wrote) <= B[flushed + 2] /\ data = Run(Len(wrote), B[flushed + 2])

(* Flushes are completed in their order, the last one that is on its way   *)
(* is the only one, and after a failure none is written (io.hpp:189-199).  *)
FlushOrder ==
  /\ written \in Nat /\ flushes \in Seq(Seq(Nat)) /\ launched \in Nat /\ flushed \in Nat
  /\ flushed <= launched /\ launched <= Len(flushes)
  /\ ~open => buffer = <<>>
  /\ phase # "none" => flushed < launched /\ lflush = "ok"
  /\ lflush # "ok" => lflush \in failed
  /\ eod # "none" => ~open /\ flushed = Len(flushes) /\ eod = lflush

(* The bytes that are written are the first ones.                          *)
WroteInOrder ==
  /\ op.event # "IN"
  /\ Len(wrote) \in Nat /\ wrote = Run(0, Len(wrote)) /\ Len(wrote) <= written

(* The invariant of the writer: some positions are those of its flushes.   *)
WriterInv == FlushOrder /\ WroteInOrder /\ \E B : Laid(B) /\ WrittenTo(B)

(* It holds at first, where there is no flush.                             *)
LEMMA InitWriter == Init => WriterInv
  <1> SUFFICES ASSUME Init PROVE WriterInv
    OBVIOUS
  <1>1. /\ buffer = <<>> /\ written = 0 /\ flushes = <<>> /\ launched = 0 /\ flushed = 0
        /\ lflush = "ok" /\ open = TRUE /\ eod = "none" /\ phase = "none" /\ wrote = <<>>
        /\ op.event = "none"
    BY DEF Init, WriterInit, FileInit, IOInit, Idle
  <1>2. Len(wrote) = 0 /\ Len(flushes) = 0 /\ flushes \in Seq(Seq(Nat))
    BY <1>1, EmptySeq, Zenon
  <1>3. Run(0, 0) = <<>>
    BY RunEmpty
  <1>4. FlushOrder /\ WroteInOrder
    BY <1>1, <1>2, <1>3 DEF FlushOrder, WroteInOrder
  <1> DEFINE B == [n \in 1..1 |-> 0]
  <1>5. B \in [1..1 -> Nat] /\ B[1] = 0
    OBVIOUS
  <1> HIDE DEF B
  <1>6. Laid(B)
    BY <1>1, <1>2, <1>3, <1>5 DEF Laid
  <1>7. WrittenTo(B)
    BY <1>1, <1>2, <1>5 DEF WrittenTo, Busy
  <1> QED
    BY <1>4, <1>6, <1>7 DEF WriterInv

(* The steps that do not add a flush leave the places as they are.         *)
LEMMA LaidSame ==
  ASSUME NEW B, Laid(B), UNCHANGED <<flushes, buffer, written>>
  PROVE  Laid(B)'
  BY Zenon DEF Laid

(* No position is beyond what was written to the writer.                   *)
LEMMA PlaceIs ==
  ASSUME NEW B, Laid(B), FlushOrder, NEW n \in 1..(Len(flushes) + 1)
  PROVE  B[n] \in Nat /\ B[n] <= written
  <1>1. Len(flushes) \in Nat /\ written \in Nat
    BY LenProperties DEF FlushOrder
  <1>2. Len(flushes) + 1 \in 1..(Len(flushes) + 1)
    BY <1>1
  <1> DEFINE last == Len(flushes) + 1
  <1>3. B[n] \in Nat /\ B[last] \in Nat /\ B[n] <= B[last] /\ B[last] <= written
    BY <1>1, <1>2 DEF Laid
  <1> HIDE DEF last
  <1> QED
    BY <1>1, <1>3

(* A byte is written to the writer: the buffer grows.                      *)
LEMMA WriterWrites ==
  ASSUME WriterInv, WriterWrite
  PROVE  WriterInv'
  <1> PICK B : Laid(B) /\ WrittenTo(B)
    BY DEF WriterInv
  <1> DEFINE last == Len(flushes) + 1
  <1>1. /\ open /\ written' = written + 1 /\ buffer' = Append(buffer, written + 1)
        /\ UNCHANGED <<flushes, launched, flushed, lflush, open, eod, phase, wrote, op, data,
                       result, failed>>
    BY DEF WriterWrite, ioVars, fileVars, opVars
  <1>2. written \in Nat /\ Len(flushes) \in Nat
    BY LenProperties DEF WriterInv, FlushOrder
  <1>3. B[last] \in Nat /\ B[last] <= written /\ buffer = Run(B[last], written)
    BY <1>2 DEF Laid
  <1>4. buffer' = Run(B[last], written')
    BY <1>1, <1>2, <1>3, RunGrows
  <1>5. Laid(B)'
    BY <1>1, <1>2, <1>3, <1>4 DEF Laid
  <1>6. WrittenTo(B)'
    BY <1>1 DEF WrittenTo, Busy
  <1>7. FlushOrder' /\ WroteInOrder'
    BY <1>1, <1>2 DEF WriterInv, FlushOrder, WroteInOrder
  <1> QED
    BY <1>5, <1>6, <1>7 DEF WriterInv

(* A flush is made of the buffer: its end is a new position.               *)
LEMMA FlushMade ==
  ASSUME WriterInv, MakeFlush, UNCHANGED <<written, flushed, lflush, eod, ioVars, fileVars>>,
         open, launched' \in {launched, Len(flushes')}
  PROVE  WriterInv'
  <1> PICK B : Laid(B) /\ WrittenTo(B)
    BY DEF WriterInv
  <1> DEFINE last == Len(flushes) + 1
  <1> PICK C : C = [n \in 1..(last + 1) |-> IF n <= last THEN B[n] ELSE written]
    OBVIOUS
  <1>0. /\ buffer' = <<>> /\ flushes' = Append(flushes, buffer)
        /\ UNCHANGED <<written, flushed, lflush, eod, phase, wrote, op, data, result, failed>>
    BY DEF MakeFlush, ioVars, fileVars, opVars
  <1>1. written \in Nat /\ Len(flushes) \in Nat /\ last \in Nat
    BY LenProperties DEF WriterInv, FlushOrder
  <1>2. /\ B[last] \in Nat /\ B[last] <= written /\ buffer = Run(B[last], written)
        /\ \A n \in 1..last : B[n] \in Nat
        /\ \A m, n \in 1..last : m <= n => B[m] <= B[n]
        /\ \A n \in 1..Len(flushes) : flushes[n] = Run(B[n], B[n + 1])
        /\ B[1] = 0
    BY <1>1, SMTT(30) DEF Laid
  <1>3. buffer \in Seq(Nat)
    BY <1>1, <1>2, RunLen
  <1>4. /\ flushes' \in Seq(Seq(Nat)) /\ Len(flushes') = last
        /\ \A n \in 1..Len(flushes) : flushes'[n] = flushes[n]
        /\ flushes'[last] = buffer
    BY <1>0, <1>3, AppendProperties DEF WriterInv, FlushOrder
  <1>5. /\ \A n \in 1..last : C[n] = B[n]
        /\ C[last + 1] = written /\ C \in [1..(last + 1) -> Nat]
    BY <1>1, <1>2
  <1>6. \A m, n \in 1..(last + 1) : m <= n => C[m] <= C[n]
    <2> SUFFICES ASSUME NEW m \in 1..(last + 1), NEW n \in 1..(last + 1), m <= n PROVE C[m] <= C[n]
      OBVIOUS
    <2>1. CASE n \in 1..last
      <3>1. m \in 1..last
        BY <1>1, <2>1
      <3> QED
        BY <1>2, <1>5, <2>1, <3>1
    <2>2. CASE n = last + 1 /\ m \in 1..last
      <3>1. B[m] <= B[last] /\ B[m] \in Nat
        BY <1>1, <1>2, <2>2
      <3> QED
        BY <1>1, <1>2, <1>5, <2>2, <3>1
    <2>3. CASE n = last + 1 /\ m = last + 1
      BY <1>1, <1>5, <2>3
    <2> QED
      BY <1>1, <2>1, <2>2, <2>3
  <1>7. \A n \in 1..last : flushes'[n] = Run(C[n], C[n + 1])
    <2> TAKE n \in 1..last
    <2>1. CASE n = last
      BY <1>1, <1>2, <1>4, <1>5, <2>1
    <2>2. CASE n # last
      <3>1. n \in 1..Len(flushes) /\ n + 1 \in 1..last
        BY <1>1, <2>2
      <3> QED
        BY <1>2, <1>4, <1>5, <3>1
    <2> QED
      BY <2>1, <2>2
  <1>8. Laid(C)'
    <2>1. Run(written, written) = <<>>
      BY <1>1, RunEmpty
    <2>2. 1 \in 1..last
      BY <1>1
    <2>3. Len(flushes') + 1 = last + 1
      BY <1>4
    <2>4. /\ C \in [1..(last + 1) -> Nat] /\ C[1] = 0
          /\ C[last + 1] <= written' /\ buffer' = Run(C[last + 1], written')
      BY <1>0, <1>1, <1>2, <1>5, <2>1, <2>2
    <2>5. last = Len(flushes')
      BY <1>4
    <2> HIDE DEF last
    <2> QED
      BY <1>6, <1>7, <2>4, <2>5 DEF Laid
  <1>9. WrittenTo(C)'
    <2>1. /\ flushed \in Nat /\ flushed + 1 \in 1..last
          /\ phase # "none" => flushed + 2 \in 1..last
      BY <1>1 DEF WriterInv, FlushOrder
    <2>2. C[flushed + 1] = B[flushed + 1] /\ (phase # "none" => C[flushed + 2] = B[flushed + 2])
      BY <1>5, <2>1
    <2>3. lflush' = "ok" /\ phase' = "none" => Len(wrote') = C[flushed' + 1]
      BY <1>0, <2>2 DEF WrittenTo
    <2>4. phase' = "returned" =>
            IF result'.status = "ok" THEN Len(wrote') = C[flushed' + 2] ELSE result'.status \in failed'
      BY <1>0, <2>2 DEF WrittenTo
    <2>5. Busy' => Len(wrote') <= C[flushed' + 2] /\ data' = Run(Len(wrote'), C[flushed' + 2])
      BY <1>0, <2>2 DEF WrittenTo, Busy
    <2> QED
      BY <2>3, <2>4, <2>5 DEF WrittenTo
  <1>10. FlushOrder' /\ WroteInOrder'
    BY <1>0, <1>1, <1>4 DEF WriterInv, FlushOrder, WroteInOrder
  <1> QED
    BY <1>8, <1>9, <1>10 DEF WriterInv
(* The steps of the writer and of its flushes, with what they do to the file. *)
LEMMA WriterSteps ==
  ASSUME FileData, WriterInv, WriterClient \/ WriterEngine
  PROVE  FileData' /\ WriterInv' /\ (SpaceInv => SpaceInv')
  <1> PICK B : Laid(B) /\ WrittenTo(B)
    BY DEF WriterInv
  <1>0. /\ written \in Nat /\ Len(flushes) \in Nat /\ launched \in Nat /\ flushed \in Nat
        /\ flushed <= launched /\ launched <= Len(flushes)
    BY LenProperties DEF WriterInv, FlushOrder
  <1>1. ASSUME UNCHANGED <<ioVars, fileVars>> PROVE FileData' /\ (SpaceInv => SpaceInv')
    BY <1>1 DEF ioVars, fileVars, opVars, peerVars, FileData, Busy, ReadDone, SpaceInv
  <1>2. CASE WriterWrite
    <2>1. UNCHANGED <<ioVars, fileVars>>
      BY <1>2 DEF WriterWrite
    <2> QED
      BY <1>1, <1>2, <2>1, WriterWrites
  <1>3. CASE Flush \/ WriterGone
    <2>1. /\ UNCHANGED <<ioVars, fileVars>> /\ MakeFlush /\ open /\ launched' \in {launched, Len(flushes')}
          /\ UNCHANGED <<written, flushed, lflush, eod>>
      BY <1>3 DEF Flush, WriterGone
    <2> QED
      BY <1>1, <2>1, FlushMade
  <1>4. ASSUME NEW n \in 1..MaxFlushes, LaunchFlush(n)
        PROVE  FileData' /\ WriterInv' /\ (SpaceInv => SpaceInv')
    <2>1. /\ launched' = n /\ n > launched /\ n \in 1..Len(flushes) /\ UNCHANGED <<ioVars, fileVars>>
          /\ UNCHANGED <<buffer, written, flushes, flushed, lflush, open, eod>>
      <3>1. DOMAIN flushes = 1..Len(flushes)
        BY LenProperties DEF WriterInv, FlushOrder
      <3> QED
        BY <1>4, <3>1 DEF LaunchFlush
    <2>2. UNCHANGED <<phase, wrote, op, data, result, failed>>
      BY <2>1 DEF ioVars, fileVars, opVars
    <2>3. WrittenTo(B)'
      BY <2>1, <2>2 DEF WrittenTo, Busy
    <2>4. FlushOrder' /\ WroteInOrder'
      BY <1>0, <2>1, <2>2 DEF WriterInv, FlushOrder, WroteInOrder
    <2> QED
      BY <1>1, <2>1, <2>3, <2>4, LaidSame DEF WriterInv
  <1>5. CASE FlushStarts
    <2>1. /\ flushed < launched /\ lflush = "ok" /\ phase = "none" /\ phase' = "resume"
          /\ op' = [event |-> "OUT", bytes |-> 0] /\ data' = flushes[flushed + 1] /\ result' = NoResult
          /\ UNCHANGED <<buffer, written, flushes, launched, flushed, lflush, open, eod>>
          /\ UNCHANGED <<sent, closed, taken, wrote, failed, space>>
      BY <1>5 DEF FlushStarts, Launch, writerVars, peerVars
    <2>2. flushed + 1 \in 1..Len(flushes) /\ flushed + 1 \in 1..(Len(flushes) + 1)
          /\ flushed + 2 \in 1..(Len(flushes) + 1)
      BY <1>0, <2>1
    <2>3. data' = Run(B[flushed + 1], B[flushed + 2]) /\ B[flushed + 1] <= B[flushed + 2]
      <3>1. (flushed + 1) + 1 = flushed + 2 /\ flushed + 1 <= flushed + 2
        BY <1>0
      <3> QED
        BY <2>1, <2>2, <3>1 DEF Laid
    <2>4. Len(wrote) = B[flushed + 1]
      BY <2>1 DEF WrittenTo
    <2>5. WrittenTo(B)'
      BY <2>1, <2>3, <2>4 DEF WrittenTo, Busy
    <2>6. FlushOrder' /\ WroteInOrder'
      BY <2>1 DEF WriterInv, FlushOrder, WroteInOrder
    <2>7. data' \in Seq(Nat)
      BY <2>1, <2>2, ElementOfSeq DEF WriterInv, FlushOrder
    <2>8. FileData'
      BY <2>1, <2>7, InBytesAre DEF FileData, Busy, NoResult, Statuses, Operations
    <2> QED
      BY <2>1, <2>5, <2>6, <2>8, LaidSame DEF WriterInv, SpaceInv
  <1>6. CASE FlushFails
    <2>1. /\ flushed < launched /\ lflush # "ok" /\ flushed' = flushed + 1
          /\ UNCHANGED <<buffer, written, flushes, launched, lflush, open, eod>>
          /\ UNCHANGED <<ioVars, fileVars>>
      BY <1>6 DEF FlushFails
    <2>2. UNCHANGED <<phase, wrote, op, data, result, failed>>
      BY <2>1 DEF ioVars, fileVars, opVars
    <2>3. phase = "none"
      BY <2>1 DEF WriterInv, FlushOrder
    <2>4. WrittenTo(B)'
      BY <2>1, <2>2, <2>3 DEF WrittenTo, Busy
    <2>5. FlushOrder' /\ WroteInOrder'
      BY <1>0, <2>1, <2>2, <2>3 DEF WriterInv, FlushOrder, WroteInOrder
    <2> QED
      BY <1>1, <2>1, <2>4, <2>5, LaidSame DEF WriterInv
  <1>7. CASE FlushEnds
    <2>1. /\ phase = "returned" /\ phase' = "none" /\ flushed' = flushed + 1 /\ lflush' = result.status
          /\ UNCHANGED <<buffer, written, flushes, launched, open, eod>> /\ UNCHANGED fileVars
      BY <1>7 DEF FlushEnds
    <2>2. UNCHANGED <<sent, closed, taken, wrote, op, data, result, failed, space>>
      BY <2>1 DEF fileVars, opVars, peerVars
    <2>3. flushed < launched /\ lflush = "ok"
      BY <2>1 DEF WriterInv, FlushOrder
    <2>4. IF result.status = "ok" THEN Len(wrote) = B[flushed + 2] ELSE result.status \in failed
      BY <2>1 DEF WrittenTo
    <2>5. WrittenTo(B)'
      <3>1. (flushed + 1) + 1 = flushed + 2
        BY <1>0
      <3> QED
        BY <2>1, <2>2, <2>4, <3>1 DEF WrittenTo, Busy
    <2>6. FlushOrder' /\ WroteInOrder'
      BY <1>0, <2>1, <2>2, <2>3, <2>4 DEF WriterInv, FlushOrder, WroteInOrder
    <2>7. FileData'
      BY <2>1, <2>2 DEF FileData, Busy
    <2> QED
      BY <2>1, <2>2, <2>5, <2>6, <2>7, LaidSame DEF WriterInv, SpaceInv
  <1>8. CASE EodCompleted
    <2>1. /\ ~open /\ flushed = Len(flushes) /\ eod' = lflush /\ UNCHANGED <<ioVars, fileVars>>
          /\ UNCHANGED <<buffer, written, flushes, launched, flushed, lflush, open>>
      BY <1>8 DEF EodCompleted
    <2>2. UNCHANGED <<phase, wrote, op, data, result, failed>>
      BY <2>1 DEF ioVars, fileVars, opVars
    <2>3. WrittenTo(B)'
      BY <2>1, <2>2 DEF WrittenTo, Busy
    <2>4. FlushOrder' /\ WroteInOrder'
      BY <2>1, <2>2 DEF WriterInv, FlushOrder, WroteInOrder
    <2> QED
      BY <1>1, <2>1, <2>3, <2>4, LaidSame DEF WriterInv
  <1> QED
    BY <1>2, <1>3, <1>4, <1>5, <1>6, <1>7, <1>8 DEF WriterClient, WriterEngine

(* The steps of an operation, on what is written.                          *)
LEMMA WriterMoves ==
  ASSUME FileData, WriterInv, Busy, Moves, UNCHANGED writerVars
  PROVE  WriterInv'
  <1> PICK B : Laid(B) /\ WrittenTo(B)
    BY DEF WriterInv
  <1>0. UNCHANGED <<buffer, written, flushes, launched, flushed, lflush, open, eod>>
    BY DEF writerVars
  <1>1. /\ phase # "none" /\ op.event # "IN" /\ flushed < launched /\ lflush = "ok"
        /\ Len(wrote) <= B[flushed + 2] /\ data = Run(Len(wrote), B[flushed + 2])
        /\ Len(wrote) \in Nat /\ wrote = Run(0, Len(wrote)) /\ Len(wrote) <= written
    BY DEF Busy, WriterInv, FlushOrder, WroteInOrder, WrittenTo
  <1>2. /\ flushed \in Nat /\ flushed + 2 \in 1..(Len(flushes) + 1) /\ written \in Nat
    BY <1>1, LenProperties DEF WriterInv, FlushOrder
  <1>3. B[flushed + 2] \in Nat /\ B[flushed + 2] <= written
    BY <1>2, PlaceIs DEF WriterInv
  <1> DEFINE to == B[flushed + 2]
  <1>4. CASE GoesOn
    <2>1. phase' # "none" /\ Busy' /\ UNCHANGED <<wrote, op, data, result, failed>>
      BY <1>4 DEF GoesOn, dataVars, Busy
    <2>2. WrittenTo(B)'
      BY <1>0, <1>1, <2>1 DEF WrittenTo, Busy
    <2>3. FlushOrder' /\ WroteInOrder'
      BY <1>0, <1>1, <2>1 DEF WriterInv, FlushOrder, WroteInOrder
    <2> QED
      BY <1>0, <2>2, <2>3, LaidSame DEF WriterInv
  <1>5. CASE Fails
    <2> PICK s \in Statuses \ {"none", "ok"} :
          /\ phase' = "returned" /\ result' = [status |-> s, data |-> <<>>] /\ data' = <<>>
          /\ failed' = failed \cup {s} /\ UNCHANGED <<sent, closed, taken, wrote, op>>
      BY <1>5 DEF Fails
    <2>1. result'.status = s /\ s # "ok" /\ s \in failed'
      OBVIOUS
    <2>2. WrittenTo(B)'
      BY <2>1 DEF WrittenTo, Busy
    <2>3. FlushOrder' /\ WroteInOrder'
      BY <1>0, <1>1 DEF WriterInv, FlushOrder, WroteInOrder
    <2> QED
      BY <1>0, <2>2, <2>3, LaidSame DEF WriterInv
  <1>6. CASE WritesNone
    <2>1. /\ data = <<>> /\ UNCHANGED <<wrote, op, data, failed>>
          /\ phase' = "returned" /\ result'.status = "ok"
      BY <1>6 DEF WritesNone
    <2>2. Len(wrote) = to
      BY <1>1, <1>3, <2>1, RunEmpty
    <2>3. WrittenTo(B)'
      BY <1>0, <2>1, <2>2 DEF WrittenTo, Busy
    <2>4. FlushOrder' /\ WroteInOrder'
      BY <1>0, <1>1, <2>1 DEF WriterInv, FlushOrder, WroteInOrder
    <2> QED
      BY <1>0, <2>3, <2>4, LaidSame DEF WriterInv
  <1>7. ASSUME NEW n \in Nat \ {0}, WritesOn(n) PROVE WriterInv'
    <2> DEFINE l == Len(wrote) m == Len(wrote) + n
    <2>1. Len(data) = to - l /\ n <= Len(data)
      BY <1>1, <1>3, <1>7, RunLen DEF WritesOn
    <2>2. m \in Nat /\ l <= m /\ m <= to /\ m - l = n /\ 0 \in Nat /\ 0 <= l /\ 0 <= m
      BY <1>1, <1>3, <2>1
    <2>3. wrote' = wrote \o SubSeq(data, 1, n) /\ data' = SubSeq(data, n + 1, Len(data))
      BY <1>7 DEF WritesOn
    <2>4. SubSeq(data, 1, n) = Run(l, m) /\ data' = Run(m, to)
      <3>1. l \in Nat /\ to \in Nat /\ n \in Nat /\ l + n <= to /\ data = Run(l, to)
        BY <1>1, <1>3, <2>2
      <3>2. /\ SubSeq(Run(l, to), 1, n) = Run(l, m)
            /\ SubSeq(Run(l, to), n + 1, Len(Run(l, to))) = Run(m, to)
        BY <3>1, RunParts, Zenon
      <3> QED
        BY <2>3, <3>1, <3>2
    <2>5. wrote' = Run(0, m)
      <3>1. Run(0, l) \o Run(l, m) = Run(0, m)
        BY <1>1, <2>2, RunJoin, Zenon
      <3> QED
        BY <1>1, <2>3, <2>4, <3>1
    <2>6. Len(wrote') = m
      BY <2>2, <2>5, RunLen
    <2>7. /\ UNCHANGED <<op, failed>>
          /\ \/ Busy' /\ phase' # "none" /\ phase' # "returned"
             \/ phase' = "returned" /\ data' = <<>> /\ result'.status = "ok"
      BY <1>7 DEF WritesOn, Busy
    <2>8. data' = <<>> => m = to
      BY <1>3, <2>2, <2>4, RunEmpty
    <2> HIDE DEF m
    <2>9. WrittenTo(B)'
      BY <1>0, <2>2, <2>4, <2>6, <2>7, <2>8 DEF WrittenTo, Busy
    <2>10. FlushOrder' /\ WroteInOrder'
      BY <1>0, <1>1, <1>3, <2>2, <2>5, <2>6, <2>7, <1>2 DEF WriterInv, FlushOrder, WroteInOrder
    <2> QED
      BY <1>0, <2>9, <2>10, LaidSame DEF WriterInv
  <1>8. CASE ReadsEnd \/ \E n \in Nat \ {0} : ReadsOn(n)
    BY <1>1, <1>8 DEF ReadsEnd, ReadsOn
  <1> QED
    BY <1>4, <1>5, <1>6, <1>7, <1>8 DEF Moves

(* Those that leave the operation alone write nothing.                     *)
LEMMA WriterStill ==
  ASSUME WriterInv, Still, UNCHANGED writerVars
  PROVE  WriterInv'
  <1> PICK B : Laid(B) /\ WrittenTo(B)
    BY DEF WriterInv
  <1>0. UNCHANGED <<buffer, written, flushes, launched, flushed, lflush, open, eod>>
    BY DEF writerVars
  <1>1. /\ UNCHANGED <<wrote, op, data, result, failed>>
        /\ phase' = phase \/ (Busy /\ Busy' /\ phase # "none" /\ phase' # "none")
    BY DEF Still, Busy
  <1>2. WrittenTo(B)'
    BY <1>0, <1>1 DEF WrittenTo, Busy
  <1>3. FlushOrder' /\ WroteInOrder'
    BY <1>0, <1>1 DEF WriterInv, FlushOrder, WroteInOrder
  <1> QED
    BY <1>0, <1>2, <1>3, LaidSame DEF WriterInv
------------------------------------------------------------------------------
(* What the scenarios that do not read leave as it was, ...                *)
Unread == op.event # "IN" /\ got = <<>> /\ readbuff = <<>> /\ taken = 0 /\ reply = NoReply

(* ... and those that have no file.                                        *)
Unused == Unread /\ sent = 0 /\ op = Idle

(* The invariant of all scenarios.                                         *)
BytesInv ==
  /\ SpaceInv
  /\ scenario = "reader" => FileData /\ ReaderInv /\ WriterInit
  /\ scenario = "writer" => FileData /\ WriterInv /\ Unread
  /\ scenario \notin {"reader", "writer"} => Unused /\ WriterInit

(* It holds at first.                                                      *)
LEMMA InitBytes == Init => BytesInv
  <1> SUFFICES ASSUME Init PROVE BytesInv
    OBVIOUS
  <1>1. /\ op = Idle /\ data = <<>> /\ result = NoResult /\ failed = {} /\ phase = "none"
        /\ taken = 0 /\ space = Capacity
        /\ readbuff = <<>> /\ got = <<>> /\ given = 0 /\ call = NoCall /\ reply = NoReply
        /\ WriterInit /\ sent \in {0, InSize}
    BY DEF Init, FileInit, IOInit, BufferInit
  <1>2. SpaceInv
    BY <1>1, FileAssumption DEF SpaceInv
  <1>3. FileData
    BY <1>1, FileAssumption, InBytesAre DEF FileData, Busy, NoResult, Statuses, Idle
  <1>4. Unread
    BY <1>1 DEF Unread, Idle
  <1>5. CallInv
    BY <1>1, InBytesAre DEF CallInv, NoReply
  <1>6. RepliesAsAsked
    BY <1>1, NoReplyYet
  <1>7. ReceivedInv
    <2>1. <<>> \in Seq(Nat) /\ Len(<<>>) = 0
      BY EmptySeq, Zenon
    <2>2. Run(0, 0) = <<>>
      BY RunEmpty
    <2>3. Pending = <<>>
      BY <1>1 DEF Pending, Idle
    <2>4. Received = <<>>
      BY <1>1, <2>1, <2>3, ReceivedIs, ConcatEmptySeq
    <2>5. Accounted(<<>>, 0)
      BY <2>1 DEF Accounted
    <2> QED
      BY <1>1, <2>2, <2>4, <2>5, InBytesAre DEF ReceivedInv
  <1>8. scenario \notin {"reader", "writer"} => sent = 0
    BY DEF Init, FileInit
  <1> QED
    BY <1>1, <1>2, <1>3, <1>4, <1>5, <1>6, <1>7, <1>8, InitWriter DEF BytesInv, ReaderInv, Unused

(* The steps of the reader.                                                *)
LEMMA ReaderSteps ==
  ASSUME FileData, ReaderInv, SpaceInv, Reader,
         \/ ReaderClient \/ Mapped \/ (FileStep /\ UNCHANGED bufferVars)
         \/ (FileEvent \/ FileNotify) /\ UNCHANGED bufferVars
  PROVE  FileData' /\ ReaderInv' /\ SpaceInv'
  <1>1. ASSUME NEW q \in Requests, Call(q) PROVE FileData' /\ ReaderInv' /\ SpaceInv'
    BY <1>1, ReaderCall
  <1>2. CASE Mapped
    BY <1>2, ReaderMapped
  <1>3. CASE FileGenerator /\ UNCHANGED bufferVars
    BY <1>3, GeneratorBytes, GeneratorSpace, MovesData, ReaderMoves
  <1>4. CASE /\ UNCHANGED bufferVars
             /\ \/ FileEvent \/ FileNotify \/ FileCancel \/ FilePeer \/ FileGone
                \/ (EngineStep /\ UNCHANGED fileVars)
    <2>1. Still /\ SpaceInv'
      BY <1>4, StillSteps
    <2> QED
      BY <1>4, <2>1, StillData, ReaderStill
  <1> QED
    BY <1>1, <1>2, <1>3, <1>4 DEF ReaderClient, FileStep

(* Only reads take bytes from the kernel.                                  *)
LEMMA TakenSame ==
  ASSUME op.event # "IN", Moves \/ Still PROVE UNCHANGED <<taken, op>>
  BY DEF Moves, GoesOn, Fails, ReadsEnd, WritesNone, ReadsOn, WritesOn, dataVars, Still

(* The steps of the writer.                                                *)
LEMMA WritingSteps ==
  ASSUME FileData, WriterInv, Unread, SpaceInv, Writing,
         \/ WriterScenario \/ WriterEngine \/ (FileStep /\ UNCHANGED writerVars)
         \/ (FileEvent \/ FileNotify) /\ UNCHANGED writerVars
  PROVE  FileData' /\ WriterInv' /\ Unread' /\ SpaceInv'
  <1>0. UNCHANGED <<readbuff, got, reply>> /\ op.event # "IN"
    BY DEF Writing, bufferVars, Unread
  <1>1. CASE WriterClient \/ WriterEngine
    <2>1. FileData' /\ WriterInv' /\ SpaceInv'
      BY <1>1, WriterSteps
    <2>2. UNCHANGED taken
      BY <1>1 DEF WriterClient, WriterEngine, WriterWrite, Flush, WriterGone, LaunchFlush,
        FlushStarts, Launch, FlushFails, FlushEnds, EodCompleted, fileVars
    <2>3. op'.event # "IN"
      BY <2>1 DEF WriterInv, WroteInOrder
    <2> QED
      BY <1>0, <2>1, <2>2, <2>3 DEF Unread
  <1>2. CASE FileGenerator /\ UNCHANGED writerVars
    <2>1. Busy /\ Moves /\ SpaceInv'
      BY <1>2, GeneratorBytes, GeneratorSpace
    <2>2. UNCHANGED <<taken, op>>
      BY <1>0, <2>1, TakenSame
    <2> QED
      BY <1>0, <1>2, <2>1, <2>2, MovesData, WriterMoves DEF Unread
  <1>3. CASE /\ UNCHANGED writerVars
             /\ \/ FileEvent \/ FileNotify \/ FileCancel \/ FilePeer \/ FileGone
                \/ (EngineStep /\ UNCHANGED fileVars)
    <2>1. Still /\ SpaceInv'
      BY <1>3, StillSteps
    <2>2. UNCHANGED <<taken, op>>
      BY <1>0, <2>1, TakenSame
    <2> QED
      BY <1>0, <1>3, <2>1, <2>2, StillData, WriterStill DEF Unread
  <1> QED
    BY <1>1, <1>2, <1>3 DEF WriterScenario, FileStep, FilePeer

(* Steps that do not touch a file keep the invariant ...                   *)
LEMMA BytesSame ==
  ASSUME BytesInv, UNCHANGED <<scenario, resourceVars>>,
         scenario \in {"reader", "writer"} => UNCHANGED phase
  PROVE  BytesInv'
  <1>0. UNCHANGED <<fileVars, bufferVars, writerVars>>
    BY DEF resourceVars
  <1>1. SpaceInv'
    BY <1>0 DEF BytesInv, SpaceInv, fileVars, peerVars
  <1>2. ASSUME scenario \in {"reader", "writer"} PROVE FileData => Still
    BY <1>0, <1>2, FileAssumption DEF Still, fileVars, peerVars, opVars, FileData
  <1>3. CASE scenario = "reader"
    <2>1. FileData' /\ ReaderInv'
      BY <1>0, <1>2, <1>3, StillData, ReaderStill DEF BytesInv
    <2>2. WriterInit'
      BY <1>0, <1>3 DEF BytesInv, WriterInit, writerVars
    <2> QED
      BY <1>1, <1>3, <2>1, <2>2 DEF BytesInv
  <1>4. CASE scenario = "writer"
    <2>1. FileData' /\ WriterInv'
      BY <1>0, <1>2, <1>4, StillData, WriterStill DEF BytesInv
    <2>2. Unread'
      BY <1>0, <1>4 DEF BytesInv, Unread, fileVars, opVars, bufferVars
    <2> QED
      BY <1>1, <1>4, <2>1, <2>2 DEF BytesInv
  <1>5. CASE scenario \notin {"reader", "writer"}
    <2>1. WriterInit'
      BY <1>0, <1>5 DEF BytesInv, WriterInit, writerVars
    <2>2. Unused'
      BY <1>0, <1>5 DEF BytesInv, Unused, Unread, fileVars, opVars, peerVars, bufferVars
    <2> QED
      BY <1>1, <1>5, <2>1, <2>2 DEF BytesInv
  <1> QED
    BY <1>3, <1>4, <1>5

(* ... and so does every other.                                            *)
LEMMA BytesSteps == BytesInv /\ [Next]_vars => BytesInv'
  <1> SUFFICES ASSUME BytesInv, [Next]_vars PROVE BytesInv'
    OBVIOUS
  <1>1. CASE /\ Reader
             /\ \/ ReaderClient \/ Mapped \/ (FileStep /\ UNCHANGED bufferVars)
                \/ (FileEvent \/ FileNotify) /\ UNCHANGED bufferVars
    <2>1. scenario = "reader" /\ scenario' = "reader" /\ UNCHANGED writerVars
      BY <1>1 DEF Reader
    <2>2. FileData' /\ ReaderInv' /\ SpaceInv'
      BY <1>1, <2>1, ReaderSteps DEF BytesInv
    <2>3. WriterInit'
      BY <2>1 DEF BytesInv, WriterInit, writerVars
    <2> QED
      BY <2>1, <2>2, <2>3 DEF BytesInv
  <1>2. CASE /\ Writing
             /\ \/ WriterScenario \/ WriterEngine \/ (FileStep /\ UNCHANGED writerVars)
                \/ (FileEvent \/ FileNotify) /\ UNCHANGED writerVars
    <2>1. scenario = "writer" /\ scenario' = "writer"
      BY <1>2 DEF Writing
    <2>2. FileData' /\ WriterInv' /\ Unread' /\ SpaceInv'
      BY <1>2, <2>1, WritingSteps DEF BytesInv
    <2> QED
      BY <2>1, <2>2 DEF BytesInv
  <1>3. CASE Listener \/ Connection
    <2>1. /\ scenario \notin {"reader", "writer"} /\ UNCHANGED scenario
          /\ UNCHANGED <<fileVars, bufferVars, writerVars>>
      BY <1>3 DEF Listener, Connection
    <2>2. SpaceInv'
      BY <2>1 DEF BytesInv, SpaceInv, fileVars, peerVars
    <2>3. WriterInit'
      BY <2>1 DEF BytesInv, WriterInit, writerVars
    <2>4. Unused'
      BY <2>1 DEF BytesInv, Unused, Unread, fileVars, opVars, peerVars, bufferVars
    <2> QED
      BY <2>1, <2>2, <2>3, <2>4 DEF BytesInv
  <1>4. CASE Interrupt
    BY <1>4, BytesSame DEF Interrupt, ioVars
  <1>5. CASE IOThreadEnds /\ UNCHANGED <<scenario, resourceVars, ctrlcVars>>
    BY <1>5, BytesSame DEF IOThreadEnds
  <1>6. CASE UNCHANGED vars
    BY <1>6, BytesSame DEF vars, ioVars
  <1>7. CASE Client
    <2>1. CASE Reader /\ ReaderClient
      BY <1>1, <2>1
    <2>2. CASE Writing /\ WriterScenario
      BY <1>2, <2>2
    <2>3. CASE Listener \/ Connection \/ Interrupt
      BY <1>3, <1>4, <2>3
    <2> QED
      BY <1>7, <2>1, <2>2, <2>3 DEF Client
  <1>8. CASE WorkerStep
    <2>1. CASE Reader /\ (Mapped \/ (FileStep /\ UNCHANGED bufferVars))
      BY <1>1, <2>1
    <2>2. CASE Writing /\ (WriterEngine \/ (FileStep /\ UNCHANGED writerVars))
      BY <1>2, <2>2
    <2>3. CASE Listener \/ Connection
      BY <1>3, <2>3
    <2> QED
      BY <1>8, <2>1, <2>2, <2>3 DEF WorkerStep
  <1>9. CASE IOStep
    BY <1>1, <1>2, <1>3, <1>4, <1>5, <1>9, Zenon DEF IOStep
  <1>10. CASE CatcherStep
    BY <1>4, <1>10, Zenon DEF CatcherStep
  <1> QED
    BY <1>6, <1>7, <1>8, <1>9, <1>10 DEF Next

(* BytesInv is an invariant: the bytes of reads and of writes are          *)
(* accounted for at every step.                                            *)
THEOREM BytesHold == Spec => []BytesInv
  <1> QED
    BY InitBytes, BytesSteps, PTL DEF Spec

(* It implies what is promised of reads.                                   *)
LEMMA BytesMeanAccounted == BytesInv => BytesAccounted
  <1> HAVE BytesInv
  <1>1. CASE scenario = "reader"
    <2>1. /\ Accounted(Received, taken) /\ taken \in Nat
          /\ failed = {} => Received = Run(0, taken)
      BY <1>1 DEF BytesInv, ReaderInv, ReceivedInv, FileData
    <2>2. DOMAIN Received = 1..Len(Received)
      BY <2>1, LenProperties DEF Accounted
    <2> QED
      BY <2>1, <2>2, RunFirst DEF BytesAccounted, Accounted
  <1>2. CASE scenario # "reader"
    <2>1. Unread
      BY <1>2 DEF BytesInv, Unused
    <2>2. <<>> \in Seq(Nat) /\ Len(<<>>) = 0
      BY EmptySeq, Zenon
    <2>3. Received = <<>>
      BY <2>1, <2>2, ConcatEmptySeq DEF Unread, Received
    <2>4. Run(0, 0) = <<>> /\ Run(0, 0) = [i \in 1..0 |-> i]
      BY RunEmpty, RunFirst
    <2>5. DOMAIN <<>> = 1..0
      BY <2>2, LenProperties
    <2> QED
      BY <2>1, <2>3, <2>4, <2>5 DEF BytesAccounted, Unread
  <1> QED
    BY <1>1, <1>2, Zenon

(* io.hpp:143-170, io.cpp:157-174, 349-364: no byte is lost, repeated or   *)
(* moved by the read buffer, by peeks or by reads that take several        *)
(* events, for any input, buffer size and sequence of calls; an operation  *)
(* that fails loses what it had read and no more.                          *)
THEOREM BytesKept == Spec => []BytesAccounted
  <1> QED
    BY BytesHold, BytesMeanAccounted, PTL

(* io.hpp:143-170: a read returns as many bytes as it was asked for, or    *)
(* what there was before the end, one until a pattern ends with its first  *)
(* occurrence, and a peek returns what the next read will.                 *)
THEOREM RepliesRight == Spec => []RepliesAsAsked
  <1>1. BytesInv => RepliesAsAsked
    BY NoReplyYet DEF BytesInv, ReaderInv, Unread, Unused
  <1> QED
    BY <1>1, BytesHold, PTL

(* The invariant of the writer implies what eod() promises.                *)
LEMMA WriterMeansWritten == BytesInv => EodMeansWritten
  <1> SUFFICES ASSUME BytesInv, scenario = "writer" PROVE EodMeansWritten
    BY DEF EodMeansWritten
  <1>1. WriterInv
    BY DEF BytesInv
  <1> PICK B : Laid(B) /\ WrittenTo(B)
    BY <1>1 DEF WriterInv
  <1>2. Len(wrote) \in Nat /\ wrote = Run(0, Len(wrote)) /\ Len(wrote) <= written
    BY <1>1 DEF WriterInv, WroteInOrder
  <1>3. wrote = [i \in 1..Len(wrote) |-> i]
    BY <1>2, RunFirst
  <1>4. ASSUME eod = "ok" PROVE Len(wrote) = written
    <2>1. /\ ~open /\ flushed = Len(flushes) /\ lflush = "ok" /\ buffer = <<>> /\ phase = "none"
          /\ flushed \in Nat /\ written \in Nat
      BY <1>1, <1>4 DEF WriterInv, FlushOrder
    <2>2. Len(wrote) = B[flushed + 1]
      BY <2>1 DEF WrittenTo
    <2>3. B[flushed + 1] \in Nat /\ B[flushed + 1] <= written /\ buffer = Run(B[flushed + 1],
    written)
      BY <2>1 DEF Laid
    <2> QED
      BY <2>1, <2>2, <2>3, RunEmpty
  <1>5. eod \notin {"none", "ok"} => failed # {}
    BY <1>1 DEF WriterInv, FlushOrder
  <1> QED
    BY <1>2, <1>3, <1>4, <1>5 DEF EodMeansWritten

(* io.hpp:189-199: a writer writes what it was given once and in order,    *)
(* however the writes are cut up, and eod() is only fulfilled without an   *)
(* error after all of it.                                                  *)
THEOREM EodTrue == Spec => []EodMeansWritten
  <1> QED
    BY BytesHold, WriterMeansWritten, PTL

------------------------------------------------------------------------------
(* The rest of the type invariant: the connections that have come in, ...  *)
Backlog == /\ pending \in Nat /\ accepted \in Nat /\ arrived \in Nat /\ pending + accepted <= arrived

(* ... the semaphore of CtrlC, which un() posts once more, ...             *)
Counted ==
  /\ ctrlcEvent \in Int /\ -1 <= ctrlcEvent
  /\ ctrlcEvent <= MaxSignals + (signals + (IF un = "posts" THEN 0 ELSE 1))
  /\ signals \in 0..MaxSignals /\ ons \in 0..MaxOns
  /\ future \in {"none", "Running", "Completed", "Cancelled"}

(* ... and the flags.                                                      *)
Booleans ==
  /\ crashed \in BOOLEAN /\ iopor \in BOOLEAN /\ closed \in BOOLEAN /\ open \in BOOLEAN
  /\ atOnce \in BOOLEAN /\ early \in BOOLEAN /\ disturbed \in BOOLEAN

(* A listener accepts what has come in.                                    *)
LEMMA BacklogListens ==
  ASSUME Backlog,
         \/ Listen \/ ConnectionArrives \/ ConnectionGone \/ Shutdown
         \/ ListenStep \/ ListenEvent \/ ListenNotify
  PROVE  Backlog'
  <1>1. CASE ConnectionArrives
    BY <1>1 DEF ConnectionArrives, Backlog
  <1>2. CASE ConnectionGone
    BY <1>2 DEF ConnectionGone, Backlog
  <1>3. CASE Accept
    BY <1>3 DEF Accept, Backlog
  <1>4. UNCHANGED <<pending, arrived, accepted>> \/ ConnectionArrives \/ ConnectionGone \/ Accept
    BY DEF Listen, Shutdown, ListenStep, ListenEvent, ListenNotify, ListenTakesUp, ListenAwaits,
      ListenSwitch, AcceptBlocks, AcceptFails, listenVars
  <1>5. CASE UNCHANGED <<pending, arrived, accepted>>
    BY <1>5 DEF Backlog
  <1> QED
    BY <1>1, <1>2, <1>3, <1>4, <1>5

(* Every post is one of a signal, or of un() that the catcher is ended by. *)
LEMMA CountedInterrupts ==
  ASSUME Counted, CtrlCClient \/ UnStep \/ Catcher
  PROVE  Counted'
  <1>0. MaxSignals \in Nat /\ MaxOns \in Nat /\ Destroyed = -1
    BY CtrlCAssumption DEF Destroyed
  <1>1. CASE On
    BY <1>0, <1>1 DEF On, Counted
  <1>2. CASE OnAgain
    BY <1>2 DEF OnAgain, Counted, signalVars, catcherVars, futureVars
  <1>3. CASE Un
    BY <1>0, <1>3 DEF Un, Counted, signalVars, futureVars
  <1>4. CASE Signal
    BY <1>0, <1>4 DEF Signal, Counted, futureVars, Posted
  <1>5. CASE UnStep
    <2>1. UNCHANGED <<signals, ons>>
      BY <1>5 DEF UnStep, signalVars
    <2>2. CASE UnPosts
      BY <1>0, <2>1, <2>2 DEF UnPosts, Counted, futureVars, Posted
    <2>3. CASE UnExpired \/ UnCancels \/ UnNotifies \/ UnJoins
      <3>1. /\ ctrlcEvent' = ctrlcEvent /\ un # "posts" /\ un' # "posts"
            /\ future' = future \/ future' = "Cancelled"
        BY <2>3 DEF UnExpired, UnCancels, UnNotifies, UnJoins, futureVars
      <3> QED
        BY <2>1, <3>1 DEF Counted
    <2> QED
      BY <1>5, <2>2, <2>3 DEF UnStep
  <1>6. CASE Catcher
    <2>1. UNCHANGED <<signals, ons, un>> /\ (future' = future \/ future' = "Completed")
      BY <1>6 DEF Catcher, CatcherWaits, CatcherTests, CatcherCompletes, CatcherNotifies,
        CatcherEnds, signalVars, futureVars
    <2>2. \/ ctrlcEvent' = ctrlcEvent
          \/ ctrlcEvent > 0 /\ ctrlcEvent' = ctrlcEvent - 1
          \/ ctrlcEvent' = -1
      BY <1>0, <1>6 DEF Catcher, CatcherWaits, CatcherTests, CatcherCompletes, CatcherNotifies,
        CatcherEnds
    <2> QED
      BY <1>0, <2>1, <2>2 DEF Counted
  <1> QED
    BY <1>1, <1>2, <1>3, <1>4, <1>5, <1>6 DEF CtrlCClient

(* The flags of the files: a step leaves each, or sets it; it may clear    *)
(* disturbed.                                                              *)
Sets == /\ UNCHANGED crashed \/ crashed' = TRUE
        /\ UNCHANGED iopor \/ iopor' = TRUE
        /\ UNCHANGED closed \/ closed' = TRUE
        /\ UNCHANGED disturbed \/ disturbed' \in BOOLEAN

(* No step of a file does more to them.                                    *)
LEMMA FilesSet ==
  ASSUME \/ ReaderClient \/ WriterScenario \/ Mapped \/ WriterEngine
         \/ FileStep \/ FileEvent \/ FileNotify
  PROVE  Sets
  <1>1. CASE UNCHANGED <<ioVars, fileVars>>
    BY <1>1 DEF Sets, ioVars, lifeVars, fileVars, peerVars, opVars
  <1>2. ASSUME NEW o, NEW d, Launch(o, d) PROVE Sets
    BY <1>2 DEF Launch, Sets, lifeVars, peerVars
  <1>3. CASE Mapped
    BY <1>3 DEF Mapped, Failed, Written, ReadAll, ReadUpTo, Peeked, ReadUntilEnd, ReadUntilMet,
      ReadUntilMore, Settled, fileVars, peerVars, opVars, lifeVars, Sets
  <1>4. ASSUME NEW q \in Requests, Call(q) PROVE Sets
    BY <1>1, <1>2, <1>4 DEF Call, CallBuffered, CallRead, CallWrite
  <1>5. CASE WriterClient
    BY <1>1, <1>5 DEF WriterClient, WriterWrite, Flush, WriterGone, LaunchFlush
  <1>6. CASE WriterEngine
    <2>1. CASE FlushStarts
      BY <1>2, <2>1 DEF FlushStarts
    <2>2. CASE FlushFails \/ EodCompleted
      BY <1>1, <2>2 DEF FlushFails, EodCompleted
    <2>3. CASE FlushEnds
      BY <2>3 DEF FlushEnds, Sets, lifeVars, fileVars, peerVars, opVars
    <2> QED
      BY <1>6, <2>1, <2>2, <2>3 DEF WriterEngine
  <1>7. CASE FilePeer \/ PeerReads
    BY <1>7 DEF FilePeer, PeerSends, PeerCloses, PeerReads, ioVars, lifeVars, opVars, Sets
  <1>8. CASE FileCancel
    BY <1>8 DEF FileCancel, ClientNotifies, Sets, peerVars
  <1>9. CASE FileGone
    BY <1>9 DEF FileGone, Sets, fileVars, peerVars, opVars
  <1>10. CASE FileEvent
    BY <1>10 DEF FileEvent, EpollWait, Sets, fileVars, peerVars, opVars, lifeVars
  <1>11. CASE FileNotify
    BY <1>11 DEF FileNotify, Notify, SetResult, SetCompleted, Post, Sets, fileVars, peerVars,
       opVars, lifeVars
  <1>12. CASE EngineStep /\ UNCHANGED fileVars
    BY <1>12 DEF EngineStep, Check, Drop, Goes, Sets, fileVars, peerVars, opVars, lifeVars
  <1>13. CASE FileGenerator
    <2>1. UNCHANGED <<crashed, closed>>
      BY <1>13 DEF FileGenerator, WriteNothing, lazyEpollReg, TakeUp, Await, Switch, ReadSome,
        ReadNone, WriteSome, WriteNone, epollRearm, Arm, Running, Return, Goes, fileVars,
        peerVars,
        lifeVars
    <2>2. UNCHANGED iopor \/ iopor' = TRUE
      BY <1>13 DEF FileGenerator, WriteNothing, lazyEpollReg, TakeUp, Await, Switch, ReadSome,
        ReadNone, WriteSome, WriteNone, fileVars
    <2>3. UNCHANGED disturbed
      BY <1>13, Zenon DEF FileGenerator, WriteNothing, lazyEpollReg, TakeUp, Await, Switch,
         ReadSome,
        ReadNone, WriteSome, WriteNone, epollRearm, Return, fileVars, opVars
    <2> QED
      BY <2>1, <2>2, <2>3 DEF Sets
  <1> QED
    BY <1>3, <1>4, <1>5, <1>6, <1>7, <1>8, <1>9, <1>10, <1>11, <1>12, <1>13
       DEF ReaderClient, WriterScenario, FileStep

(* A writer is let go once.                                                *)
LEMMA WriterSets ==
  ASSUME open \in BOOLEAN,
         \/ WriterScenario \/ WriterEngine \/ UNCHANGED writerVars
  PROVE  open' \in BOOLEAN
  BY DEF WriterScenario, WriterClient, WriterEngine, WriterWrite, Flush, WriterGone, LaunchFlush,
    FlushStarts, FlushFails, FlushEnds, EodCompleted, writerVars

(* The flags of a connection ...                                           *)
LEMMA ConnectionSets ==
  ASSUME Booleans,
         ConnectClient \/ LinkSettles \/ ConnectStep \/ ConnectEvent \/ ConnectNotify
  PROVE  crashed' \in BOOLEAN /\ atOnce' \in BOOLEAN /\ early' \in BOOLEAN
  <1>1. UNCHANGED crashed \/ crashed' = TRUE
    BY DEF ConnectClient, LinkSettles, ConnectStep, ConnectEvent, ConnectNotify, netConnectTo,
      Register, ConnectCandidates, connest, ConnectCancel, SocketGone, StreamRearms, StreamGone,
      Connected, EngineStep, Check, Drop, Goes, EpollWait, Notify, SetResult, SetCompleted, Post,
      ClientNotifies, Close, ioVars, lifeVars
  <1>2. UNCHANGED atOnce \/ atOnce' = TRUE
    BY DEF ConnectClient, LinkSettles, ConnectStep, ConnectEvent, ConnectNotify, netConnectTo,
      Register, ConnectCandidates, connest, ConnectCancel, SocketGone, StreamRearms, StreamGone,
      Connected, connectVars
  <1>3. UNCHANGED early \/ early' = (early \/ link = "fresh")
    BY DEF ConnectClient, LinkSettles, ConnectStep, ConnectEvent, ConnectNotify, netConnectTo,
      Register, ConnectCandidates, connest, ConnectCancel, SocketGone, StreamRearms, StreamGone,
      Connected, connectVars
  <1> QED
    BY <1>1, <1>2, <1>3 DEF Booleans

(* ... and of a listener.                                                  *)
LEMMA ListenerSets ==
  ASSUME Booleans,
         \/ Listen \/ ConnectionArrives \/ ConnectionGone \/ Shutdown
         \/ ListenStep \/ ListenEvent \/ ListenNotify
  PROVE  crashed' \in BOOLEAN
  <1>1. UNCHANGED crashed \/ crashed' = TRUE
    BY DEF Listen, ConnectionArrives, ConnectionGone, Shutdown, ListenStep, ListenEvent,
      ListenNotify, ListenTakesUp, ListenAwaits, ListenSwitch, Accept, AcceptBlocks, AcceptFails,
      Stahp, Close, Running, Arm, EngineStep, Check, Drop, Goes, EpollWait, Notify, SetResult,
      SetCompleted, Post, ClientNotifies, ioVars, lifeVars
  <1> QED
    BY <1>1 DEF Booleans

(* What TypeOK says besides the invariants of above.                       *)
SmallTypes == Backlog /\ Counted /\ Booleans

(* It holds at first.                                                      *)
LEMMA InitSmall == Init => SmallTypes
  <1> SUFFICES ASSUME Init PROVE SmallTypes
    OBVIOUS
  <1>1. Backlog
    BY DEF Init, ListenInit, Backlog
  <1>2. Counted
    BY CtrlCAssumption DEF Init, CtrlCInit, Counted
  <1>3. Booleans
    <2>1. crashed = FALSE /\ iopor = (kind = "socket") /\ closed = (kind = "regular") /\ open = TRUE
          /\ atOnce = FALSE /\ early = FALSE /\ disturbed = FALSE
      BY DEF Init, IOInit, FileInit, WriterInit, ConnectInit
    <2> QED
      BY <2>1 DEF Booleans
  <1> QED
    BY <1>1, <1>2, <1>3 DEF SmallTypes

(* It depends on the variables of its module only ...                      *)
LEMMA BacklogSame == Backlog /\ UNCHANGED listenVars => Backlog'
  BY DEF Backlog, listenVars

(* ... and so does the count of the semaphore.                             *)
LEMMA CountedSame == Counted /\ UNCHANGED ctrlcVars => Counted'
  BY DEF Counted, ctrlcVars, signalVars, catcherVars, futureVars

(* Steps that set only flags of files keep it ...                          *)
LEMMA FileSets ==
  ASSUME SmallTypes, UNCHANGED <<listenVars, connectVars, ctrlcVars>>, Sets, open' \in BOOLEAN
  PROVE  SmallTypes'
  <1>1. crashed' \in BOOLEAN /\ iopor' \in BOOLEAN /\ closed' \in BOOLEAN /\ disturbed' \in BOOLEAN
    BY DEF SmallTypes, Booleans, Sets
  <1>2. atOnce' \in BOOLEAN /\ early' \in BOOLEAN
    BY DEF SmallTypes, Booleans, connectVars
  <1> QED
    BY <1>1, <1>2, BacklogSame, CountedSame DEF SmallTypes, Booleans

(* ... and steps that set none ...                                         *)
LEMMA SmallSame ==
  ASSUME SmallTypes, UNCHANGED <<crashed, resourceVars, ctrlcVars>>
  PROVE  SmallTypes'
  <1>1. Sets
    BY DEF Sets, resourceVars, fileVars, peerVars, opVars
  <1>2. open' \in BOOLEAN
    BY DEF SmallTypes, Booleans, resourceVars, writerVars
  <1> QED
    BY <1>1, <1>2, FileSets DEF resourceVars

(* ... and all others.                                                     *)
LEMMA SmallSteps == SmallTypes /\ [Next]_vars => SmallTypes'
  <1> SUFFICES ASSUME SmallTypes, [Next]_vars PROVE SmallTypes'
    OBVIOUS
  <1>1. CASE /\ Reader
             /\ ReaderClient \/ Mapped \/ FileStep \/ FileEvent \/ FileNotify
    <2>1. UNCHANGED <<writerVars, listenVars, connectVars, ctrlcVars>>
      BY <1>1 DEF Reader
    <2>2. open' \in BOOLEAN
      BY <2>1 DEF SmallTypes, Booleans, writerVars
    <2> QED
      BY <1>1, <2>1, <2>2, FilesSet, FileSets
  <1>2. CASE /\ Writing
             /\ \/ WriterScenario \/ WriterEngine
                \/ (FileStep \/ FileEvent \/ FileNotify) /\ UNCHANGED writerVars
    <2>1. UNCHANGED <<listenVars, connectVars, ctrlcVars>>
      BY <1>2 DEF Writing
    <2>2. open' \in BOOLEAN
      BY <1>2, WriterSets DEF SmallTypes, Booleans
    <2> QED
      BY <1>2, <2>1, <2>2, FilesSet, FileSets
  <1>3. CASE /\ Listener
             /\ \/ Listen \/ ConnectionArrives \/ ConnectionGone \/ Shutdown
                \/ ListenStep \/ ListenEvent \/ ListenNotify
    <2>1. UNCHANGED <<fileVars, writerVars, connectVars, ctrlcVars>>
      BY <1>3 DEF Listener
    <2>2. crashed' \in BOOLEAN /\ Backlog'
      BY <1>3, ListenerSets, BacklogListens DEF SmallTypes
    <2>3. Booleans'
      BY <2>1, <2>2 DEF SmallTypes, Booleans, fileVars, peerVars, opVars, writerVars,
         connectVars
    <2> QED
      BY <2>1, <2>2, <2>3, CountedSame DEF SmallTypes
  <1>4. CASE /\ Connection
             /\ ConnectClient \/ LinkSettles \/ ConnectStep \/ ConnectEvent \/ ConnectNotify
    <2>1. UNCHANGED <<fileVars, writerVars, listenVars, ctrlcVars>>
      BY <1>4 DEF Connection
    <2>2. crashed' \in BOOLEAN /\ atOnce' \in BOOLEAN /\ early' \in BOOLEAN
      BY <1>4, ConnectionSets DEF SmallTypes
    <2>3. Booleans'
      BY <2>1, <2>2 DEF SmallTypes, Booleans, fileVars, peerVars, opVars, writerVars
    <2> QED
      BY <2>1, <2>3, CountedSame, BacklogSame DEF SmallTypes
  <1>5. CASE Interrupt /\ (CtrlCClient \/ UnStep \/ Catcher)
    <2>1. UNCHANGED <<ioVars, fileVars, writerVars, listenVars, connectVars>>
      BY <1>5 DEF Interrupt, resourceVars
    <2>2. Booleans'
      BY <2>1 DEF SmallTypes, Booleans, ioVars, lifeVars, fileVars, peerVars, opVars, writerVars,
         connectVars
    <2> QED
      BY <1>5, <2>1, <2>2, CountedInterrupts, BacklogSame DEF SmallTypes
  <1>6. CASE IOThreadEnds /\ UNCHANGED <<scenario, resourceVars, ctrlcVars>>
    BY <1>6, SmallSame DEF IOThreadEnds
  <1>7. CASE UNCHANGED vars
    BY <1>7, SmallSame DEF vars, ioVars, lifeVars
  <1>8. CASE Client
    <2>1. CASE (Reader /\ ReaderClient) \/ (Writing /\ WriterScenario)
      BY <1>1, <1>2, <2>1
    <2>2. CASE Listener /\ (Listen \/ ConnectionArrives \/ ConnectionGone \/ Shutdown)
      BY <1>3, <2>2
    <2>3. CASE (Connection /\ (ConnectClient \/ LinkSettles)) \/ (Interrupt /\ CtrlCClient)
      BY <1>4, <1>5, <2>3
    <2> QED
      BY <1>8, <2>1, <2>2, <2>3 DEF Client
  <1>9. CASE WorkerStep
    <2>1. CASE Reader /\ (Mapped \/ (FileStep /\ UNCHANGED bufferVars))
      BY <1>1, <2>1
    <2>2. CASE Writing /\ (WriterEngine \/ (FileStep /\ UNCHANGED writerVars))
      BY <1>2, <2>2
    <2>3. CASE (Listener /\ ListenStep) \/ (Connection /\ ConnectStep)
      BY <1>3, <1>4, <2>3
    <2> QED
      BY <1>9, <2>1, <2>2, <2>3 DEF WorkerStep
  <1>10. CASE IOStep
    <2>1. CASE \/ Reader /\ (FileEvent \/ FileNotify) /\ UNCHANGED bufferVars
               \/ Writing /\ (FileEvent \/ FileNotify) /\ UNCHANGED writerVars
      BY <1>1, <1>2, <2>1
    <2>2. CASE \/ Listener /\ (ListenEvent \/ ListenNotify)
               \/ Connection /\ (ConnectEvent \/ ConnectNotify)
      BY <1>3, <1>4, <2>2
    <2>3. CASE Interrupt /\ UnStep
      BY <1>5, <2>3
    <2> QED
      BY <1>6, <1>10, <2>1, <2>2, <2>3 DEF IOStep
  <1>11. CASE CatcherStep
    BY <1>5, <1>11 DEF CatcherStep
  <1> QED
    BY <1>7, <1>8, <1>9, <1>10, <1>11 DEF Next

(* The invariants make up the type invariant.                              *)
LEMMA TypesMean ==
  ASSUME TicketInv, ExchangeInv, BytesInv, SmallTypes
  PROVE  TypeOK
  <1>1. /\ epoll \in {"unknown", "idle", "IN", "OUT"} /\ phase \in Phases
        /\ engif.completed \in BOOLEAN /\ posted \in Nat /\ cancels \in 0..MaxCancels
    BY DEF ExchangeInv, IOTypes
  <1>2. tickets \in Nat /\ live \in BOOLEAN /\ stream \in BOOLEAN
    BY DEF TicketInv, TicketsCounted, One
  <1>3. {live, crashed, iopor, closed, disturbed, open, atOnce, early, stream} \subseteq BOOLEAN
    BY <1>2 DEF SmallTypes, Booleans
  <1>4. sent \in 0..InSize /\ taken \in 0..sent /\ op \in Operations \cup {Idle}
    BY FileAssumption DEF BytesInv, FileData, Unused, Unread
  <1>5. space \in 0..Capacity
    BY DEF BytesInv, SpaceInv
  <1>6. {readbuff, got, reply.data} \subseteq InBytes
    BY InBytesAre DEF BytesInv, ReaderInv, ReceivedInv, CallInv, Unused, Unread, NoReply
  <1>7. flushed \in 0..launched /\ launched \in 0..Len(flushes)
    <2>1. Len(<<>>) = 0
      BY EmptySeq, Zenon
    <2>2. CASE WriterInit
      BY <2>1, <2>2 DEF WriterInit
    <2>3. CASE WriterInv
      BY <2>3, LenProperties DEF WriterInv, FlushOrder
    <2> QED
      BY <2>2, <2>3 DEF BytesInv
  <1>8. pending + accepted \in 0..arrived
    BY DEF SmallTypes, Backlog
  <1>9. /\ ctrlcEvent \in -1..(2 * MaxSignals + 1) /\ signals \in 0..MaxSignals /\ ons \in 0..MaxOns
        /\ future \in {"none", "Running", "Completed", "Cancelled"}
    BY CtrlCAssumption DEF SmallTypes, Counted
  <1> QED
    BY <1>1, <1>2, <1>3, <1>4, <1>5, <1>6, <1>7, <1>8, <1>9 DEF TypeOK

(* SmallTypes is an invariant.                                             *)
THEOREM SmallTypesHold == Spec => []SmallTypes
  <1> QED
    BY InitSmall, SmallSteps, PTL DEF Spec

(* The type invariant of the IO engine and its resources holds for any     *)
(* sizes and any number of calls, connections and signals.                 *)
THEOREM TypesHold == Spec => []TypeOK
  <1> QED
    BY EveryResourceHasATicket, ExchangeHolds, BytesHold, SmallTypesHold, TypesMean, PTL
==============================================================================
