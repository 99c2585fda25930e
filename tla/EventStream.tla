---------------------------- MODULE EventStream ----------------------------
(***************************************************************************)
(* The event stream.  The service numbers every event and offers it to its *)
(* subscribers without waiting (internal/service/local_events.go).  One    *)
(* subscriber records the latest events in a ring (server/eventring.go);   *)
(* the others are the handlers of SSE connections (server/sse.go), which   *)
(* replay from the ring what a returning client has missed.  The client    *)
(* (client/events.go) reads one connection at a time, dials again when it  *)
(* breaks and names the last number it has seen.                           *)
(*                                                                         *)
(* Events are counted over all lives of the server: the number on the wire *)
(* of event n is n - base.  A handler outlives its connection until it     *)
(* notices, so a client may meet its own old handler at the limit.         *)
(***************************************************************************)
EXTENDS Integers, Sequences, SequencesExt, FiniteSets

CONSTANTS Clients,
          Handlers,     \* ids of the server's request goroutines
          MaxConns,     \* maxSSEConns
          ChanSize,     \* buffer of a subscription
          RingSize,     \* eventRingSize
          WireSize,     \* bound: events under way on a connection
          NoHandler,
          MaxEvents,    \* bound: events ever broadcast
          MaxCuts,      \* bound: broken connections and failed dials
          MaxRestarts   \* bound: restarts of the server

ASSUME SizesAssumption == /\ MaxConns \in Nat /\ ChanSize \in Nat
                          /\ RingSize \in Nat \ {0}
                          /\ WireSize \in Nat
ASSUME BoundsAssumption == MaxEvents \in Nat /\ MaxCuts \in Nat /\ MaxRestarts \in Nat
ASSUME HandlersAssumption == NoHandler \notin Handlers /\ IsFiniteSet(Handlers)
ASSUME ClientsAssumption == Clients /= {}

VARIABLES seq,        \* events broadcast so far (seqCounter = seq - base)
          base,       \* events broadcast by former servers
          recording,  \* the recorder has subscribed
          recorder,   \* its channel
          ring,       \* eventRing.buf
          conn,       \* the handlers
          sseConns,
          client,     \* the clients' eventLoops
          feed,       \* history: the events put into the consumer's channel
          missed,     \* history: events a client has missed, by cause
          gone,       \* history: events the ring cannot give any more
          cuts, restarts

serverVars == <<seq, base, recording, recorder, ring, conn, sseConns, gone>>
clientVars == <<client, feed>>
vars == <<seq, base, recording, recorder, ring, conn, sseConns, client, feed,
          missed, gone, cuts, restarts>>

Ids == 1..MaxEvents
Causes == {"early", "overflow", "skipped", "gone", "lag", "stale"}
HandlerPC == {"free", "arrived", "refusing", "accepted", "subscribed", "replaying", "live"}
Served == {"accepted", "subscribed", "replaying", "live"}
Subscribed == {"subscribed", "replaying", "live"}
Packet == [id : Ids, seq : Ids]

ConnState == [pc : HandlerPC,
              client : Clients,
              lastEventID : 0..MaxEvents,
              chan : Seq(Ids),           \* the subscription
              todo : Seq(Ids),           \* what since() returned, not written yet
              lastSent : 0..MaxEvents]

ClientState == [pc : {"dialing", "waiting", "reading", "lost", "backoff"},
                h : Handlers \cup {NoHandler},  \* the handler at the other end, if any
                wire : Seq(Packet),             \* what it has written, not read yet
                lastSeq : 0..MaxEvents,
                from : 0..MaxEvents,            \* base of the server that sent lastSeq
                connected : BOOLEAN, lostEmitted : BOOLEAN]

TypeOK ==
  /\ seq \in 0..MaxEvents /\ base \in 0..seq
  /\ recording \in BOOLEAN
  /\ recorder \in Seq(Ids) /\ ring \in Seq(Ids)
  /\ conn \in [Handlers -> ConnState]
  /\ sseConns \in 0..Cardinality(Handlers)
  /\ client \in [Clients -> ClientState]
  /\ feed \in [Clients -> Seq(Ids)]
  /\ missed \in [Clients -> [Causes -> SUBSET Ids]]
  /\ gone \subseteq Ids
  /\ cuts \in 0..MaxCuts /\ restarts \in 0..MaxRestarts

FreeConn(c) == [pc |-> "free", client |-> c, lastEventID |-> 0,
                chan |-> <<>>, todo |-> <<>>, lastSent |-> 0]

Init ==
  /\ seq = 0 /\ base = 0
  /\ recording = FALSE /\ recorder = <<>> /\ ring = <<>>
  /\ conn = [h \in Handlers |-> FreeConn(CHOOSE c \in Clients : TRUE)]
  /\ sseConns = 0
  /\ client = [c \in Clients |->
                [pc |-> "dialing", h |-> NoHandler, wire |-> <<>>, lastSeq |-> 0, from |-> 0,
                 connected |-> FALSE, lostEmitted |-> FALSE]]
  /\ feed = [c \in Clients |-> <<>>]
  /\ missed = [c \in Clients |-> [k \in Causes |-> {}]]
  /\ gone = {}
  /\ cuts = 0 /\ restarts = 0

----------------------------------------------------------------------------
(* The service and the recorder.                                           *)

\* broadcast, under the service's lock: a full channel does not get the event.
Offer(ch) == IF Len(ch) < ChanSize THEN Append(ch, seq + 1) ELSE ch
IsSubscribed(h) == conn[h].pc \in Subscribed
Full(ch) == Len(ch) >= ChanSize

Broadcast ==
  /\ seq < MaxEvents
  /\ seq' = seq + 1
  /\ recorder' = IF recording THEN Offer(recorder) ELSE recorder
  /\ gone' = IF recording /\ ~Full(recorder) THEN gone ELSE gone \cup {seq + 1}
  /\ conn' = [h \in Handlers |-> IF IsSubscribed(h)
                                 THEN [conn[h] EXCEPT !.chan = Offer(conn[h].chan)]
                                 ELSE conn[h]]
  /\ missed' = [c \in Clients |->
                 IF \E h \in Handlers : conn[h].client = c /\ IsSubscribed(h) /\ Full(conn[h].chan)
                 THEN [missed[c] EXCEPT !["overflow"] = @ \cup {seq + 1}]
                 ELSE missed[c]]
  /\ UNCHANGED <<base, recording, ring, sseConns, clientVars, cuts, restarts>>

\* recordEvents is started in the background and subscribes like any other.
RecorderSubscribes ==
  /\ ~recording
  /\ recording' = TRUE
  /\ UNCHANGED <<seq, base, recorder, ring, conn, sseConns, clientVars, missed, gone, cuts, restarts>>

\* eventRing.add
Evicted == IF Len(ring) >= RingSize THEN {Head(ring)} ELSE {}
AddToRing(n) == Append(IF Len(ring) >= RingSize THEN Tail(ring) ELSE ring, n)

Record ==
  /\ recorder /= <<>>
  /\ ring' = AddToRing(Head(recorder))
  /\ recorder' = Tail(recorder)
  /\ gone' = gone \cup Evicted
  /\ UNCHANGED <<seq, base, recording, conn, sseConns, clientVars, missed, cuts, restarts>>

----------------------------------------------------------------------------
(* A handler.                                                              *)

At(h, pc) == conn[h].pc = pc
Goto(h, pc) == conn' = [conn EXCEPT ![h].pc = pc]
Attached(h) == client[conn[h].client].h = h
Close(h) == conn' = [conn EXCEPT ![h] = FreeConn(conn[h].client)]
HangUp(h) == client' = IF Attached(h) THEN [client EXCEPT ![conn[h].client].h = NoHandler]
                                      ELSE client

\* The count is raised before it is compared; a refusal lowers it again.
Count_ComparesFirst(h) ==
  /\ At(h, "arrived")
  /\ sseConns' = sseConns + 1
  /\ Goto(h, IF sseConns > MaxConns THEN "refusing" ELSE "accepted")
  /\ UNCHANGED <<seq, base, recording, recorder, ring, clientVars, missed, gone, cuts, restarts>>
Count(h) ==
  /\ At(h, "arrived")
  /\ sseConns' = sseConns + 1
  /\ Goto(h, IF sseConns + 1 > MaxConns THEN "refusing" ELSE "accepted")
  /\ UNCHANGED <<seq, base, recording, recorder, ring, clientVars, missed, gone, cuts, restarts>>

Refuse(h) ==
  /\ At(h, "refusing")
  /\ sseConns' = sseConns - 1
  /\ Close(h) /\ HangUp(h)
  /\ UNCHANGED <<seq, base, recording, recorder, ring, feed, missed, gone, cuts, restarts>>

\* The status line and headers reach the client, then the handler subscribes.
\* Without Last-Event-ID the stream begins here.
Subscribe(h) ==
  LET c == conn[h].client IN
  /\ At(h, "accepted")
  /\ Goto(h, "subscribed")
  /\ client' = IF Attached(h) /\ client[c].pc = "waiting"
               THEN [client EXCEPT ![c].pc = "reading", ![c].connected = TRUE] ELSE client
  /\ missed' = IF conn[h].lastEventID = 0
               THEN [missed EXCEPT ![c]["early"] = @ \cup 1..seq] ELSE missed
  /\ UNCHANGED <<seq, base, recording, recorder, ring, sseConns, feed, gone, cuts, restarts>>

\* eventRing.since: the first event that is newer and all after it.
Newer(id) == {i \in DOMAIN ring : ring[i] - base > id}
RestFrom(places) == IF places = {} THEN <<>> ELSE SubSeq(ring, Min(places), Len(ring))
Since_OneLater(id) == RestFrom(Newer(id + 1))
Since(id) == RestFrom(Newer(id))

\* Events the recorder has not put into the ring yet are not in the answer,
\* nor is anything numbered below an id that an earlier server gave out.
Resume(h) ==
  LET c == conn[h].client
      id == conn[h].lastEventID
  IN
  /\ At(h, "subscribed")
  /\ conn' = [conn EXCEPT ![h].pc = "replaying", ![h].todo = IF id > 0 THEN Since(id) ELSE <<>>]
  /\ missed' = IF id = 0 THEN missed
               ELSE [missed EXCEPT
                      ![c]["gone"] = @ \cup gone,
                      ![c]["lag"] = @ \cup (ToSet(recorder) \ ToSet(conn[h].chan)),
                      ![c]["stale"] = IF client[c].from < base
                                      THEN @ \cup {n \in ToSet(ring) : n - base <= id}
                                      ELSE @]
  /\ UNCHANGED <<seq, base, recording, recorder, ring, sseConns, clientVars, gone, cuts, restarts>>

\* writeSSEEvent.  What is written to a connection nobody reads is lost.
Room(h) == Attached(h) => Len(client[conn[h].client].wire) < WireSize
Write(h, n) ==
  /\ Room(h)
  /\ client' = IF Attached(h)
               THEN [client EXCEPT ![conn[h].client].wire = Append(@, [id |-> n, seq |-> n - base])]
               ELSE client

Replay(h) ==
  /\ At(h, "replaying") /\ conn[h].todo /= <<>>
  /\ Write(h, Head(conn[h].todo))
  /\ conn' = [conn EXCEPT ![h].todo = Tail(@), ![h].lastSent = Head(conn[h].todo) - base]
  /\ UNCHANGED <<seq, base, recording, recorder, ring, sseConns, feed, missed, gone, cuts, restarts>>

GoLive(h) ==
  /\ At(h, "replaying") /\ conn[h].todo = <<>>
  /\ Goto(h, "live")
  /\ UNCHANGED <<seq, base, recording, recorder, ring, sseConns, clientVars, missed, gone, cuts, restarts>>

AlreadySent_Never(h, n) == FALSE
AlreadySent(h, n) == n - base <= conn[h].lastSent

Forward(h) ==
  /\ At(h, "live") /\ conn[h].chan /= <<>>
  /\ LET n == Head(conn[h].chan) IN
     IF AlreadySent(h, n)
     THEN /\ conn' = [conn EXCEPT ![h].chan = Tail(@)]
          /\ UNCHANGED client
     ELSE /\ Write(h, n)
          /\ conn' = [conn EXCEPT ![h].chan = Tail(@), ![h].lastSent = n - base]
  /\ UNCHANGED <<seq, base, recording, recorder, ring, sseConns, feed, missed, gone, cuts, restarts>>

\* The request's context ends when the connection does, or a write fails at its
\* deadline because nobody reads (a Cut this end notices).  The deferred calls
\* end the subscription and give the slot back.
Leave_KeepsCount(h) ==
  /\ conn[h].pc \in Served
  /\ ~Attached(h)
  /\ Close(h) /\ HangUp(h)
  /\ UNCHANGED <<seq, base, recording, recorder, ring, sseConns, feed, missed, gone, cuts, restarts>>
Leave(h) ==
  /\ conn[h].pc \in Served
  /\ ~Attached(h)
  /\ sseConns' = sseConns - 1
  /\ Close(h) /\ HangUp(h)
  /\ UNCHANGED <<seq, base, recording, recorder, ring, feed, missed, gone, cuts, restarts>>

----------------------------------------------------------------------------
(* A client.                                                               *)

\* The consumer's channel has 256 places and a send to it never waits.  Whether
\* it is full is up to the consumer: either may be the case at any send.
ClientAt(c, pc) == client[c].pc = pc
FreeHandler == CHOOSE h \in Handlers : At(h, "free")

Dial(c) ==
  /\ ClientAt(c, "dialing") /\ \E h \in Handlers : At(h, "free")
  /\ conn' = [conn EXCEPT ![FreeHandler] = [FreeConn(c) EXCEPT !.pc = "arrived",
                                                               !.lastEventID = client[c].lastSeq]]
  /\ client' = [client EXCEPT ![c].pc = "waiting", ![c].h = FreeHandler]
  /\ UNCHANGED <<seq, base, recording, recorder, ring, sseConns, feed, missed, gone, cuts, restarts>>

DialFails(c) ==
  /\ ClientAt(c, "dialing") /\ cuts < MaxCuts
  /\ cuts' = cuts + 1
  /\ client' = [client EXCEPT ![c].pc = "lost"]
  /\ UNCHANGED <<serverVars, feed, missed, restarts>>

\* lastSeq moves even if the consumer has no room for the event.
Receive(c) ==
  LET p == Head(client[c].wire)
      newer == p.seq > client[c].lastSeq
  IN
  /\ ClientAt(c, "reading") /\ client[c].wire /= <<>>
  /\ client' = [client EXCEPT ![c].wire = Tail(@),
                              ![c].lastSeq = IF newer THEN p.seq ELSE @,
                              ![c].from = IF newer THEN p.id - p.seq ELSE @]
  /\ \/ /\ feed' = [feed EXCEPT ![c] = Append(@, p.id)]
        /\ UNCHANGED missed
     \/ /\ missed' = [missed EXCEPT ![c]["overflow"] = @ \cup {p.id}]
        /\ UNCHANGED feed
  /\ UNCHANGED <<serverVars, cuts, restarts>>

\* An event that cannot be decoded: the client goes on to the next one, and
\* lastSeq stays where it is.
Skip(c) ==
  /\ ClientAt(c, "reading") /\ client[c].wire /= <<>>
  /\ client' = [client EXCEPT ![c].wire = Tail(@)]
  /\ missed' = [missed EXCEPT ![c]["skipped"] = @ \cup {Head(client[c].wire).id}]
  /\ UNCHANGED <<serverVars, feed, cuts, restarts>>

\* readSSE returns; what the broken connection still held is lost.
Disconnect(c) ==
  /\ client[c].pc \in {"waiting", "reading"} /\ client[c].h = NoHandler
  /\ client' = [client EXCEPT ![c].pc = "lost", ![c].wire = <<>>]
  /\ UNCHANGED <<serverVars, feed, missed, cuts, restarts>>

\* The consumer is told only if there was a connection to lose.
EmitLost(c) ==
  /\ ClientAt(c, "lost")
  /\ client' = [client EXCEPT ![c].pc = "backoff",
                              ![c].connected = FALSE,
                              ![c].lostEmitted = @ \/ client[c].connected]
  /\ UNCHANGED <<serverVars, feed, missed, cuts, restarts>>

\* The state is fetched (a request that fails only makes the client wait
\* longer) and the next connection is announced before it is made.
EmitRestored(c) ==
  /\ ClientAt(c, "backoff")
  /\ client' = [client EXCEPT ![c].pc = "dialing", ![c].lostEmitted = FALSE]
  /\ UNCHANGED <<serverVars, feed, missed, cuts, restarts>>

----------------------------------------------------------------------------
(* Faults.                                                                 *)

\* The network breaks a connection; each end notices in its own time.
Cut(c) ==
  /\ client[c].h /= NoHandler /\ cuts < MaxCuts
  /\ cuts' = cuts + 1
  /\ client' = [client EXCEPT ![c].h = NoHandler]
  /\ UNCHANGED <<serverVars, feed, missed, restarts>>

\* The server dies and another one starts; its numbers begin at 1 again.
Restart ==
  /\ restarts < MaxRestarts
  /\ restarts' = restarts + 1
  /\ base' = seq
  /\ recording' = FALSE /\ recorder' = <<>> /\ ring' = <<>>
  /\ conn' = [h \in Handlers |-> FreeConn(conn[h].client)]
  /\ sseConns' = 0
  /\ gone' = 1..seq
  /\ client' = [c \in Clients |-> [client[c] EXCEPT !.h = NoHandler]]
  /\ UNCHANGED <<seq, feed, missed, cuts>>

----------------------------------------------------------------------------

Recorder == RecorderSubscribes \/ Record
Serve(h) == \/ Count(h) \/ Refuse(h) \/ Subscribe(h) \/ Resume(h)
            \/ Replay(h) \/ GoLive(h) \/ Forward(h) \/ Leave(h)
EventLoop(c) == \/ Dial(c) \/ Receive(c) \/ Skip(c) \/ Disconnect(c)
                \/ EmitLost(c) \/ EmitRestored(c)

Next ==
  \/ Broadcast \/ Recorder \/ Restart
  \/ \E h \in Handlers : Serve(h)
  \/ \E c \in Clients : EventLoop(c) \/ DialFails(c) \/ Cut(c)

Spec == Init /\ [][Next]_vars

\* What the Go scheduler runs; that anything is broadcast or broken is nobody's
\* promise.
Fairness == /\ WF_vars(Recorder)
            /\ \A h \in Handlers : WF_vars(Serve(h))
            /\ \A c \in Clients : WF_vars(EventLoop(c))
FairSpec == Spec /\ Fairness

----------------------------------------------------------------------------
(* Properties.                                                             *)

\* A client's consumer sees the events of one server, and of its successor
\* after it, in the order they were broadcast and none twice, through any
\* number of reconnects: since() and the lastSent guard of sse.go split the
\* events between the replay and the subscription.
InOrderOnce == \A c \in Clients : \A i, j \in DOMAIN feed[c] :
                 i < j => feed[c][i] < feed[c][j]

\* An event that was overtaken by a later one is missing for one of the causes
\* the code knows of: it came before the stream began, found a buffer full, was
\* passed over by the client, had left the ring, was not yet in it when the client resumed, or had a number
\* below one an earlier server gave out.  Nothing is lost between the replay
\* and the subscription or on a connection that broke.
Overtaken(c) == {n \in Ids : n \notin ToSet(feed[c]) /\ \E m \in ToSet(feed[c]) : n < m}
HolesAreAdmitted == \A c \in Clients :
                      Overtaken(c) \subseteq UNION {missed[c][k] : k \in Causes}

\* The limit of sse.go holds although the count is raised before it is
\* compared: refused and served requests together are what is counted.
ServedWithinLimit ==
  /\ sseConns = Cardinality({h \in Handlers : conn[h].pc \notin {"free", "arrived"}})
  /\ Cardinality({h \in Handlers : conn[h].pc \in Served}) <= MaxConns

\* After the last fault every client ends up reading a live stream: handlers of
\* broken connections give their slots back, and so do refused ones.
ClientsReturn ==
  \A c \in Clients : <>[](client[c].pc = "reading" /\ client[c].h /= NoHandler
                          /\ conn[client[c].h].pc = "live")
=============================================================================
