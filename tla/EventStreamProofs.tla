------------------------- MODULE EventStreamProofs -------------------------
(***************************************************************************)
(* Proofs about EventStream, for any number of clients, handlers, events,  *)
(* broken connections and restarts, and any sizes of ring and channels:    *)
(* the order of what a client sees, what it may miss, the limit on         *)
(* connections, and types.                                                 *)
(***************************************************************************)
EXTENDS EventStream, FiniteSetTheorems, WellFoundedInduction, TLAPS

USE SizesAssumption, BoundsAssumption, HandlersAssumption, ClientsAssumption

----------------------------------------------------------------------------
(* Increasing sequences of events.                                         *)

Increasing(s) == \A i, j \in DOMAIN s : i < j => s[i] < s[j]
Below(S, T) == \A x \in S, y \in T : x < y

LEMMA ElementsOfAppend ==
  ASSUME NEW S, NEW s \in Seq(S), NEW n \in S
  PROVE  ToSet(Append(s, n)) = ToSet(s) \cup {n}
<1> DEFINE t == Append(s, n)
<1>1. Len(s) \in Nat /\ DOMAIN s = 1..Len(s) /\ DOMAIN t = 1..(Len(s) + 1)
  OBVIOUS
<1>2. t[Len(s) + 1] = n /\ \A i \in 1..Len(s) : t[i] = s[i]
  OBVIOUS
<1> HIDE DEF t
<1>3. 1..(Len(s) + 1) = (1..Len(s)) \cup {Len(s) + 1}
  BY <1>1
<1>4. ToSet(t) = ToSet(s) \cup {n}
  BY <1>1, <1>2, <1>3 DEF ToSet
<1> QED
  BY <1>4 DEF t

LEMMA ElementsOfTail ==
  ASSUME NEW S, NEW s \in Seq(S), s /= <<>>
  PROVE  /\ Head(s) \in S /\ Tail(s) \in Seq(S)
         /\ Head(s) \in ToSet(s) /\ ToSet(Tail(s)) \subseteq ToSet(s)
<1>1. Head(s) = s[1] /\ 1 \in DOMAIN s /\ s[1] \in S
  OBVIOUS
<1>2. \A i \in DOMAIN Tail(s) : Tail(s)[i] = s[i + 1] /\ i + 1 \in DOMAIN s
  OBVIOUS
<1>3. Tail(s) \in Seq(S)
  OBVIOUS
<1> QED
  BY <1>1, <1>2, <1>3 DEF ToSet

LEMMA ElementsOfEmpty == ToSet(<<>>) = {} /\ Increasing(<<>>)
BY DEF ToSet, Increasing

LEMMA ElementsAreTyped ==
  ASSUME NEW S, NEW s \in Seq(S) PROVE ToSet(s) \subseteq S
BY DEF ToSet

LEMMA AppendIncreases ==
  ASSUME NEW s \in Seq(Nat), NEW n \in Nat, Increasing(s), Below(ToSet(s), {n})
  PROVE  Append(s, n) \in Seq(Nat) /\ Increasing(Append(s, n))
<1> DEFINE t == Append(s, n)
<1>1. t \in Seq(Nat) /\ Len(s) \in Nat /\ DOMAIN s = 1..Len(s) /\ DOMAIN t = 1..(Len(s) + 1)
  OBVIOUS
<1>2. t[Len(s) + 1] = n /\ \A i \in 1..Len(s) : t[i] = s[i]
  OBVIOUS
<1>3. \A i \in 1..Len(s) : s[i] < n
  BY <1>1 DEF Below, ToSet
<1> HIDE DEF t
<1>4. ASSUME NEW i \in DOMAIN t, NEW j \in DOMAIN t, i < j PROVE t[i] < t[j]
  <2>1. i \in 1..Len(s)
    BY <1>1, <1>4
  <2>2. CASE j = Len(s) + 1
    BY <1>2, <1>3, <2>1, <2>2
  <2>3. CASE j /= Len(s) + 1
    <3>1. j \in 1..Len(s)
      BY <1>1, <2>3
    <3> QED
      BY <1>1, <1>2, <1>4, <2>1, <3>1 DEF Increasing
  <2> QED
    BY <2>2, <2>3
<1> QED
  BY <1>1, <1>4 DEF Increasing, t

LEMMA TailIncreases ==
  ASSUME NEW s \in Seq(Nat), s /= <<>>, Increasing(s)
  PROVE  Increasing(Tail(s)) /\ Below({Head(s)}, ToSet(Tail(s)))
<1> DEFINE t == Tail(s)
<1>1. Head(s) = s[1] /\ DOMAIN s = 1..Len(s) /\ Len(s) \in Nat /\ 1 \in DOMAIN s
  OBVIOUS
<1>2. /\ DOMAIN t \subseteq Nat \ {0}
      /\ \A i \in DOMAIN t : t[i] = s[i + 1] /\ i + 1 \in DOMAIN s
  OBVIOUS
<1> HIDE DEF t
<1>3. Increasing(t)
  BY <1>1, <1>2 DEF Increasing
<1>4. \A i \in DOMAIN t : s[1] < t[i]
  BY <1>1, <1>2 DEF Increasing
<1> QED
  BY <1>1, <1>3, <1>4 DEF Below, ToSet, t

LEMMA SuffixIncreases ==
  ASSUME NEW s \in Seq(Nat), Increasing(s), NEW k \in DOMAIN s
  PROVE  /\ SubSeq(s, k, Len(s)) \in Seq(Nat) /\ Increasing(SubSeq(s, k, Len(s)))
         /\ ToSet(SubSeq(s, k, Len(s))) \subseteq ToSet(s)
         /\ \A x \in ToSet(SubSeq(s, k, Len(s))) : s[k] <= x
<1> DEFINE t == SubSeq(s, k, Len(s))
<1>1. DOMAIN s = 1..Len(s) /\ Len(s) \in Nat /\ k \in Nat
  OBVIOUS
<1>2. /\ t \in Seq(Nat) /\ DOMAIN t = 1..(Len(s) - k + 1)
      /\ \A i \in DOMAIN t : t[i] = s[k + i - 1]
  BY <1>1
<1> HIDE DEF t
<1>3. \A i \in DOMAIN t : i \in Nat /\ k + i - 1 \in DOMAIN s /\ k <= k + i - 1
  <2>1. k \in 1..Len(s)
    BY <1>1
  <2> QED
    BY <1>1, <1>2, <2>1
<1>4. Increasing(t)
  BY <1>1, <1>2, <1>3 DEF Increasing
<1>5. \A i \in DOMAIN t : s[k] <= t[i]
  <2> TAKE i \in DOMAIN t
  <2>1. t[i] = s[k + i - 1] /\ k + i - 1 \in DOMAIN s /\ k <= k + i - 1
    BY <1>2, <1>3
  <2>2. \A x \in DOMAIN s : s[x] \in Nat
    OBVIOUS
  <2> QED
    BY <1>1, <2>1, <2>2 DEF Increasing
<1> QED
  BY <1>2, <1>3, <1>4, <1>5 DEF ToSet, t

\* A set of naturals that is not empty has a least element.
LEMMA LeastElement ==
  ASSUME NEW T \in SUBSET Nat, T /= {}
  PROVE  Min(T) \in T /\ \A y \in T : Min(T) <= y
<1> DEFINE R == OpToRel(<, Nat)
<1>1. IsWellFoundedOn(R, Nat)
  BY NatLessThanWellFounded
<1>2. \A x, y \in Nat : y < x => <<y, x>> \in R
  BY DEF OpToRel
<1> HIDE DEF R
<1>3. PICK x \in T : \A y \in T : ~ (<<y, x>> \in R)
  BY <1>1, WFMin
<1>4. \A y \in T : ~(y < x)
  BY <1>2, <1>3
<1>5. \A y \in T : x <= y
  BY <1>4
<1> QED
  BY <1>5 DEF Min

----------------------------------------------------------------------------
(* What is on a connection.                                                *)

Packets == [id : Nat, seq : Int]
WireIds(w) == {p.id : p \in ToSet(w)}
IncreasingIds(w) == \A i, j \in DOMAIN w : i < j => w[i].id < w[j].id

LEMMA EmptyWire == WireIds(<<>>) = {} /\ IncreasingIds(<<>>)
BY DEF WireIds, ToSet, IncreasingIds

LEMMA WireGrows ==
  ASSUME NEW w \in Seq(Packets), NEW p \in Packets, IncreasingIds(w), Below(WireIds(w), {p.id})
  PROVE  /\ Append(w, p) \in Seq(Packets) /\ Append(w, p) /= <<>>
         /\ IncreasingIds(Append(w, p))
         /\ ToSet(Append(w, p)) = ToSet(w) \cup {p}
         /\ WireIds(Append(w, p)) = WireIds(w) \cup {p.id}
<1> DEFINE t == Append(w, p)
<1>1. /\ t \in Seq(Packets) /\ t /= <<>> /\ Len(w) \in Nat
      /\ DOMAIN w = 1..Len(w) /\ DOMAIN t = 1..(Len(w) + 1)
  OBVIOUS
<1>2. t[Len(w) + 1] = p /\ \A i \in 1..Len(w) : t[i] = w[i]
  OBVIOUS
<1>3. ToSet(t) = ToSet(w) \cup {p}
  BY ElementsOfAppend
<1>4. \A i \in 1..Len(w) : w[i].id < p.id
  BY <1>1 DEF Below, WireIds, ToSet
<1> HIDE DEF t
<1>5. ASSUME NEW i \in DOMAIN t, NEW j \in DOMAIN t, i < j PROVE t[i].id < t[j].id
  <2>1. i \in 1..Len(w)
    BY <1>1, <1>5
  <2>2. CASE j = Len(w) + 1
    BY <1>2, <1>4, <2>1, <2>2
  <2>3. CASE j /= Len(w) + 1
    <3>1. j \in 1..Len(w)
      BY <1>1, <2>3
    <3> QED
      BY <1>1, <1>2, <1>5, <2>1, <3>1 DEF IncreasingIds
  <2> QED
    BY <2>2, <2>3
<1>6. WireIds(t) = WireIds(w) \cup {p.id}
  BY <1>3 DEF WireIds
<1> QED
  BY <1>1, <1>3, <1>5, <1>6 DEF IncreasingIds, t

LEMMA WireShrinks ==
  ASSUME NEW w \in Seq(Packets), w /= <<>>, IncreasingIds(w)
  PROVE  /\ Head(w) \in ToSet(w) /\ Head(w) \in Packets /\ Tail(w) \in Seq(Packets)
         /\ IncreasingIds(Tail(w)) /\ ToSet(Tail(w)) \subseteq ToSet(w)
         /\ WireIds(Tail(w)) \subseteq WireIds(w) /\ Head(w).id \in WireIds(w)
         /\ Below({Head(w).id}, WireIds(Tail(w)))
<1> DEFINE t == Tail(w)
<1>1. Head(w) = w[1] /\ DOMAIN w = 1..Len(w) /\ Len(w) \in Nat /\ 1 \in DOMAIN w
  OBVIOUS
<1>2. /\ DOMAIN t \subseteq Nat \ {0}
      /\ \A i \in DOMAIN t : t[i] = w[i + 1] /\ i + 1 \in DOMAIN w
  OBVIOUS
<1>3. /\ Head(w) \in ToSet(w) /\ Head(w) \in Packets /\ t \in Seq(Packets)
      /\ ToSet(t) \subseteq ToSet(w)
  BY ElementsOfTail
<1> HIDE DEF t
<1>4. IncreasingIds(t)
  BY <1>1, <1>2 DEF IncreasingIds
<1>5. \A i \in DOMAIN t : w[1].id < t[i].id
  BY <1>1, <1>2 DEF IncreasingIds
<1>6. WireIds(t) \subseteq WireIds(w) /\ Head(w).id \in WireIds(w)
  BY <1>3 DEF WireIds
<1>7. Below({Head(w).id}, WireIds(t))
  BY <1>1, <1>5 DEF Below, WireIds, ToSet
<1> QED
  BY <1>3, <1>4, <1>6, <1>7 DEF t

----------------------------------------------------------------------------
(* The inductive invariant of the order.                                   *)

Conns == [pc : HandlerPC, client : Clients, lastEventID : Int,
          chan : Seq(Nat), todo : Seq(Nat), lastSent : Int]
ClientStates == [pc : {"dialing", "waiting", "reading", "lost", "backoff"},
                 h : Handlers \cup {NoHandler}, wire : Seq(Packets),
                 lastSeq : Int, from : Int, connected : BOOLEAN, lostEmitted : BOOLEAN]

Types ==
  /\ conn \in [Handlers -> Conns]
  /\ client \in [Clients -> ClientStates]
  /\ feed \in [Clients -> Seq(Nat)]
  /\ seq \in Nat /\ base \in Nat /\ base <= seq
  /\ ring \in Seq(Nat) /\ recorder \in Seq(Nat)

\* Events of the server that began after event b, when n events have been broadcast.
Current(s, b, n) == ToSet(s) \subseteq (b + 1)..n

\* What is in the ring was broadcast before what is on its way there.
RingInv == /\ Increasing(ring) /\ Increasing(recorder)
           /\ Current(ring, base, seq) /\ Current(recorder, base, seq)
           /\ Below(ToSet(ring), ToSet(recorder))

\* A handler has something to replay or to forward only in the part of its life
\* that is for it, and what it has to replay it has not written.
HandlerOK(r, b, n) ==
  /\ Increasing(r.chan) /\ Increasing(r.todo)
  /\ Current(r.chan, b, n) /\ Current(r.todo, b, n)
  /\ r.pc \notin Subscribed => r.chan = <<>>
  /\ r.pc /= "replaying" => r.todo = <<>>
  /\ r.pc \notin {"replaying", "live"} => r.lastSent = 0
  /\ \A m \in ToSet(r.todo) : m - b > r.lastSent

\* What a client has got, and what is still on its connection.
Got(f, q) == ToSet(f) \cup WireIds(q.wire)

\* Order, and lastSeq: no event of this server that was read is above it.
ClientOK(f, q, b, n) ==
  /\ Increasing(f) /\ IncreasingIds(q.wire) /\ Below(ToSet(f), WireIds(q.wire))
  /\ \A m \in Got(f, q) : m <= n
  /\ \A m \in ToSet(f) : m <= b \/ m - b <= q.lastSeq
  /\ \A p \in ToSet(q.wire) : p.id <= b \/ p.seq = p.id - b
  /\ q.wire /= <<>> => q.pc = "reading"
  /\ q.pc \in {"lost", "backoff", "dialing"} => q.h = NoHandler

\* A handler and the client it is connected to: nothing the handler will still
\* write comes before what the client has.
LinkOK(r, f, q, b) ==
  /\ r.pc /= "free"
  /\ r.pc \in {"arrived", "refusing", "accepted"} => q.pc = "waiting"
  /\ r.pc \in Subscribed => q.pc = "reading"
  /\ r.pc \in {"arrived", "accepted", "subscribed"} => r.lastEventID = q.lastSeq /\ q.wire = <<>>
  /\ Below(Got(f, q), ToSet(r.todo))
  /\ \A d \in Got(f, q), m \in ToSet(r.chan) : d < m \/ m - b <= r.lastSent

HandlersInv == \A h \in Handlers : HandlerOK(conn[h], base, seq)
ClientsInv == \A c \in Clients : ClientOK(feed[c], client[c], base, seq)
LinksInv == \A h \in Handlers : Attached(h) =>
              LinkOK(conn[h], feed[conn[h].client], client[conn[h].client], base)

OrderInv == Types /\ RingInv /\ HandlersInv /\ ClientsInv /\ LinksInv

----------------------------------------------------------------------------
(* Steps of one handler or of one client.                                  *)

\* Handler h goes on to r and, if it is connected, its client to q.
LEMMA HandlerStep ==
  ASSUME OrderInv, NEW h \in Handlers, NEW c \in Clients, c = conn[h].client,
         NEW r \in Conns, r.client = c, NEW q \in ClientStates,
         conn' = [conn EXCEPT ![h] = r],
         client' = IF client[c].h = h THEN [client EXCEPT ![c] = q] ELSE client,
         UNCHANGED <<feed, base, seq, ring, recorder>>,
         HandlerOK(r, base, seq),
         client[c].h = h => /\ ClientOK(feed[c], q, base, seq)
                            /\ \/ q.h = h /\ LinkOK(r, feed[c], q, base)
                               \/ q.h = NoHandler
  PROVE  OrderInv'
<1>1. Types /\ RingInv /\ HandlersInv /\ ClientsInv /\ LinksInv
  BY DEF OrderInv
<1>2. /\ conn' \in [Handlers -> Conns] /\ conn'[h] = r
      /\ \A g \in Handlers \ {h} : conn'[g] = conn[g]
  BY <1>1 DEF Types
<1>3. /\ client' \in [Clients -> ClientStates]
      /\ \A d \in Clients \ {c} : client'[d] = client[d]
      /\ client[c].h = h => client'[c] = q
      /\ client[c].h /= h => client'[c] = client[c]
  BY <1>1 DEF Types
<1>4. Types' /\ RingInv'
  BY <1>1, <1>2, <1>3 DEF Types, RingInv
<1>5. HandlersInv'
  BY <1>1, <1>2 DEF HandlersInv
<1>6. ClientsInv'
  BY <1>1, <1>3 DEF ClientsInv
<1>7. LinksInv'
  <2> SUFFICES ASSUME NEW g \in Handlers, client'[conn'[g].client].h = g
               PROVE  LinkOK(conn'[g], feed[conn'[g].client], client'[conn'[g].client], base)
    BY DEF LinksInv, Attached
  <2>1. CASE g = h
    <3>1. conn'[g] = r /\ conn'[g].client = c
      BY <1>2, <2>1
    <3>2. client[c].h = h /\ client'[c] = q /\ q.h = h
      BY <1>3, <2>1, <3>1
    <3> QED
      BY <3>1, <3>2
  <2>2. CASE g /= h
    <3>1. conn'[g] = conn[g] /\ conn[g].client \in Clients
      BY <1>1, <1>2, <2>2 DEF Types, Conns
    <3>2. client'[conn[g].client] = client[conn[g].client]
      <4>1. CASE conn[g].client /= c
        BY <1>3, <3>1, <4>1
      <4>2. CASE conn[g].client = c
        <5>1. client'[c].h = g
          BY <3>1, <4>2
        <5>2. client[c].h /= h
          BY <1>3, <2>2, <5>1
        <5> QED
          BY <1>3, <4>2, <5>2
      <4> QED
        BY <4>1, <4>2
    <3> QED
      BY <1>1, <3>1, <3>2 DEF LinksInv, Attached
  <2> QED
    BY <2>1, <2>2
<1> QED
  BY <1>4, <1>5, <1>6, <1>7 DEF OrderInv

\* Client c goes on to q and has been given f; it keeps its handler or none.
LEMMA ClientStep ==
  ASSUME OrderInv, NEW c \in Clients, NEW q \in ClientStates, NEW f \in Seq(Nat),
         client' = [client EXCEPT ![c] = q], feed' = [feed EXCEPT ![c] = f],
         UNCHANGED <<conn, base, seq, ring, recorder>>,
         ClientOK(f, q, base, seq),
         \/ q.h = NoHandler
         \/ /\ q.h = client[c].h
            /\ \A h \in Handlers : client[c].h = h /\ conn[h].client = c
                                   => LinkOK(conn[h], f, q, base)
  PROVE  OrderInv'
<1>1. Types /\ RingInv /\ HandlersInv /\ ClientsInv /\ LinksInv
  BY DEF OrderInv
<1>2. /\ client' \in [Clients -> ClientStates] /\ client'[c] = q
      /\ feed' \in [Clients -> Seq(Nat)] /\ feed'[c] = f
      /\ \A d \in Clients \ {c} : client'[d] = client[d] /\ feed'[d] = feed[d]
  BY <1>1 DEF Types
<1>3. Types' /\ RingInv' /\ HandlersInv'
  BY <1>1, <1>2 DEF Types, RingInv, HandlersInv
<1>4. ClientsInv'
  BY <1>1, <1>2 DEF ClientsInv
<1>5. LinksInv'
  <2> SUFFICES ASSUME NEW g \in Handlers, client'[conn[g].client].h = g
               PROVE  LinkOK(conn[g], feed'[conn[g].client], client'[conn[g].client], base)
    BY DEF LinksInv, Attached
  <2>1. conn[g].client \in Clients
    BY <1>1 DEF Types, Conns
  <2>2. CASE conn[g].client = c
    <3>1. q.h = g
      BY <1>2, <2>2
    <3> QED
      BY <1>2, <2>2, <3>1
  <2>3. CASE conn[g].client /= c
    BY <1>1, <1>2, <2>1, <2>3 DEF LinksInv, Attached
  <2> QED
    BY <2>2, <2>3
<1> QED
  BY <1>3, <1>4, <1>5 DEF OrderInv

\* What the invariant says of one handler and its client.
LEMMA HandlerFacts ==
  ASSUME OrderInv, NEW h \in Handlers
  PROVE  LET c == conn[h].client IN
         /\ conn[h] \in Conns /\ c \in Clients
         /\ client[c] \in ClientStates /\ feed[c] \in Seq(Nat)
         /\ conn \in [Handlers -> Conns] /\ client \in [Clients -> ClientStates]
         /\ base \in Nat /\ seq \in Nat /\ base <= seq
         /\ HandlerOK(conn[h], base, seq)
         /\ ClientOK(feed[c], client[c], base, seq)
         /\ client[c].h = h => LinkOK(conn[h], feed[c], client[c], base)
<1>1. Types /\ HandlersInv /\ ClientsInv /\ LinksInv
  BY DEF OrderInv
<1>2. conn[h] \in Conns
  BY <1>1 DEF Types
<1>3. conn[h].client \in Clients
  BY <1>2 DEF Conns
<1> QED
  BY <1>1, <1>2, <1>3 DEF Types, HandlersInv, ClientsInv, LinksInv, Attached

LEMMA ClientFacts ==
  ASSUME OrderInv, NEW c \in Clients
  PROVE  /\ client[c] \in ClientStates /\ feed[c] \in Seq(Nat)
         /\ client \in [Clients -> ClientStates] /\ feed \in [Clients -> Seq(Nat)]
         /\ base \in Nat /\ seq \in Nat /\ base <= seq
         /\ ClientOK(feed[c], client[c], base, seq)
         /\ \A h \in Handlers : client[c].h = h /\ conn[h].client = c
                                  => LinkOK(conn[h], feed[c], client[c], base)
BY DEF OrderInv, Types, ClientsInv, LinksInv, Attached

\* Handler h goes on to r and its client does nothing.
LEMMA HandlerAlone ==
  ASSUME OrderInv, NEW h \in Handlers, NEW c \in Clients, c = conn[h].client,
         NEW r \in Conns, r.client = c,
         conn' = [conn EXCEPT ![h] = r],
         UNCHANGED <<client, feed, base, seq, ring, recorder>>,
         HandlerOK(r, base, seq),
         client[c].h = h => LinkOK(r, feed[c], client[c], base)
  PROVE  OrderInv'
<1> DEFINE q == client[c]
<1>1. q \in ClientStates /\ client \in [Clients -> ClientStates]
      /\ ClientOK(feed[c], q, base, seq)
  BY ClientFacts
<1>2. client' = IF client[c].h = h THEN [client EXCEPT ![c] = q] ELSE client
  BY <1>1
<1> HIDE DEF q
<1>3. q.h = client[c].h
  BY DEF q
<1>4. client[c].h = h => q.h = h /\ LinkOK(r, feed[c], q, base)
  BY DEF q
<1> QED
  BY <1>1, <1>2, <1>4, HandlerStep

LEMMA CountKeepsOrder ==
  ASSUME OrderInv, NEW h \in Handlers, Count(h)
  PROVE  OrderInv'
<1> DEFINE c == conn[h].client
           x == IF sseConns + 1 > MaxConns THEN "refusing" ELSE "accepted"
           r == [conn[h] EXCEPT !.pc = x]
<1>1. /\ conn[h] \in Conns /\ c \in Clients /\ conn \in [Handlers -> Conns]
      /\ HandlerOK(conn[h], base, seq)
      /\ client[c].h = h => LinkOK(conn[h], feed[c], client[c], base)
  BY HandlerFacts
<1>2. conn[h].pc = "arrived" /\ x \in {"refusing", "accepted"}
  BY DEF Count, At
<1>3. conn' = [conn EXCEPT ![h] = r] /\ UNCHANGED <<client, feed, base, seq, ring, recorder>>
  BY DEF Count, Goto, clientVars
<1> HIDE DEF x
<1>4. /\ r \in Conns /\ r.client = c /\ r.pc = x /\ r.lastEventID = conn[h].lastEventID
      /\ r.chan = conn[h].chan /\ r.todo = conn[h].todo /\ r.lastSent = conn[h].lastSent
  BY <1>1, <1>2 DEF Conns, HandlerPC
<1> HIDE DEF r
<1>5. HandlerOK(r, base, seq)
  BY <1>1, <1>2, <1>4 DEF HandlerOK, Subscribed
<1>6. client[c].h = h => LinkOK(r, feed[c], client[c], base)
  BY <1>1, <1>2, <1>4 DEF LinkOK, Subscribed
<1> QED
  BY <1>1, <1>3, <1>4, <1>5, <1>6, HandlerAlone

LEMMA GoLiveKeepsOrder ==
  ASSUME OrderInv, NEW h \in Handlers, GoLive(h)
  PROVE  OrderInv'
<1> DEFINE c == conn[h].client
           r == [conn[h] EXCEPT !.pc = "live"]
<1>1. /\ conn[h] \in Conns /\ c \in Clients /\ conn \in [Handlers -> Conns]
      /\ HandlerOK(conn[h], base, seq)
      /\ client[c].h = h => LinkOK(conn[h], feed[c], client[c], base)
  BY HandlerFacts
<1>2. conn[h].pc = "replaying" /\ conn[h].todo = <<>>
  BY DEF GoLive, At
<1>3. conn' = [conn EXCEPT ![h] = r] /\ UNCHANGED <<client, feed, base, seq, ring, recorder>>
  BY DEF GoLive, Goto, clientVars
<1>4. /\ r \in Conns /\ r.client = c /\ r.pc = "live" /\ r.lastEventID = conn[h].lastEventID
      /\ r.chan = conn[h].chan /\ r.todo = conn[h].todo /\ r.lastSent = conn[h].lastSent
  BY <1>1 DEF Conns, HandlerPC
<1> HIDE DEF r
<1>5. HandlerOK(r, base, seq)
  BY <1>1, <1>2, <1>4 DEF HandlerOK, Subscribed
<1>6. client[c].h = h => LinkOK(r, feed[c], client[c], base)
  BY <1>1, <1>2, <1>4 DEF LinkOK, Subscribed
<1> QED
  BY <1>1, <1>3, <1>4, <1>5, <1>6, HandlerAlone

\* A handler that refuses or leaves ends as one that never was.
LEMMA ClosingKeepsOrder ==
  ASSUME OrderInv, NEW h \in Handlers, Close(h), HangUp(h),
         UNCHANGED <<feed, base, seq, ring, recorder>>
  PROVE  OrderInv'
<1> DEFINE c == conn[h].client
           r == FreeConn(c)
           q == [client[c] EXCEPT !.h = NoHandler]
<1>1. /\ conn[h] \in Conns /\ c \in Clients /\ client[c] \in ClientStates
      /\ client \in [Clients -> ClientStates]
      /\ ClientOK(feed[c], client[c], base, seq)
  BY HandlerFacts
<1>2. conn' = [conn EXCEPT ![h] = r]
  BY DEF Close
<1>3. client' = IF client[c].h = h THEN [client EXCEPT ![c] = q] ELSE client
  BY <1>1 DEF HangUp, Attached
<1>4. r \in Conns /\ r.client = c
  BY <1>1 DEF FreeConn, Conns, HandlerPC
<1>5. HandlerOK(r, base, seq)
  BY ElementsOfEmpty DEF FreeConn, HandlerOK, Current, Subscribed
<1>6. /\ q \in ClientStates /\ q.h = NoHandler
      /\ q.wire = client[c].wire /\ q.pc = client[c].pc /\ q.lastSeq = client[c].lastSeq
  BY <1>1 DEF ClientStates
<1> HIDE DEF r, q
<1>7. ClientOK(feed[c], q, base, seq)
  BY <1>1, <1>6 DEF ClientOK, Got
<1> QED
  BY <1>1, <1>2, <1>3, <1>4, <1>5, <1>6, <1>7, HandlerStep

LEMMA SubscribeKeepsOrder ==
  ASSUME OrderInv, NEW h \in Handlers, Subscribe(h)
  PROVE  OrderInv'
<1> DEFINE c == conn[h].client
           r == [conn[h] EXCEPT !.pc = "subscribed"]
           q == [client[c] EXCEPT !.pc = "reading", !.connected = TRUE]
<1>1. /\ conn[h] \in Conns /\ c \in Clients /\ client[c] \in ClientStates
      /\ conn \in [Handlers -> Conns] /\ client \in [Clients -> ClientStates]
      /\ HandlerOK(conn[h], base, seq)
      /\ ClientOK(feed[c], client[c], base, seq)
      /\ client[c].h = h => LinkOK(conn[h], feed[c], client[c], base)
  BY HandlerFacts
<1>2. conn[h].pc = "accepted" /\ UNCHANGED <<feed, base, seq, ring, recorder>>
  BY DEF Subscribe, At
<1>3. conn' = [conn EXCEPT ![h] = r]
  BY DEF Subscribe, Goto
<1>4. client[c].h = h => client[c].pc = "waiting"
  BY <1>1, <1>2 DEF LinkOK
<1>5. client' = IF client[c].h = h THEN [client EXCEPT ![c] = q] ELSE client
  BY <1>1, <1>4 DEF Subscribe, Attached
<1>6. /\ r \in Conns /\ r.client = c /\ r.pc = "subscribed"
      /\ r.lastEventID = conn[h].lastEventID
      /\ r.chan = conn[h].chan /\ r.todo = conn[h].todo /\ r.lastSent = conn[h].lastSent
  BY <1>1 DEF Conns, HandlerPC
<1>7. /\ q \in ClientStates /\ q.h = client[c].h /\ q.pc = "reading"
      /\ q.wire = client[c].wire /\ q.lastSeq = client[c].lastSeq
  BY <1>1 DEF ClientStates
<1> HIDE DEF r, q
<1>8. HandlerOK(r, base, seq)
  BY <1>1, <1>2, <1>6 DEF HandlerOK, Subscribed
<1>9. ClientOK(feed[c], q, base, seq)
  BY <1>1, <1>7 DEF ClientOK, Got
<1>10. client[c].h = h => LinkOK(r, feed[c], q, base)
  BY <1>1, <1>2, <1>6, <1>7 DEF LinkOK, Got, Subscribed
<1> QED
  BY <1>1, <1>2, <1>3, <1>5, <1>6, <1>7, <1>8, <1>9, <1>10, HandlerStep

\* since() answers with events that are newer than the client's last, in order.
LEMMA SinceIsNewer ==
  ASSUME OrderInv, NEW id \in Int
  PROVE  /\ Since(id) \in Seq(Nat) /\ Increasing(Since(id))
         /\ ToSet(Since(id)) \subseteq ToSet(ring)
         /\ \A x \in ToSet(Since(id)) : x - base > id
<1>1. ring \in Seq(Nat) /\ Increasing(ring) /\ base \in Nat
  BY DEF OrderInv, Types, RingInv
<1>2. CASE Newer(id) = {}
  <2>1. Since(id) = <<>>
    BY <1>2 DEF Since, RestFrom
  <2> QED
    BY <2>1, ElementsOfEmpty
<1>3. CASE Newer(id) /= {}
  <2> DEFINE k == Min(Newer(id))
  <2>1. Newer(id) \subseteq DOMAIN ring /\ DOMAIN ring \subseteq Nat
    BY <1>1 DEF Newer
  <2>2. k \in Newer(id)
    BY <1>3, <2>1, LeastElement
  <2>3. Since(id) = SubSeq(ring, k, Len(ring))
    BY <1>3 DEF Since, RestFrom
  <2> HIDE DEF k
  <2>4. k \in DOMAIN ring /\ ring[k] - base > id
    BY <2>2 DEF Newer
  <2>5. /\ Since(id) \in Seq(Nat) /\ Increasing(Since(id))
        /\ ToSet(Since(id)) \subseteq ToSet(ring)
        /\ \A x \in ToSet(Since(id)) : ring[k] <= x
    BY <1>1, <2>3, <2>4, SuffixIncreases
  <2>6. ring[k] \in Nat
    BY <1>1, <2>4
  <2>7. ASSUME NEW x \in ToSet(Since(id)) PROVE x - base > id
    <3>1. ring[k] <= x /\ x \in Nat
      BY <2>5, <2>7, ElementsAreTyped
    <3> QED
      BY <1>1, <2>4, <2>6, <3>1
  <2> QED
    BY <2>5, <2>7
<1> QED
  BY <1>2, <1>3

\* A client that comes back has an empty connection, so all it has is its feed,
\* and nothing of that is above the number it named.
LEMMA ResumeKeepsOrder ==
  ASSUME OrderInv, NEW h \in Handlers, Resume(h)
  PROVE  OrderInv'
<1> DEFINE c == conn[h].client
           id == conn[h].lastEventID
           t == IF id > 0 THEN Since(id) ELSE <<>>
           r == [conn[h] EXCEPT !.pc = "replaying", !.todo = t]
<1>1. /\ conn[h] \in Conns /\ c \in Clients /\ conn \in [Handlers -> Conns]
      /\ feed[c] \in Seq(Nat) /\ base \in Nat /\ seq \in Nat
      /\ HandlerOK(conn[h], base, seq)
      /\ ClientOK(feed[c], client[c], base, seq)
      /\ client[c].h = h => LinkOK(conn[h], feed[c], client[c], base)
  BY HandlerFacts
<1>2. conn[h].pc = "subscribed"
  BY DEF Resume, At
<1>3. conn' = [conn EXCEPT ![h] = r] /\ UNCHANGED <<client, feed, base, seq, ring, recorder>>
  BY DEF Resume, clientVars
<1>4. id \in Int /\ conn[h].lastSent = 0
  BY <1>1, <1>2 DEF Conns, HandlerOK
<1>5. Current(ring, base, seq)
  BY DEF OrderInv, RingInv
<1>6. /\ t \in Seq(Nat) /\ Increasing(t) /\ ToSet(t) \subseteq ToSet(ring)
      /\ \A x \in ToSet(t) : x - base > id
  <2>1. CASE id > 0
    BY <1>4, <2>1, SinceIsNewer
  <2>2. CASE ~(id > 0)
    BY <2>2, ElementsOfEmpty
  <2> QED
    BY <2>1, <2>2
<1> HIDE DEF t
<1>7. /\ r \in Conns /\ r.client = c /\ r.pc = "replaying" /\ r.lastEventID = id
      /\ r.chan = conn[h].chan /\ r.todo = t /\ r.lastSent = conn[h].lastSent
  BY <1>1, <1>6 DEF Conns, HandlerPC
<1>8. Current(t, base, seq)
  BY <1>5, <1>6 DEF Current
<1>9. \A m \in ToSet(t) : m \in Nat /\ m - base > 0
  BY <1>1, <1>8 DEF Current
<1> HIDE DEF r, id
<1>10. HandlerOK(r, base, seq)
  BY <1>1, <1>2, <1>4, <1>6, <1>7, <1>8, <1>9 DEF HandlerOK, Subscribed
<1>11. ASSUME client[c].h = h PROVE LinkOK(r, feed[c], client[c], base)
  <2>1. LinkOK(conn[h], feed[c], client[c], base)
    BY <1>1, <1>11
  <2>2. client[c].lastSeq = id /\ client[c].wire = <<>> /\ client[c].pc = "reading"
    BY <1>2, <2>1 DEF LinkOK, Subscribed, id
  <2>3. Got(feed[c], client[c]) = ToSet(feed[c])
    BY <2>2, EmptyWire DEF Got
  <2>4. \A d \in ToSet(feed[c]) : d \in Nat /\ (d <= base \/ d - base <= id)
    BY <1>1, <2>2, ElementsAreTyped DEF ClientOK
  <2>5. ASSUME NEW d \in ToSet(feed[c]), NEW m \in ToSet(t) PROVE d < m
    <3>1. d \in Nat /\ (d <= base \/ d - base <= id)
      BY <2>4
    <3>2. m \in Nat /\ m - base > 0 /\ m - base > id
      BY <1>6, <1>9
    <3>3. id \in Int
      BY <1>4 DEF id
    <3> QED
      BY <1>1, <3>1, <3>2, <3>3
  <2>6. Below(Got(feed[c], client[c]), ToSet(r.todo))
    BY <1>7, <2>3, <2>5 DEF Below
  <2>7. \A d \in Got(feed[c], client[c]), m \in ToSet(r.chan) : d < m \/ m - base <= r.lastSent
    BY <1>7, <2>1 DEF LinkOK
  <2> QED
    BY <1>7, <2>2, <2>6, <2>7 DEF LinkOK
<1> QED
  BY <1>1, <1>3, <1>7, <1>10, <1>11, HandlerAlone

\* Event n, which comes after all the client has, is written to its connection.
Written(q, n, b) == [q EXCEPT !.wire = Append(q.wire, [id |-> n, seq |-> n - b])]

LEMMA WritingKeepsOrder ==
  ASSUME NEW f \in Seq(Nat), NEW q \in ClientStates, NEW b \in Nat, NEW k \in Nat,
         NEW n \in Nat, ClientOK(f, q, b, k), q.pc = "reading", n <= k,
         Below(Got(f, q), {n})
  PROVE  LET w == Written(q, n, b) IN
         /\ w \in ClientStates /\ w.pc = "reading" /\ w.h = q.h /\ w.lastSeq = q.lastSeq
         /\ ClientOK(f, w, b, k) /\ Got(f, w) = Got(f, q) \cup {n}
<1> DEFINE p == [id |-> n, seq |-> n - b]
           w == Written(q, n, b)
<1>1. p \in Packets /\ p.id = n /\ p.seq = p.id - b
  BY DEF Packets
<1> HIDE DEF p
<1>2. q.wire \in Seq(Packets) /\ IncreasingIds(q.wire)
  BY DEF ClientStates, ClientOK
<1>3. Below(WireIds(q.wire), {p.id})
  BY <1>1 DEF Got, Below
<1>4. /\ Append(q.wire, p) \in Seq(Packets) /\ IncreasingIds(Append(q.wire, p))
      /\ ToSet(Append(q.wire, p)) = ToSet(q.wire) \cup {p}
      /\ WireIds(Append(q.wire, p)) = WireIds(q.wire) \cup {n}
  BY <1>1, <1>2, <1>3, WireGrows
<1>5. /\ w \in ClientStates /\ w.pc = q.pc /\ w.h = q.h /\ w.lastSeq = q.lastSeq
      /\ w.wire = Append(q.wire, p)
  BY <1>4 DEF ClientStates, Written, p
<1> HIDE DEF w
<1>6. Got(f, w) = Got(f, q) \cup {n}
  BY <1>4, <1>5 DEF Got
<1>7. Below(ToSet(f), WireIds(w.wire))
  BY <1>4, <1>5 DEF ClientOK, Below, Got
<1>8. \A m \in Got(f, w) : m <= k
  BY <1>6 DEF ClientOK
<1>9. \A x \in ToSet(w.wire) : x.id <= b \/ x.seq = x.id - b
  BY <1>1, <1>4, <1>5 DEF ClientOK
<1>10. ClientOK(f, w, b, k)
  BY <1>4, <1>5, <1>6, <1>7, <1>8, <1>9 DEF ClientOK
<1> QED
  BY <1>5, <1>6, <1>10 DEF w

LEMMA ReplayKeepsOrder ==
  ASSUME OrderInv, NEW h \in Handlers, Replay(h)
  PROVE  OrderInv'
<1> DEFINE c == conn[h].client
           n == Head(conn[h].todo)
           r == [conn[h] EXCEPT !.todo = Tail(@), !.lastSent = n - base]
           q == Written(client[c], n, base)
<1>1. /\ conn[h] \in Conns /\ c \in Clients /\ conn \in [Handlers -> Conns]
      /\ client[c] \in ClientStates /\ client \in [Clients -> ClientStates]
      /\ feed[c] \in Seq(Nat) /\ base \in Nat /\ seq \in Nat
      /\ HandlerOK(conn[h], base, seq)
      /\ ClientOK(feed[c], client[c], base, seq)
      /\ client[c].h = h => LinkOK(conn[h], feed[c], client[c], base)
  BY HandlerFacts
<1>2. conn[h].pc = "replaying" /\ conn[h].todo /= <<>>
  BY DEF Replay, At
<1>3. conn' = [conn EXCEPT ![h] = r] /\ UNCHANGED <<feed, base, seq, ring, recorder>>
  BY DEF Replay
<1>4. client' = IF client[c].h = h THEN [client EXCEPT ![c] = q] ELSE client
  BY <1>1 DEF Replay, Write, Written, Attached
<1>5. conn[h].todo \in Seq(Nat) /\ Increasing(conn[h].todo) /\ conn[h].lastSent \in Int
  BY <1>1 DEF Conns, HandlerOK
<1>6. /\ n \in Nat /\ n \in ToSet(conn[h].todo) /\ Tail(conn[h].todo) \in Seq(Nat)
      /\ ToSet(Tail(conn[h].todo)) \subseteq ToSet(conn[h].todo)
      /\ Increasing(Tail(conn[h].todo)) /\ Below({n}, ToSet(Tail(conn[h].todo)))
  BY <1>2, <1>5, ElementsOfTail, TailIncreases
<1>7. n <= seq /\ n - base > conn[h].lastSent
  BY <1>1, <1>6 DEF HandlerOK, Current
<1> HIDE DEF n
<1>8. /\ r \in Conns /\ r.client = c /\ r.pc = "replaying"
      /\ r.chan = conn[h].chan /\ r.todo = Tail(conn[h].todo) /\ r.lastSent = n - base
  <2> DEFINE t == Tail(conn[h].todo)
             l == n - base
  <2>1. t \in Seq(Nat) /\ l \in Int
    BY <1>1, <1>6
  <2> HIDE DEF t, l
  <2>2. r = [conn[h] EXCEPT !.todo = t, !.lastSent = l]
    BY DEF t, l
  <2> HIDE DEF r
  <2>3. /\ r \in Conns /\ r.client = c /\ r.pc = "replaying"
        /\ r.chan = conn[h].chan /\ r.todo = t /\ r.lastSent = l
    BY <1>1, <1>2, <2>1, <2>2 DEF Conns
  <2> QED
    BY <2>3 DEF t, l
<1> HIDE DEF r
<1>9. \A m \in ToSet(Tail(conn[h].todo)) : m \in Nat /\ n < m
  BY <1>6, ElementsAreTyped DEF Below
<1>10. \A m \in ToSet(r.todo) : m - base > r.lastSent
  BY <1>1, <1>6, <1>8, <1>9
<1>11. HandlerOK(r, base, seq)
  BY <1>1, <1>2, <1>6, <1>8, <1>10 DEF HandlerOK, Current, Subscribed
<1>12. ASSUME client[c].h = h
       PROVE  /\ q \in ClientStates /\ ClientOK(feed[c], q, base, seq)
              /\ q.h = h /\ LinkOK(r, feed[c], q, base)
  <2>1. LinkOK(conn[h], feed[c], client[c], base)
    BY <1>1, <1>12
  <2>2. client[c].pc = "reading" /\ Below(Got(feed[c], client[c]), {n})
    BY <1>2, <1>6, <2>1 DEF LinkOK, Subscribed, Below
  <2>3. /\ q \in ClientStates /\ q.pc = "reading" /\ q.h = client[c].h
        /\ ClientOK(feed[c], q, base, seq)
        /\ Got(feed[c], q) = Got(feed[c], client[c]) \cup {n}
    BY <1>1, <1>6, <1>7, <2>2, WritingKeepsOrder
  <2> HIDE DEF q
  <2>4. Below(Got(feed[c], q), ToSet(r.todo))
    BY <1>6, <1>8, <2>1, <2>3 DEF LinkOK, Below
  <2>5. ASSUME NEW d \in Got(feed[c], q), NEW m \in ToSet(r.chan)
        PROVE  d < m \/ m - base <= r.lastSent
    <3>1. m \in Nat
      BY <1>1, <1>8, <2>5, ElementsAreTyped DEF Conns
    <3>2. CASE d = n
      BY <1>1, <1>6, <1>8, <3>1, <3>2
    <3>3. CASE d /= n
      <4>1. d < m \/ m - base <= conn[h].lastSent
        BY <1>8, <2>1, <2>3, <2>5, <3>3 DEF LinkOK
      <4> QED
        BY <1>1, <1>5, <1>6, <1>7, <1>8, <3>1, <4>1
    <3> QED
      BY <3>2, <3>3
  <2> QED
    BY <1>8, <1>12, <2>3, <2>4, <2>5 DEF LinkOK
<1>13. CASE client[c].h = h
  BY <1>1, <1>3, <1>4, <1>8, <1>11, <1>12, <1>13, HandlerStep
<1>14. CASE client[c].h /= h
  BY <1>1, <1>3, <1>4, <1>8, <1>11, <1>14, HandlerStep
<1> QED
  BY <1>13, <1>14

\* What the replay has written the subscription drops; what it has not is later
\* than all the client has.
LEMMA ForwardKeepsOrder ==
  ASSUME OrderInv, NEW h \in Handlers, Forward(h)
  PROVE  OrderInv'
<1> DEFINE c == conn[h].client
           n == Head(conn[h].chan)
           t == Tail(conn[h].chan)
           l == n - base
           dropped == [conn[h] EXCEPT !.chan = t]
           sent == [conn[h] EXCEPT !.chan = t, !.lastSent = l]
           q == Written(client[c], n, base)
<1>1. /\ conn[h] \in Conns /\ c \in Clients /\ conn \in [Handlers -> Conns]
      /\ client[c] \in ClientStates /\ client \in [Clients -> ClientStates]
      /\ feed[c] \in Seq(Nat) /\ base \in Nat /\ seq \in Nat
      /\ HandlerOK(conn[h], base, seq)
      /\ ClientOK(feed[c], client[c], base, seq)
      /\ client[c].h = h => LinkOK(conn[h], feed[c], client[c], base)
  BY HandlerFacts
<1>2. /\ conn[h].pc = "live" /\ conn[h].chan /= <<>>
      /\ UNCHANGED <<feed, base, seq, ring, recorder>>
  BY DEF Forward, At
<1>3. \/ l <= conn[h].lastSent /\ conn' = [conn EXCEPT ![h] = dropped] /\ UNCHANGED client
      \/ /\ ~(l <= conn[h].lastSent) /\ conn' = [conn EXCEPT ![h] = sent]
         /\ client' = IF client[c].h = h THEN [client EXCEPT ![c] = q] ELSE client
  BY <1>1 DEF Forward, AlreadySent, Write, Written, Attached
<1>4. /\ conn[h].chan \in Seq(Nat) /\ Increasing(conn[h].chan) /\ conn[h].lastSent \in Int
      /\ conn[h].todo = <<>>
  BY <1>1, <1>2 DEF Conns, HandlerOK
<1>5. /\ n \in Nat /\ n \in ToSet(conn[h].chan) /\ t \in Seq(Nat)
      /\ ToSet(t) \subseteq ToSet(conn[h].chan) /\ Increasing(t) /\ Below({n}, ToSet(t))
  BY <1>2, <1>4, ElementsOfTail, TailIncreases
<1>6. n <= seq
  BY <1>1, <1>5 DEF HandlerOK, Current
<1>7. l \in Int
  BY <1>1, <1>5
<1>8. \A m \in ToSet(t) : m \in Nat /\ n < m
  BY <1>5, ElementsAreTyped DEF Below
<1> HIDE DEF n, t
<1>9. CASE l <= conn[h].lastSent /\ conn' = [conn EXCEPT ![h] = dropped] /\ UNCHANGED client
  <2> HIDE DEF l
  <2>1. /\ dropped \in Conns /\ dropped.client = c /\ dropped.pc = "live"
        /\ dropped.lastEventID = conn[h].lastEventID
        /\ dropped.chan = t /\ dropped.todo = <<>> /\ dropped.lastSent = conn[h].lastSent
    BY <1>1, <1>2, <1>4, <1>5 DEF Conns
  <2> HIDE DEF dropped
  <2>2. HandlerOK(dropped, base, seq)
    BY <1>1, <1>2, <1>5, <2>1, ElementsOfEmpty DEF HandlerOK, Current, Subscribed
  <2>3. client[c].h = h => LinkOK(dropped, feed[c], client[c], base)
    BY <1>1, <1>2, <1>4, <1>5, <2>1 DEF LinkOK, Subscribed
  <2> QED
    BY <1>1, <1>2, <1>9, <2>1, <2>2, <2>3, HandlerAlone
<1>10. CASE /\ ~(l <= conn[h].lastSent) /\ conn' = [conn EXCEPT ![h] = sent]
            /\ client' = IF client[c].h = h THEN [client EXCEPT ![c] = q] ELSE client
  <2>1. conn[h].lastSent < l
    BY <1>4, <1>7, <1>10
  <2>2. l = n - base
    OBVIOUS
  <2> HIDE DEF l
  <2>3. /\ sent \in Conns /\ sent.client = c /\ sent.pc = "live"
        /\ sent.chan = t /\ sent.todo = <<>> /\ sent.lastSent = l
    BY <1>1, <1>2, <1>4, <1>5, <1>7 DEF Conns
  <2> HIDE DEF sent
  <2>4. HandlerOK(sent, base, seq)
    BY <1>1, <1>2, <1>5, <2>3, ElementsOfEmpty DEF HandlerOK, Current, Subscribed
  <2>5. ASSUME client[c].h = h
        PROVE  /\ q \in ClientStates /\ ClientOK(feed[c], q, base, seq)
               /\ q.h = h /\ LinkOK(sent, feed[c], q, base)
    <3>1. LinkOK(conn[h], feed[c], client[c], base)
      BY <1>1, <2>5
    <3>2. ToSet(feed[c]) \subseteq Nat /\ client[c].wire \in Seq(Packets)
      BY <1>1, ElementsAreTyped DEF ClientStates
    <3>3. Got(feed[c], client[c]) \subseteq Nat
      BY <3>2, ElementsAreTyped DEF Got, WireIds, Packets
    <3>4. ASSUME NEW d \in Got(feed[c], client[c]) PROVE d < n
      <4>1. d < n \/ l <= conn[h].lastSent
        BY <1>5, <2>2, <3>1, <3>4 DEF LinkOK
      <4> QED
        BY <1>10, <4>1
    <3>5. client[c].pc = "reading" /\ Below(Got(feed[c], client[c]), {n})
      BY <1>2, <3>1, <3>4 DEF LinkOK, Subscribed, Below
    <3>6. /\ q \in ClientStates /\ q.pc = "reading" /\ q.h = client[c].h
          /\ ClientOK(feed[c], q, base, seq)
          /\ Got(feed[c], q) = Got(feed[c], client[c]) \cup {n}
      BY <1>1, <1>5, <1>6, <3>5, WritingKeepsOrder
    <3> HIDE DEF q
    <3>7. Below(Got(feed[c], q), ToSet(sent.todo))
      BY <2>3, ElementsOfEmpty DEF Below
    <3>8. ASSUME NEW d \in Got(feed[c], q), NEW m \in ToSet(sent.chan) PROVE d < m
      <4>1. m \in Nat /\ n < m
        BY <1>8, <2>3, <3>8
      <4>2. CASE d = n
        BY <4>1, <4>2
      <4>3. CASE d /= n
        <5>1. d \in Got(feed[c], client[c])
          BY <3>6, <3>8, <4>3
        <5>2. d \in Nat /\ d < n
          BY <3>3, <3>4, <5>1
        <5> QED
          BY <1>5, <4>1, <5>2
      <4> QED
        BY <4>2, <4>3
    <3> QED
      BY <2>3, <2>5, <3>6, <3>7, <3>8 DEF LinkOK
  <2>6. CASE client[c].h = h
    BY <1>1, <1>2, <1>10, <2>3, <2>4, <2>5, <2>6, HandlerStep
  <2>7. CASE client[c].h /= h
    BY <1>1, <1>2, <1>10, <2>3, <2>4, <2>7, HandlerStep
  <2> QED
    BY <2>6, <2>7
<1> QED
  BY <1>3, <1>9, <1>10

\* A client that only changes its place in the loop, or loses its connection.
LEMMA ClientKeepsOrder ==
  ASSUME OrderInv, NEW c \in Clients,
         DialFails(c) \/ Disconnect(c) \/ EmitLost(c) \/ EmitRestored(c) \/ Cut(c)
  PROVE  OrderInv'
<1>1. /\ client[c] \in ClientStates /\ feed[c] \in Seq(Nat)
      /\ client \in [Clients -> ClientStates] /\ feed \in [Clients -> Seq(Nat)]
      /\ ClientOK(feed[c], client[c], base, seq)
  BY ClientFacts
<1>2. feed' = [feed EXCEPT ![c] = feed[c]] /\ UNCHANGED <<conn, base, seq, ring, recorder>>
  BY <1>1 DEF DialFails, Disconnect, EmitLost, EmitRestored, Cut, serverVars
<1>3. ASSUME NEW q \in ClientStates, client' = [client EXCEPT ![c] = q],
             q.h = NoHandler, q.lastSeq = client[c].lastSeq,
             \/ q.wire = client[c].wire /\ q.pc = client[c].pc
             \/ q.wire = <<>>
      PROVE  OrderInv'
  <2>1. WireIds(q.wire) \subseteq WireIds(client[c].wire) /\ IncreasingIds(q.wire)
        /\ ToSet(q.wire) \subseteq ToSet(client[c].wire)
    BY <1>1, <1>3, EmptyWire, ElementsOfEmpty DEF ClientOK
  <2>2. ClientOK(feed[c], q, base, seq)
    BY <1>1, <1>3, <2>1 DEF ClientOK, Got, Below
  <2>3. client' = [client EXCEPT ![c] = q] /\ q.h = NoHandler
    BY <1>3
  <2> QED
    BY <1>1, <1>2, <2>2, <2>3, ClientStep
<1>4. client[c].wire /= <<>> => client[c].pc = "reading"
  BY <1>1 DEF ClientOK
<1>5. client[c].pc \in {"lost", "backoff", "dialing"} => client[c].h = NoHandler
  BY <1>1 DEF ClientOK
<1>6. CASE DialFails(c)
  <2> DEFINE q == [client[c] EXCEPT !.pc = "lost"]
  <2>1. client' = [client EXCEPT ![c] = q] /\ client[c].pc = "dialing"
    BY <1>6 DEF DialFails, ClientAt
  <2>2. /\ q \in ClientStates /\ q.h = client[c].h /\ q.lastSeq = client[c].lastSeq
        /\ q.wire = client[c].wire
    BY <1>1 DEF ClientStates
  <2> HIDE DEF q
  <2> QED
    BY <1>3, <1>4, <1>5, <2>1, <2>2
<1>7. CASE Disconnect(c)
  <2> DEFINE q == [client[c] EXCEPT !.pc = "lost", !.wire = <<>>]
  <2>1. client' = [client EXCEPT ![c] = q] /\ client[c].h = NoHandler
    BY <1>7 DEF Disconnect
  <2>2. /\ q.h = client[c].h /\ q.lastSeq = client[c].lastSeq /\ q.wire = <<>>
    BY <1>1 DEF ClientStates
  <2>3. <<>> \in Seq(Packets)
    OBVIOUS
  <2>4. q \in ClientStates
    BY <1>1, <2>3 DEF ClientStates
  <2> HIDE DEF q
  <2> QED
    BY <1>3, <2>1, <2>2, <2>4
<1>8. CASE EmitLost(c)
  <2> DEFINE e == client[c].lostEmitted \/ client[c].connected
             q == [client[c] EXCEPT !.pc = "backoff", !.connected = FALSE, !.lostEmitted = e]
  <2>1. client' = [client EXCEPT ![c] = q] /\ client[c].pc = "lost"
    BY <1>8 DEF EmitLost, ClientAt
  <2>2. e \in BOOLEAN
    BY <1>1 DEF ClientStates
  <2> HIDE DEF e
  <2>3. /\ q \in ClientStates /\ q.h = client[c].h /\ q.lastSeq = client[c].lastSeq
        /\ q.wire = client[c].wire
    BY <1>1, <2>2 DEF ClientStates
  <2> HIDE DEF q
  <2> QED
    BY <1>3, <1>4, <1>5, <2>1, <2>3
<1>9. CASE EmitRestored(c)
  <2> DEFINE q == [client[c] EXCEPT !.pc = "dialing", !.lostEmitted = FALSE]
  <2>1. client' = [client EXCEPT ![c] = q] /\ client[c].pc = "backoff"
    BY <1>9 DEF EmitRestored, ClientAt
  <2>2. /\ q \in ClientStates /\ q.h = client[c].h /\ q.lastSeq = client[c].lastSeq
        /\ q.wire = client[c].wire
    BY <1>1 DEF ClientStates
  <2> HIDE DEF q
  <2> QED
    BY <1>3, <1>4, <1>5, <2>1, <2>2
<1>10. CASE Cut(c)
  <2> DEFINE q == [client[c] EXCEPT !.h = NoHandler]
  <2>1. client' = [client EXCEPT ![c] = q]
    BY <1>10 DEF Cut
  <2>2. /\ q \in ClientStates /\ q.h = NoHandler /\ q.lastSeq = client[c].lastSeq
        /\ q.wire = client[c].wire /\ q.pc = client[c].pc
    BY <1>1 DEF ClientStates
  <2> HIDE DEF q
  <2> QED
    BY <1>3, <2>1, <2>2
<1> QED
  BY <1>6, <1>7, <1>8, <1>9, <1>10

\* The event that is read leaves the connection, for the consumer or for nobody.
LEMMA ReceiveKeepsOrder ==
  ASSUME OrderInv, NEW c \in Clients, Receive(c) \/ Skip(c)
  PROVE  OrderInv'
<1> DEFINE w == client[c].wire
           p == Head(w)
           u == Tail(w)
           newer == Receive(c) /\ p.seq > client[c].lastSeq
           s == IF newer THEN p.seq ELSE client[c].lastSeq
           b == IF newer THEN p.id - p.seq ELSE client[c].from
           q == [client[c] EXCEPT !.wire = u, !.lastSeq = s, !.from = b]
<1>1. /\ client[c] \in ClientStates /\ feed[c] \in Seq(Nat)
      /\ client \in [Clients -> ClientStates] /\ feed \in [Clients -> Seq(Nat)]
      /\ base \in Nat /\ seq \in Nat
      /\ ClientOK(feed[c], client[c], base, seq)
      /\ \A h \in Handlers : client[c].h = h /\ conn[h].client = c
                               => LinkOK(conn[h], feed[c], client[c], base)
  BY ClientFacts
<1>2. /\ client[c].pc = "reading" /\ w /= <<>>
      /\ UNCHANGED <<conn, base, seq, ring, recorder>>
  BY DEF Receive, Skip, ClientAt, serverVars
<1>3. client' = [client EXCEPT ![c] = q]
  <2>1. CASE Receive(c)
    BY <1>1, <2>1 DEF Receive
  <2>2. CASE ~Receive(c)
    <3>1. client' = [client EXCEPT ![c] = [client[c] EXCEPT !.wire = u]]
      BY <1>1, <2>2 DEF Skip
    <3>2. q = [client[c] EXCEPT !.wire = u]
      BY <1>1, <2>2 DEF ClientStates
    <3> QED
      BY <3>1, <3>2
  <2> QED
    BY <2>1, <2>2
<1>4. \/ Receive(c) /\ feed' = [feed EXCEPT ![c] = Append(feed[c], p.id)]
      \/ feed' = [feed EXCEPT ![c] = feed[c]]
  BY <1>1 DEF Receive, Skip
<1>5. w \in Seq(Packets) /\ IncreasingIds(w) /\ client[c].lastSeq \in Int /\ client[c].from \in Int
  BY <1>1 DEF ClientStates, ClientOK
<1>6. /\ p \in ToSet(w) /\ p \in Packets /\ u \in Seq(Packets)
      /\ IncreasingIds(u) /\ ToSet(u) \subseteq ToSet(w)
      /\ WireIds(u) \subseteq WireIds(w) /\ p.id \in WireIds(w)
      /\ Below({p.id}, WireIds(u))
  BY <1>2, <1>5, WireShrinks
<1> HIDE DEF w, p, u
<1>7. p.id \in Nat /\ p.seq \in Int
  BY <1>6 DEF Packets
<1>8. /\ s \in Int /\ b \in Int /\ client[c].lastSeq <= s /\ (Receive(c) => p.seq <= s)
  BY <1>5, <1>7
<1> HIDE DEF newer, s, b
<1>9. /\ q \in ClientStates /\ q.h = client[c].h /\ q.pc = "reading"
      /\ q.wire = u /\ q.lastSeq = s
  BY <1>1, <1>2, <1>6, <1>8 DEF ClientStates
<1> HIDE DEF q
<1>10. ASSUME NEW f \in Seq(Nat), f = feed[c] \/ (Receive(c) /\ f = Append(feed[c], p.id)),
              feed' = [feed EXCEPT ![c] = f]
       PROVE  OrderInv'
  <2>1. Increasing(feed[c]) /\ Below(ToSet(feed[c]), WireIds(w))
    BY <1>1 DEF ClientOK, w
  <2>2. Increasing(f) /\ ToSet(f) \subseteq ToSet(feed[c]) \cup {p.id}
    <3>1. Below(ToSet(feed[c]), {p.id})
      BY <1>6, <2>1 DEF Below
    <3>2. CASE f = feed[c]
      BY <2>1, <3>2
    <3>3. CASE f = Append(feed[c], p.id)
      <4>1. Increasing(f)
        BY <1>1, <1>7, <2>1, <3>1, <3>3, AppendIncreases
      <4>2. feed[c] \in Seq(Nat) /\ p.id \in Nat
        BY <1>1, <1>7
      <4>3. ToSet(Append(feed[c], p.id)) = ToSet(feed[c]) \cup {p.id}
        BY <4>2, ElementsOfAppend
      <4> QED
        BY <3>3, <4>1, <4>3
    <3> QED
      BY <1>10, <3>2, <3>3
  <2>3. Below(ToSet(f), WireIds(u))
    BY <1>6, <2>1, <2>2 DEF Below
  <2>4. Got(f, q) \subseteq Got(feed[c], client[c])
    BY <1>6, <1>9, <2>2 DEF Got, w
  <2>5. ASSUME NEW m \in ToSet(f) PROVE m <= base \/ m - base <= s
    <3>1. CASE Receive(c) /\ m = p.id
      <4>1. m <= base \/ p.seq = m - base
        BY <1>1, <1>6, <3>1 DEF ClientOK, w
      <4> QED
        BY <1>8, <3>1, <4>1
    <3>2. CASE m \in ToSet(feed[c])
      <4>1. m <= base \/ m - base <= client[c].lastSeq
        BY <1>1, <3>2 DEF ClientOK
      <4>2. m \in Nat
        BY <1>1, <3>2, ElementsAreTyped
      <4> QED
        BY <1>1, <1>5, <1>8, <4>1, <4>2
    <3>3. Receive(c) \/ f = feed[c]
      BY <1>10
    <3> QED
      BY <2>2, <2>5, <3>1, <3>2, <3>3
  <2>6. \A x \in ToSet(u) : x.id <= base \/ x.seq = x.id - base
    BY <1>1, <1>6 DEF ClientOK, w
  <2>7. \A m \in Got(f, q) : m <= seq
    BY <1>1, <2>4 DEF ClientOK
  <2>8. ClientOK(f, q, base, seq)
    BY <1>6, <1>9, <2>2, <2>3, <2>5, <2>6, <2>7 DEF ClientOK
  <2>9. ASSUME NEW h \in Handlers, client[c].h = h, conn[h].client = c
        PROVE  LinkOK(conn[h], f, q, base)
    <3>1. LinkOK(conn[h], feed[c], client[c], base)
      BY <1>1, <2>9
    <3>2. conn[h].pc \notin {"arrived", "refusing", "accepted", "subscribed"}
      BY <1>2, <3>1 DEF LinkOK, w
    <3>3. Below(Got(f, q), ToSet(conn[h].todo))
      BY <2>4, <3>1 DEF LinkOK, Below
    <3>4. \A d \in Got(f, q), m \in ToSet(conn[h].chan) : d < m \/ m - base <= conn[h].lastSent
      BY <2>4, <3>1 DEF LinkOK
    <3> QED
      BY <1>9, <3>1, <3>2, <3>3, <3>4 DEF LinkOK
  <2> QED
    BY <1>1, <1>2, <1>3, <1>9, <1>10, <2>8, <2>9, ClientStep
<1>11. Append(feed[c], p.id) \in Seq(Nat)
  BY <1>1, <1>7
<1> QED
  BY <1>1, <1>4, <1>10, <1>11

----------------------------------------------------------------------------
(* Steps of the service, of the recorder, and of many at once.             *)

LEMMA NothingMoves ==
  ASSUME OrderInv, UNCHANGED <<conn, client, feed, base, seq, ring, recorder>>
  PROVE  OrderInv'
BY DEF OrderInv, Types, RingInv, HandlersInv, ClientsInv, LinksInv, Attached

LEMMA RecordKeepsOrder ==
  ASSUME OrderInv, Record
  PROVE  OrderInv'
<1> DEFINE n == Head(recorder)
           old == IF Len(ring) >= RingSize THEN Tail(ring) ELSE ring
<1>1. Types /\ RingInv /\ HandlersInv /\ ClientsInv /\ LinksInv
  BY DEF OrderInv
<1>2. /\ recorder /= <<>> /\ recorder' = Tail(recorder) /\ ring' = Append(old, n)
      /\ UNCHANGED <<conn, client, feed, base, seq>>
  BY DEF Record, AddToRing, clientVars
<1>3. ring \in Seq(Nat) /\ recorder \in Seq(Nat) /\ Increasing(ring) /\ Increasing(recorder)
  BY <1>1 DEF Types, RingInv
<1>4. /\ n \in Nat /\ n \in ToSet(recorder) /\ recorder' \in Seq(Nat)
      /\ ToSet(recorder') \subseteq ToSet(recorder)
      /\ Increasing(recorder') /\ Below({n}, ToSet(recorder'))
  BY <1>2, <1>3, ElementsOfTail, TailIncreases
<1>5. old \in Seq(Nat) /\ Increasing(old) /\ ToSet(old) \subseteq ToSet(ring)
  <2>1. CASE Len(ring) >= RingSize
    <3>1. ring /= <<>>
      BY <1>3, <2>1
    <3> QED
      BY <1>3, <2>1, <3>1, ElementsOfTail, TailIncreases
  <2>2. CASE ~(Len(ring) >= RingSize)
    BY <1>3, <2>2
  <2> QED
    BY <2>1, <2>2
<1> HIDE DEF n, old
<1>6. Below(ToSet(ring), ToSet(recorder)) /\ Current(ring, base, seq) /\ Current(recorder, base, seq)
  BY <1>1 DEF RingInv
<1>7. Below(ToSet(old), {n})
  BY <1>4, <1>5, <1>6 DEF Below
<1>8. ring' \in Seq(Nat) /\ Increasing(ring')
  BY <1>2, <1>4, <1>5, <1>7, AppendIncreases
<1>9. ToSet(ring') = ToSet(old) \cup {n}
  BY <1>2, <1>4, <1>5, ElementsOfAppend
<1>10. Below(ToSet(ring'), ToSet(recorder'))
  BY <1>4, <1>5, <1>6, <1>9 DEF Below
<1>11. Current(ring', base, seq) /\ Current(recorder', base, seq)
  BY <1>4, <1>5, <1>6, <1>9 DEF Current
<1>12. RingInv'
  BY <1>2, <1>4, <1>8, <1>10, <1>11 DEF RingInv
<1>13. Types'
  BY <1>1, <1>2, <1>4, <1>8 DEF Types
<1>14. HandlersInv' /\ ClientsInv' /\ LinksInv'
  BY <1>1, <1>2 DEF HandlersInv, ClientsInv, LinksInv, Attached
<1> QED
  BY <1>12, <1>13, <1>14 DEF OrderInv

\* What a channel is offered comes after all it holds.
LEMMA OfferedComesLast ==
  ASSUME NEW s \in Seq(Nat), Increasing(s), Current(s, base, seq),
         base \in Nat, seq \in Nat, base <= seq
  PROVE  /\ Offer(s) \in Seq(Nat) /\ Increasing(Offer(s))
         /\ Current(Offer(s), base, seq + 1) /\ ToSet(Offer(s)) \subseteq ToSet(s) \cup {seq + 1}
<1> DEFINE n == seq + 1
<1>1. n \in Nat /\ n \in (base + 1)..n /\ (base + 1)..seq \subseteq (base + 1)..n
  OBVIOUS
<1>2. \A m \in (base + 1)..seq : m < n
  OBVIOUS
<1>3. Offer(s) = Append(s, n) \/ Offer(s) = s
  BY DEF Offer
<1> HIDE DEF n
<1>4. CASE Offer(s) = s
  BY <1>1, <1>4 DEF Current, n
<1>5. CASE Offer(s) = Append(s, n)
  <2>1. Below(ToSet(s), {n})
    BY <1>2 DEF Below, Current
  <2>2. Append(s, n) \in Seq(Nat) /\ Increasing(Append(s, n))
    BY <1>1, <2>1, AppendIncreases
  <2>3. ToSet(Append(s, n)) = ToSet(s) \cup {n}
    BY <1>1, ElementsOfAppend
  <2>4. Current(Offer(s), base, n)
    BY <1>1, <1>5, <2>3 DEF Current
  <2> QED
    BY <1>5, <2>2, <2>3, <2>4 DEF n
<1> QED
  BY <1>3, <1>4, <1>5

LEMMA BroadcastKeepsOrder ==
  ASSUME OrderInv, Broadcast
  PROVE  OrderInv'
<1> DEFINE n == seq + 1
<1>1. Types /\ RingInv /\ HandlersInv /\ ClientsInv /\ LinksInv
  BY DEF OrderInv
<1>2. /\ seq' = n /\ UNCHANGED <<base, ring, client, feed>>
      /\ recorder' = IF recording THEN Offer(recorder) ELSE recorder
      /\ conn' = [h \in Handlers |-> IF IsSubscribed(h)
                                     THEN [conn[h] EXCEPT !.chan = Offer(conn[h].chan)]
                                     ELSE conn[h]]
  BY DEF Broadcast, clientVars
<1>3. base \in Nat /\ seq \in Nat /\ base <= seq
  BY <1>1 DEF Types
<1>4. n \in Nat /\ base <= n /\ seq < n /\ (base + 1)..seq \subseteq (base + 1)..n
  BY <1>3
<1>5. \A s \in Seq(Nat) : Current(s, base, seq) => Current(s, base, n)
  BY <1>4 DEF Current
<1>6. \A s \in Seq(Nat) : Increasing(s) /\ Current(s, base, seq) =>
        /\ Offer(s) \in Seq(Nat) /\ Increasing(Offer(s))
        /\ Current(Offer(s), base, n) /\ ToSet(Offer(s)) \subseteq ToSet(s) \cup {n}
  BY <1>3, OfferedComesLast
<1> HIDE DEF n
<1>7. recorder' \in Seq(Nat) /\ ring' \in Seq(Nat) /\ RingInv'
  <2>1. /\ ring \in Seq(Nat) /\ recorder \in Seq(Nat) /\ Increasing(ring) /\ Increasing(recorder)
        /\ Current(ring, base, seq) /\ Current(recorder, base, seq)
        /\ Below(ToSet(ring), ToSet(recorder))
    BY <1>1 DEF Types, RingInv
  <2>2. /\ recorder' \in Seq(Nat) /\ Increasing(recorder') /\ Current(recorder', base, n)
        /\ ToSet(recorder') \subseteq ToSet(recorder) \cup {n}
    BY <1>2, <1>5, <1>6, <2>1
  <2>3. \A x \in ToSet(ring) : x < n
    <3> TAKE x \in ToSet(ring)
    <3>1. x \in Nat /\ x <= seq
      BY <1>3, <2>1 DEF Current
    <3> QED
      BY <1>3, <1>4, <3>1
  <2>4. Below(ToSet(ring), ToSet(recorder'))
    BY <2>1, <2>2, <2>3 DEF Below
  <2> QED
    BY <1>2, <1>5, <2>1, <2>2, <2>4 DEF RingInv
<1>8. ASSUME NEW h \in Handlers
      PROVE  /\ conn'[h] \in Conns
             /\ conn'[h].client = conn[h].client /\ conn'[h].pc = conn[h].pc
             /\ conn'[h].lastEventID = conn[h].lastEventID
             /\ conn'[h].todo = conn[h].todo /\ conn'[h].lastSent = conn[h].lastSent
             /\ Increasing(conn'[h].chan) /\ Current(conn'[h].chan, base, n)
             /\ ToSet(conn'[h].chan) \subseteq ToSet(conn[h].chan) \cup {n}
             /\ conn[h].pc \notin Subscribed => conn'[h].chan = conn[h].chan
  <2>1. conn[h] \in Conns /\ HandlerOK(conn[h], base, seq)
    BY <1>1 DEF Types, HandlersInv
  <2>2. /\ conn[h].chan \in Seq(Nat) /\ Increasing(conn[h].chan)
        /\ Current(conn[h].chan, base, seq)
    BY <2>1 DEF Conns, HandlerOK
  <2>3. CASE IsSubscribed(h)
    <3> DEFINE s == Offer(conn[h].chan)
    <3>1. /\ s \in Seq(Nat) /\ Increasing(s) /\ Current(s, base, n)
          /\ ToSet(s) \subseteq ToSet(conn[h].chan) \cup {n}
      BY <1>6, <2>2
    <3>2. conn'[h] = [conn[h] EXCEPT !.chan = s]
      BY <1>2, <2>3
    <3> HIDE DEF s
    <3>3. /\ conn'[h] \in Conns /\ conn'[h].chan = s
          /\ conn'[h].client = conn[h].client /\ conn'[h].pc = conn[h].pc
          /\ conn'[h].lastEventID = conn[h].lastEventID
          /\ conn'[h].todo = conn[h].todo /\ conn'[h].lastSent = conn[h].lastSent
      BY <2>1, <3>1, <3>2 DEF Conns
    <3> QED
      BY <2>3, <3>1, <3>3 DEF IsSubscribed
  <2>4. CASE ~IsSubscribed(h)
    <3>1. conn'[h] = conn[h]
      BY <1>2, <2>4
    <3> QED
      BY <1>5, <2>1, <2>2, <3>1
  <2> QED
    BY <2>3, <2>4
<1>9. conn' \in [Handlers -> Conns]
  BY <1>2, <1>8
<1>10. Types'
  BY <1>1, <1>2, <1>4, <1>7, <1>9 DEF Types
<1>11. HandlersInv'
  <2> SUFFICES ASSUME NEW h \in Handlers PROVE HandlerOK(conn'[h], base, n)
    BY <1>2 DEF HandlersInv
  <2>1. conn[h] \in Conns /\ HandlerOK(conn[h], base, seq)
    BY <1>1 DEF Types, HandlersInv
  <2>2. Current(conn[h].todo, base, n)
    BY <1>5, <2>1 DEF HandlerOK, Conns
  <2> QED
    BY <1>8, <2>1, <2>2 DEF HandlerOK
<1>12. ClientsInv'
  <2> SUFFICES ASSUME NEW c \in Clients PROVE ClientOK(feed[c], client[c], base, n)
    BY <1>2 DEF ClientsInv
  <2>1. /\ ClientOK(feed[c], client[c], base, seq)
        /\ client[c].wire \in Seq(Packets) /\ feed[c] \in Seq(Nat)
    BY <1>1 DEF ClientsInv, Types, ClientStates
  <2>2. Got(feed[c], client[c]) \subseteq Nat
    BY <2>1, ElementsAreTyped DEF Got, WireIds, Packets
  <2>3. \A m \in Got(feed[c], client[c]) : m <= n
    <3> TAKE m \in Got(feed[c], client[c])
    <3>1. m <= seq /\ m \in Nat
      BY <2>1, <2>2 DEF ClientOK
    <3> QED
      BY <1>3, <1>4, <3>1
  <2> QED
    BY <2>1, <2>3 DEF ClientOK
<1>13. LinksInv'
  <2> SUFFICES ASSUME NEW h \in Handlers, client[conn[h].client].h = h
               PROVE  LinkOK(conn'[h], feed[conn[h].client], client[conn[h].client], base)
    BY <1>2, <1>8 DEF LinksInv, Attached
  <2> DEFINE f == feed[conn[h].client]
             q == client[conn[h].client]
  <2>1. LinkOK(conn[h], f, q, base)
    BY <1>1 DEF LinksInv, Attached
  <2>2. \A d \in Got(f, q) : d < n
    <3>1. /\ ClientOK(f, q, base, seq) /\ q.wire \in Seq(Packets) /\ f \in Seq(Nat)
      BY HandlerFacts DEF ClientStates
    <3>2. Got(f, q) \subseteq Nat
      BY <3>1, ElementsAreTyped DEF Got, WireIds, Packets
    <3> TAKE d \in Got(f, q)
    <3>3. d \in Nat /\ d <= seq
      BY <3>1, <3>2 DEF ClientOK
    <3> QED
      BY <1>3, <1>4, <3>3
  <2> HIDE DEF f, q
  <2>3. \A d \in Got(f, q), m \in ToSet(conn'[h].chan) : d < m \/ m - base <= conn[h].lastSent
    BY <1>8, <2>1, <2>2 DEF LinkOK
  <2>4. LinkOK(conn'[h], f, q, base)
    BY <1>8, <2>1, <2>3 DEF LinkOK
  <2> QED
    BY <2>4 DEF f, q
<1> QED
  BY <1>7, <1>10, <1>11, <1>12, <1>13 DEF OrderInv

\* The new handler has nothing to write, and its client nothing on its connection.
LEMMA DialKeepsOrder ==
  ASSUME OrderInv, NEW c \in Clients, Dial(c)
  PROVE  OrderInv'
<1> DEFINE e == FreeHandler
           r == [FreeConn(c) EXCEPT !.pc = "arrived", !.lastEventID = client[c].lastSeq]
           q == [client[c] EXCEPT !.pc = "waiting", !.h = e]
<1>1. Types /\ RingInv /\ HandlersInv /\ ClientsInv /\ LinksInv
  BY DEF OrderInv
<1>2. /\ client[c].pc = "dialing"
      /\ conn' = [conn EXCEPT ![e] = r] /\ client' = [client EXCEPT ![c] = q]
      /\ UNCHANGED <<feed, base, seq, ring, recorder>>
  BY DEF Dial, ClientAt
<1>3. e \in Handlers
  BY DEF Dial, FreeHandler
<1> HIDE DEF e
<1>4. client[c] \in ClientStates /\ ClientOK(feed[c], client[c], base, seq)
  BY <1>1 DEF Types, ClientsInv
<1>5. client[c].wire = <<>> /\ client[c].lastSeq \in Int
  BY <1>2, <1>4 DEF ClientOK, ClientStates
<1>6. <<>> \in Seq(Nat)
  OBVIOUS
<1>7. /\ r \in Conns /\ r.client = c /\ r.pc = "arrived" /\ r.lastEventID = client[c].lastSeq
      /\ r.chan = <<>> /\ r.todo = <<>> /\ r.lastSent = 0
  <2> DEFINE l == client[c].lastSeq
             f == FreeConn(c)
  <2>1. /\ f \in Conns /\ f.client = c
        /\ f.chan = <<>> /\ f.todo = <<>> /\ f.lastSent = 0
    BY <1>6 DEF FreeConn, Conns, HandlerPC
  <2>2. l \in Int
    BY <1>5
  <2>3. r = [f EXCEPT !.pc = "arrived", !.lastEventID = l]
    OBVIOUS
  <2> HIDE DEF f, l, r
  <2>4. /\ r \in Conns /\ r.client = c /\ r.pc = "arrived" /\ r.lastEventID = l
        /\ r.chan = <<>> /\ r.todo = <<>> /\ r.lastSent = 0
    BY <2>1, <2>2, <2>3 DEF Conns, HandlerPC
  <2> QED
    BY <2>4 DEF l
<1>8. /\ q \in ClientStates /\ q.pc = "waiting" /\ q.h = e
      /\ q.wire = <<>> /\ q.lastSeq = client[c].lastSeq
  BY <1>3, <1>4, <1>5 DEF ClientStates
<1> HIDE DEF r, q
<1>9. HandlerOK(r, base, seq)
  BY <1>7, ElementsOfEmpty DEF HandlerOK, Current, Subscribed
<1>10. ClientOK(feed[c], q, base, seq)
  BY <1>4, <1>5, <1>8 DEF ClientOK, Got
<1>11. LinkOK(r, feed[c], q, base)
  BY <1>7, <1>8, ElementsOfEmpty DEF LinkOK, Below, Subscribed
<1>12. /\ conn' \in [Handlers -> Conns] /\ conn'[e] = r
       /\ \A g \in Handlers \ {e} : conn'[g] = conn[g]
  BY <1>1, <1>2, <1>3, <1>7 DEF Types
<1>13. /\ client' \in [Clients -> ClientStates] /\ client'[c] = q
       /\ \A d \in Clients \ {c} : client'[d] = client[d]
  BY <1>1, <1>2, <1>8 DEF Types
<1>14. Types' /\ RingInv'
  BY <1>1, <1>2, <1>12, <1>13 DEF Types, RingInv
<1>15. HandlersInv'
  BY <1>1, <1>2, <1>9, <1>12 DEF HandlersInv
<1>16. ClientsInv'
  BY <1>1, <1>2, <1>10, <1>13 DEF ClientsInv
<1>17. LinksInv'
  <2> SUFFICES ASSUME NEW g \in Handlers, client'[conn'[g].client].h = g
               PROVE  LinkOK(conn'[g], feed[conn'[g].client], client'[conn'[g].client], base)
    BY <1>2 DEF LinksInv, Attached
  <2>1. CASE g = e
    BY <1>7, <1>11, <1>12, <1>13, <2>1
  <2>2. CASE g /= e
    <3>1. conn'[g] = conn[g] /\ conn[g].client \in Clients
      BY <1>1, <1>12, <2>2 DEF Types, Conns
    <3>2. conn[g].client /= c
      BY <1>8, <1>13, <2>2, <3>1
    <3>3. client'[conn[g].client] = client[conn[g].client]
      BY <1>13, <3>1, <3>2
    <3> QED
      BY <1>1, <3>1, <3>3 DEF LinksInv, Attached
  <2> QED
    BY <2>1, <2>2
<1> QED
  BY <1>14, <1>15, <1>16, <1>17 DEF OrderInv

\* All that was sent before the restart is an event of a former server after it.
LEMMA RestartKeepsOrder ==
  ASSUME OrderInv, Restart
  PROVE  OrderInv'
<1>1. Types /\ RingInv /\ HandlersInv /\ ClientsInv /\ LinksInv
  BY DEF OrderInv
<1>2. /\ base' = seq /\ seq' = seq /\ feed' = feed /\ recorder' = <<>> /\ ring' = <<>>
      /\ conn' = [h \in Handlers |-> FreeConn(conn[h].client)]
      /\ client' = [c \in Clients |-> [client[c] EXCEPT !.h = NoHandler]]
  BY DEF Restart
<1>3. <<>> \in Seq(Nat)
  OBVIOUS
<1>4. ASSUME NEW h \in Handlers
      PROVE  conn'[h] \in Conns /\ HandlerOK(conn'[h], base', seq') /\ conn'[h].client \in Clients
  <2>1. conn[h].client \in Clients
    BY <1>1 DEF Types, Conns
  <2> DEFINE r == FreeConn(conn[h].client)
  <2>2. r \in Conns /\ r.client \in Clients
    BY <1>3, <2>1 DEF FreeConn, Conns, HandlerPC
  <2>3. r.pc = "free" /\ r.chan = <<>> /\ r.todo = <<>> /\ r.lastSent = 0
    BY DEF FreeConn
  <2>4. conn'[h] = r
    BY <1>2
  <2> HIDE DEF r
  <2>5. HandlerOK(r, base', seq')
    BY <2>3, ElementsOfEmpty DEF HandlerOK, Current, Subscribed
  <2> QED
    BY <2>2, <2>4, <2>5
<1>5. ASSUME NEW c \in Clients
      PROVE  /\ client'[c] \in ClientStates /\ client'[c].h = NoHandler
             /\ ClientOK(feed[c], client'[c], seq, seq)
  <2> DEFINE q == [client[c] EXCEPT !.h = NoHandler]
  <2>1. client[c] \in ClientStates /\ ClientOK(feed[c], client[c], base, seq)
    BY <1>1 DEF Types, ClientsInv
  <2>2. /\ q \in ClientStates /\ q.h = NoHandler
        /\ q.wire = client[c].wire /\ q.pc = client[c].pc /\ q.lastSeq = client[c].lastSeq
    BY <2>1 DEF ClientStates
  <2>3. client'[c] = q
    BY <1>2
  <2> HIDE DEF q
  <2>4. /\ Got(feed[c], q) = Got(feed[c], client[c]) /\ ToSet(feed[c]) \subseteq Got(feed[c], q)
        /\ \A p \in ToSet(q.wire) : p.id \in Got(feed[c], q)
    BY <2>2 DEF Got, WireIds
  <2>5. \A m \in Got(feed[c], q) : m <= seq
    BY <2>1, <2>4 DEF ClientOK
  <2>6. ClientOK(feed[c], q, seq, seq)
    BY <2>1, <2>2, <2>4, <2>5 DEF ClientOK
  <2> QED
    BY <2>2, <2>3, <2>6
<1>6. conn' \in [Handlers -> Conns] /\ client' \in [Clients -> ClientStates]
  BY <1>2, <1>4, <1>5
<1>7. seq \in Nat /\ seq <= seq
  BY <1>1 DEF Types
<1>8. Types'
  BY <1>1, <1>2, <1>3, <1>6, <1>7 DEF Types
<1>9. RingInv'
  BY <1>2, ElementsOfEmpty DEF RingInv, Current, Below
<1>10. HandlersInv' /\ ClientsInv'
  BY <1>2, <1>4, <1>5 DEF HandlersInv, ClientsInv
<1>11. LinksInv'
  BY <1>4, <1>5 DEF LinksInv, Attached
<1> QED
  BY <1>8, <1>9, <1>10, <1>11 DEF OrderInv

LEMMA OrderAtFirst == Init => OrderInv
<1> SUFFICES ASSUME Init PROVE OrderInv
  OBVIOUS
<1> DEFINE b == CHOOSE c \in Clients : TRUE
           r == FreeConn(b)
           q == [pc |-> "dialing", h |-> NoHandler, wire |-> <<>>, lastSeq |-> 0, from |-> 0,
                 connected |-> FALSE, lostEmitted |-> FALSE]
<1>1. /\ seq = 0 /\ base = 0 /\ ring = <<>> /\ recorder = <<>>
      /\ conn = [h \in Handlers |-> r] /\ client = [c \in Clients |-> q]
      /\ feed = [c \in Clients |-> <<>>]
  BY DEF Init
<1>2. b \in Clients
  OBVIOUS
<1>3. <<>> \in Seq(Nat) /\ <<>> \in Seq(Packets)
  OBVIOUS
<1> HIDE DEF b
<1>4. r \in Conns /\ r.pc = "free" /\ r.chan = <<>> /\ r.todo = <<>> /\ r.lastSent = 0
  BY <1>2, <1>3 DEF FreeConn, Conns, HandlerPC
<1>5. q \in ClientStates /\ q.h = NoHandler /\ q.wire = <<>> /\ q.pc = "dialing"
  BY <1>3 DEF ClientStates
<1> HIDE DEF r, q
<1>6. HandlerOK(r, base, seq)
  BY <1>4, ElementsOfEmpty DEF HandlerOK, Current, Subscribed
<1>7. ClientOK(<<>>, q, base, seq)
  BY <1>5, ElementsOfEmpty, EmptyWire DEF ClientOK, Got, Below
<1>8. Types
  BY <1>1, <1>3, <1>4, <1>5 DEF Types
<1>9. RingInv
  BY <1>1, ElementsOfEmpty DEF RingInv, Current, Below
<1>10. HandlersInv /\ ClientsInv
  BY <1>1, <1>6, <1>7 DEF HandlersInv, ClientsInv
<1>11. LinksInv
  <2> SUFFICES ASSUME NEW h \in Handlers PROVE ~Attached(h)
    BY DEF LinksInv
  <2>1. conn[h].client \in Clients
    BY <1>8 DEF Types, Conns
  <2> QED
    BY <1>1, <1>5, <2>1 DEF Attached
<1> QED
  BY <1>8, <1>9, <1>10, <1>11 DEF OrderInv

LEMMA OrderIsKept == OrderInv /\ [Next]_vars => OrderInv'
<1> SUFFICES ASSUME OrderInv, [Next]_vars PROVE OrderInv'
  OBVIOUS
<1>1. CASE Broadcast
  BY <1>1, BroadcastKeepsOrder
<1>2. CASE Recorder
  <2>1. CASE RecorderSubscribes
    BY <2>1, NothingMoves DEF RecorderSubscribes, clientVars
  <2> QED
    BY <1>2, <2>1, RecordKeepsOrder DEF Recorder
<1>3. CASE Restart
  BY <1>3, RestartKeepsOrder
<1>4. ASSUME NEW h \in Handlers, Serve(h) PROVE OrderInv'
  <2>1. CASE Refuse(h) \/ Leave(h)
    BY <2>1, ClosingKeepsOrder DEF Refuse, Leave
  <2> QED
    BY <1>4, <2>1, CountKeepsOrder, SubscribeKeepsOrder, ResumeKeepsOrder,
       ReplayKeepsOrder, GoLiveKeepsOrder, ForwardKeepsOrder DEF Serve
<1>5. ASSUME NEW c \in Clients, EventLoop(c) \/ DialFails(c) \/ Cut(c) PROVE OrderInv'
  BY <1>5, DialKeepsOrder, ReceiveKeepsOrder, ClientKeepsOrder DEF EventLoop
<1>6. CASE UNCHANGED vars
  BY <1>6, NothingMoves DEF vars
<1> QED
  BY <1>1, <1>2, <1>3, <1>4, <1>5, <1>6 DEF Next

\* A client's consumer sees the events of one server, and of the next one after
\* it, in the order they were broadcast and none twice: what since() answers and
\* what the lastSent guard of sse.go lets through never overlap.
THEOREM InOrder == Spec => []InOrderOnce
<1>1. OrderInv => InOrderOnce
  BY DEF OrderInv, ClientsInv, ClientOK, Increasing, InOrderOnce
<1> QED
  BY <1>1, OrderAtFirst, OrderIsKept, PTL DEF Spec

----------------------------------------------------------------------------
(* The limit on connections.                                               *)

Counted == {h \in Handlers : conn[h].pc \notin {"free", "arrived"}}
Serving == {h \in Handlers : conn[h].pc \in Served}

LEMMA LimitCounts ==
  /\ ServedWithinLimit <=> sseConns = Cardinality(Counted) /\ Cardinality(Serving) <= MaxConns
  /\ ServedWithinLimit' <=> sseConns' = Cardinality(Counted') /\ Cardinality(Serving') <= MaxConns
BY DEF ServedWithinLimit, Counted, Serving

LEMMA SetsAreFinite ==
  /\ IsFiniteSet(Counted) /\ Cardinality(Counted) \in Nat
  /\ IsFiniteSet(Serving) /\ Cardinality(Serving) \in Nat
<1>1. Counted \in SUBSET Handlers /\ Serving \in SUBSET Handlers
  BY DEF Counted, Serving
<1>2. IsFiniteSet(Counted) /\ IsFiniteSet(Serving)
  BY <1>1, FS_Subset
<1> QED
  BY <1>2, FS_CardinalityType

\* Nobody is counted, or served, who was not, and nobody ceases to be.
LEMMA LimitStays ==
  ASSUME ServedWithinLimit, sseConns' = sseConns,
         \A h \in Handlers : /\ conn'[h].pc \in {"free", "arrived"} <=> conn[h].pc \in {"free", "arrived"}
                             /\ conn'[h].pc \in Served <=> conn[h].pc \in Served
  PROVE  ServedWithinLimit'
<1>1. Counted' = Counted /\ Serving' = Serving
  BY DEF Counted, Serving
<1> QED
  BY <1>1, LimitCounts

LEMMA CountKeepsLimit ==
  ASSUME OrderInv, ServedWithinLimit, NEW h \in Handlers, Count(h)
  PROVE  ServedWithinLimit'
<1>1. conn \in [Handlers -> Conns]
  BY DEF OrderInv, Types
<1>2. /\ conn[h].pc = "arrived" /\ sseConns' = sseConns + 1
      /\ conn'[h].pc = IF sseConns + 1 > MaxConns THEN "refusing" ELSE "accepted"
      /\ \A g \in Handlers \ {h} : conn'[g].pc = conn[g].pc
  BY <1>1 DEF Count, At, Goto, Conns
<1>3. h \notin Counted /\ h \notin Serving /\ Counted' = Counted \cup {h}
  BY <1>2 DEF Counted, Serving, Served
<1>4. IsFiniteSet(Counted) /\ Cardinality(Counted) \in Nat /\ Cardinality(Serving) \in Nat
  BY SetsAreFinite
<1>5. Cardinality(Counted') = Cardinality(Counted) + 1 /\ IsFiniteSet(Counted')
  BY <1>3, <1>4, FS_AddElement
<1>6. sseConns = Cardinality(Counted) /\ Cardinality(Serving) <= MaxConns
  BY LimitCounts
<1>7. sseConns' = Cardinality(Counted')
  BY <1>2, <1>5, <1>6
<1>8. CASE sseConns + 1 > MaxConns
  <2>1. Serving' = Serving
    BY <1>2, <1>3, <1>8 DEF Serving, Served
  <2> QED
    BY <1>6, <1>7, <2>1, LimitCounts
<1>9. CASE ~(sseConns + 1 > MaxConns)
  <2>1. Serving' \subseteq Counted'
    BY DEF Serving, Counted, Served
  <2> DEFINE S == Serving'
             T == Counted'
  <2> HIDE DEF S, T
  <2>2. S \in SUBSET T /\ IsFiniteSet(T)
    BY <1>5, <2>1 DEF S, T
  <2>3. IsFiniteSet(S) /\ Cardinality(S) <= Cardinality(T)
    BY <2>2, FS_Subset
  <2>4. Cardinality(S) \in Nat
    BY <2>3, FS_CardinalityType
  <2>5. Cardinality(T) <= MaxConns /\ Cardinality(T) \in Nat
    BY <1>4, <1>5, <1>6, <1>9 DEF T
  <2>6. Cardinality(S) <= MaxConns
    BY <2>3, <2>4, <2>5
  <2> QED
    BY <1>7, <2>6, LimitCounts DEF S
<1> QED
  BY <1>8, <1>9

LEMMA ClosingKeepsLimit ==
  ASSUME OrderInv, ServedWithinLimit, NEW h \in Handlers, Refuse(h) \/ Leave(h)
  PROVE  ServedWithinLimit'
<1>1. conn \in [Handlers -> Conns]
  BY DEF OrderInv, Types
<1>2. /\ conn[h].pc \notin {"free", "arrived"} /\ sseConns' = sseConns - 1
      /\ conn'[h].pc = "free" /\ \A g \in Handlers \ {h} : conn'[g].pc = conn[g].pc
  BY <1>1 DEF Refuse, Leave, At, Close, FreeConn, Served
<1>3. h \in Counted /\ Counted' = Counted \ {h} /\ Serving' = Serving \ {h}
  BY <1>2 DEF Counted, Serving, Served
<1>4. /\ IsFiniteSet(Counted) /\ IsFiniteSet(Serving)
      /\ Cardinality(Counted) \in Nat /\ Cardinality(Serving) \in Nat
  BY SetsAreFinite
<1>5. sseConns = Cardinality(Counted) /\ Cardinality(Serving) <= MaxConns
  BY LimitCounts
<1>6. Cardinality(Counted') = Cardinality(Counted) - 1
  BY <1>3, <1>4, FS_RemoveElement
<1>7. Cardinality(Serving') <= Cardinality(Serving) /\ Cardinality(Serving') \in Nat
  <2>1. IsFiniteSet(Serving \ {h})
    BY <1>4, FS_RemoveElement
  <2>2. Cardinality(Serving \ {h}) \in Nat
    BY <2>1, FS_CardinalityType
  <2>3. \/ Cardinality(Serving \ {h}) = Cardinality(Serving) - 1
        \/ Cardinality(Serving \ {h}) = Cardinality(Serving)
    BY <1>4, FS_RemoveElement
  <2>4. Cardinality(Serving \ {h}) <= Cardinality(Serving)
    BY <1>4, <2>3
  <2> QED
    BY <1>3, <2>2, <2>4
<1>8. sseConns' = Cardinality(Counted') /\ Cardinality(Serving') <= MaxConns
  BY <1>2, <1>4, <1>5, <1>6, <1>7
<1> QED
  BY <1>8, LimitCounts

\* All other steps of a handler keep it among the served.
LEMMA ServingKeepsLimit ==
  ASSUME OrderInv, ServedWithinLimit, NEW h \in Handlers,
         Subscribe(h) \/ Resume(h) \/ Replay(h) \/ GoLive(h) \/ Forward(h)
  PROVE  ServedWithinLimit'
<1>1. conn \in [Handlers -> Conns]
  BY DEF OrderInv, Types
<1>2. conn[h].pc \in Served /\ conn'[h].pc \in Served /\ sseConns' = sseConns
      /\ \A g \in Handlers \ {h} : conn'[g].pc = conn[g].pc
  <2>1. conn[h] \in Conns
    BY <1>1
  <2>2. CASE Subscribe(h) \/ GoLive(h)
    BY <1>1, <2>1, <2>2 DEF Subscribe, GoLive, At, Goto, Served, Conns
  <2>3. CASE Resume(h)
    BY <1>1, <2>1, <2>3 DEF Resume, At, Served, Conns
  <2>4. CASE Replay(h)
    BY <1>1, <2>1, <2>4 DEF Replay, At, Served, Conns
  <2>5. CASE Forward(h)
    BY <1>1, <2>1, <2>5 DEF Forward, At, Served, Conns
  <2> QED
    BY <2>2, <2>3, <2>4, <2>5
<1>3. \A g \in Handlers :
        /\ conn'[g].pc \in {"free", "arrived"} <=> conn[g].pc \in {"free", "arrived"}
        /\ conn'[g].pc \in Served <=> conn[g].pc \in Served
  BY <1>2 DEF Served
<1> QED
  BY <1>2, <1>3, LimitStays

LEMMA BroadcastKeepsLimit ==
  ASSUME OrderInv, ServedWithinLimit, Broadcast
  PROVE  ServedWithinLimit'
<1>1. conn \in [Handlers -> Conns]
  BY DEF OrderInv, Types
<1>2. ASSUME NEW h \in Handlers PROVE conn'[h].pc = conn[h].pc
  <2>1. conn[h] \in Conns
    BY <1>1
  <2>2. conn'[h] = [conn[h] EXCEPT !.chan = Offer(conn[h].chan)] \/ conn'[h] = conn[h]
    BY DEF Broadcast
  <2> QED
    BY <2>1, <2>2 DEF Conns
<1>3. sseConns' = sseConns
  BY DEF Broadcast
<1> QED
  BY <1>2, <1>3, LimitStays

LEMMA DialKeepsLimit ==
  ASSUME OrderInv, ServedWithinLimit, NEW c \in Clients, Dial(c)
  PROVE  ServedWithinLimit'
<1>1. conn \in [Handlers -> Conns]
  BY DEF OrderInv, Types
<1>2. FreeHandler \in Handlers /\ conn[FreeHandler].pc = "free"
  BY DEF Dial, FreeHandler, At
<1>3. /\ conn'[FreeHandler].pc = "arrived" /\ sseConns' = sseConns
      /\ \A g \in Handlers \ {FreeHandler} : conn'[g].pc = conn[g].pc
  BY <1>1, <1>2 DEF Dial, FreeConn
<1>4. \A g \in Handlers :
        /\ conn'[g].pc \in {"free", "arrived"} <=> conn[g].pc \in {"free", "arrived"}
        /\ conn'[g].pc \in Served <=> conn[g].pc \in Served
  BY <1>2, <1>3 DEF Served
<1> QED
  BY <1>3, <1>4, LimitStays

\* After the start of a server nobody is counted.
LEMMA EmptyLimit ==
  ASSUME sseConns' = 0, \A h \in Handlers : conn'[h].pc = "free"
  PROVE  ServedWithinLimit'
<1>1. Counted' = {} /\ Serving' = {}
  BY DEF Counted, Serving, Served
<1>2. sseConns' = Cardinality(Counted') /\ Cardinality(Serving') <= MaxConns
  BY <1>1, FS_EmptySet
<1> QED
  BY <1>2, LimitCounts

LEMMA LimitAtFirst == Init => ServedWithinLimit
<1> SUFFICES ASSUME Init PROVE ServedWithinLimit
  OBVIOUS
<1>1. sseConns = 0 /\ \A h \in Handlers : conn[h].pc = "free"
  BY DEF Init, FreeConn
<1>2. Counted = {} /\ Serving = {}
  BY <1>1 DEF Counted, Serving, Served
<1>3. sseConns = Cardinality(Counted) /\ Cardinality(Serving) <= MaxConns
  BY <1>1, <1>2, FS_EmptySet
<1> QED
  BY <1>3, LimitCounts

LEMMA LimitIsKept == OrderInv /\ ServedWithinLimit /\ [Next]_vars => ServedWithinLimit'
<1> SUFFICES ASSUME OrderInv, ServedWithinLimit, [Next]_vars PROVE ServedWithinLimit'
  OBVIOUS
<1>1. CASE Broadcast
  BY <1>1, BroadcastKeepsLimit
<1>2. CASE UNCHANGED <<conn, sseConns>>
  BY <1>2, LimitStays
<1>3. CASE Recorder
  BY <1>2, <1>3 DEF Recorder, RecorderSubscribes, Record
<1>4. CASE Restart
  BY <1>4, EmptyLimit DEF Restart, FreeConn
<1>5. ASSUME NEW h \in Handlers, Serve(h) PROVE ServedWithinLimit'
  BY <1>5, CountKeepsLimit, ClosingKeepsLimit, ServingKeepsLimit DEF Serve
<1>6. ASSUME NEW c \in Clients, EventLoop(c) \/ DialFails(c) \/ Cut(c) PROVE ServedWithinLimit'
  <2>1. CASE Dial(c)
    BY <2>1, DialKeepsLimit
  <2>2. CASE Receive(c) \/ Skip(c)
    BY <1>2, <2>2 DEF Receive, Skip, serverVars
  <2>3. CASE Disconnect(c) \/ EmitLost(c) \/ EmitRestored(c) \/ DialFails(c) \/ Cut(c)
    BY <1>2, <2>3 DEF Disconnect, EmitLost, EmitRestored, DialFails, Cut, serverVars
  <2> QED
    BY <1>6, <2>1, <2>2, <2>3 DEF EventLoop
<1>7. CASE UNCHANGED vars
  BY <1>2, <1>7 DEF vars
<1> QED
  BY <1>1, <1>3, <1>4, <1>5, <1>6, <1>7 DEF Next

\* The counter of sse.go is the number of requests between the increment and
\* the decrement, refused ones included, and no more than maxSSEConns of them
\* are served at once, whatever handlers come, break off and are refused.
THEOREM ConnectionsWithinLimit == Spec => []ServedWithinLimit
<1> QED
  BY OrderAtFirst, OrderIsKept, LimitAtFirst, LimitIsKept, PTL DEF Spec

----------------------------------------------------------------------------
(* Where every event is.                                                   *)

\* The events a client is known to have missed.
Excused(c) == UNION {missed[c][k] : k \in Causes}

\* An event of this server is in the ring or on its way there, unless it is gone.
ArchiveInv == \A n \in 1..seq : n \in gone \cup ToSet(recorder) \cup ToSet(ring)

\* Only what was broadcast can be gone or missed.
MissedInv == gone \subseteq 1..seq /\ missed \in [Clients -> [Causes -> SUBSET (1..seq)]]

\* A client that has got an event has got, or is excused for, all before it, and
\* so for all up to the number it names when it comes back.
SeenOK(f, q, e, b) ==
  /\ \A x \in Got(f, q) : 1 <= x /\ \A n \in 1..x : n \in Got(f, q) \cup e
  /\ \A n \in 1..(q.from + q.lastSeq) : n \in ToSet(f) \cup e
  /\ 0 <= q.lastSeq /\ q.from <= b
  /\ \A p \in ToSet(q.wire) : p.id - p.seq <= b

\* A handler's stream has begun when it need not be replayed, or has been looked
\* up: from then on nothing that was broadcast may be forgotten.
Begun(r) == \/ r.pc \in {"replaying", "live"}
            \/ r.pc = "subscribed" /\ r.lastEventID = 0

\* Of the events its client is accountable for, the ones it has not got and is
\* not excused for (g are the others) are with the handler; the replay leaves
\* none out, and what the guard will drop is not among them.
PathOK(r, g, b, k) ==
  /\ \A x \in ToSet(r.todo) : \A n \in 1..x : n \in g \cup ToSet(r.todo)
  /\ Begun(r) => /\ \A n \in 1..k : n \in g \cup ToSet(r.todo) \cup ToSet(r.chan)
                 /\ \A n \in 1..(b + r.lastSent) : n \in g

Known(c) == Got(feed[c], client[c]) \cup Excused(c)
SeenInv == \A c \in Clients : SeenOK(feed[c], client[c], Excused(c), base)
PathsInv == \A h \in Handlers : Attached(h) =>
              PathOK(conn[h], Known(conn[h].client), base, seq)

HolesInv == ArchiveInv /\ MissedInv /\ SeenInv /\ PathsInv

LEMMA MoreIsExcused ==
  ASSUME NEW f, NEW q, NEW e, NEW b \in Int, SeenOK(f, q, e, b),
         NEW e2, e \subseteq e2, NEW b2 \in Int, b <= b2,
         q.from \in Int, q.wire \in Seq(Packets)
  PROVE  SeenOK(f, q, e2, b2)
<1>1. \A p \in ToSet(q.wire) : p.id \in Nat /\ p.seq \in Int
  BY ElementsAreTyped DEF Packets
<1>2. \A p \in ToSet(q.wire) : p.id - p.seq <= b2
  BY <1>1 DEF SeenOK
<1> QED
  BY <1>2 DEF SeenOK

LEMMA MoreIsKnown ==
  ASSUME NEW r, NEW g, NEW b, NEW k, PathOK(r, g, b, k), NEW g2, g \subseteq g2
  PROVE  PathOK(r, g2, b, k)
BY DEF PathOK

LEMMA ExcusesGrow ==
  ASSUME \A d \in Clients, k \in Causes : missed[d][k] \subseteq missed'[d][k]
  PROVE  \A d \in Clients : Excused(d) \subseteq Excused(d)'
BY DEF Excused

\* What the invariants say of one client, and of one handler with its client.
LEMMA ClientHoles ==
  ASSUME OrderInv, HolesInv, NEW c \in Clients
  PROVE  /\ client[c] \in ClientStates /\ feed[c] \in Seq(Nat)
         /\ client \in [Clients -> ClientStates] /\ feed \in [Clients -> Seq(Nat)]
         /\ base \in Nat /\ seq \in Nat /\ base <= seq
         /\ ClientOK(feed[c], client[c], base, seq)
         /\ SeenOK(feed[c], client[c], Excused(c), base)
BY DEF OrderInv, Types, ClientsInv, HolesInv, SeenInv

LEMMA HandlerHoles ==
  ASSUME OrderInv, HolesInv, NEW h \in Handlers, NEW c \in Clients, c = conn[h].client
  PROVE  /\ conn[h] \in Conns
         /\ client[c] \in ClientStates /\ feed[c] \in Seq(Nat)
         /\ conn \in [Handlers -> Conns] /\ client \in [Clients -> ClientStates]
         /\ base \in Nat /\ seq \in Nat /\ base <= seq
         /\ HandlerOK(conn[h], base, seq)
         /\ ClientOK(feed[c], client[c], base, seq)
         /\ SeenOK(feed[c], client[c], Excused(c), base)
         /\ client[c].h = h => /\ LinkOK(conn[h], feed[c], client[c], base)
                               /\ PathOK(conn[h], Known(c), base, seq)
<1>1. PathsInv
  BY DEF HolesInv
<1>2. client[c].h = h => PathOK(conn[h], Known(c), base, seq)
  BY <1>1 DEF PathsInv, Attached
<1> QED
  BY <1>2, HandlerFacts, ClientHoles

\* Handler h goes on to r and, if it is connected, its client to q.
LEMMA HandlerStepHoles ==
  ASSUME OrderInv, HolesInv, NEW h \in Handlers, NEW c \in Clients, c = conn[h].client,
         NEW r \in Conns, r.client = c, NEW q \in ClientStates,
         conn' = [conn EXCEPT ![h] = r],
         client' = IF client[c].h = h THEN [client EXCEPT ![c] = q] ELSE client,
         UNCHANGED <<feed, base, seq, ring, recorder, gone>>,
         MissedInv', \A d \in Clients : Excused(d) \subseteq Excused(d)',
         client[c].h = h => /\ SeenOK(feed[c], q, Excused(c)', base)
                            /\ \/ /\ q.h = h
                                  /\ PathOK(r, Got(feed[c], q) \cup Excused(c)', base, seq)
                               \/ q.h = NoHandler
  PROVE  HolesInv'
<1>1. /\ ArchiveInv /\ PathsInv
      /\ conn \in [Handlers -> Conns] /\ client \in [Clients -> ClientStates] /\ base \in Nat
  BY DEF HolesInv, OrderInv, Types
<1>2. /\ conn'[h] = r /\ \A g \in Handlers \ {h} : conn'[g] = conn[g]
  BY <1>1
<1>3. /\ \A d \in Clients \ {c} : client'[d] = client[d]
      /\ client[c].h = h => client'[c] = q
      /\ client[c].h /= h => client'[c] = client[c]
  BY <1>1
<1>4. \A d \in Clients : SeenOK(feed[d], client[d], Excused(d)', base)
  <2> TAKE d \in Clients
  <2>1. client[d] \in ClientStates /\ SeenOK(feed[d], client[d], Excused(d), base)
    BY ClientHoles
  <2>2. client[d].from \in Int /\ client[d].wire \in Seq(Packets)
    BY <2>1 DEF ClientStates
  <2>3. base \in Int /\ base <= base /\ Excused(d) \subseteq Excused(d)'
    BY <1>1
  <2> QED
    BY <2>1, <2>2, <2>3, MoreIsExcused
<1>5. SeenInv'
  <2> SUFFICES ASSUME NEW d \in Clients PROVE SeenOK(feed[d], client'[d], Excused(d)', base)
    BY DEF SeenInv
  <2> QED
    BY <1>3, <1>4
<1>6. PathsInv'
  <2> SUFFICES ASSUME NEW g \in Handlers, client'[conn'[g].client].h = g
               PROVE  PathOK(conn'[g], Known(conn[g].client)', base, seq)
    BY DEF PathsInv, Attached
  <2>1. CASE g = h
    <3>1. conn'[g] = r /\ conn'[g].client = c
      BY <1>2, <2>1
    <3>2. client[c].h = h /\ client'[c] = q /\ q.h = h
      BY <1>3, <2>1, <3>1
    <3>3. Known(conn[g].client)' = Got(feed[c], q) \cup Excused(c)'
      BY <3>1, <3>2 DEF Known, Excused
    <3>4. PathOK(r, Got(feed[c], q) \cup Excused(c)', base, seq)
      BY <3>2, HandlersAssumption
    <3> QED
      BY <3>1, <3>3, <3>4
  <2>2. CASE g /= h
    <3>1. PICK d \in Clients : d = conn[g].client
      BY <1>1 DEF Conns
    <3>2. conn'[g] = conn[g]
      BY <1>2, <2>2
    <3>3. client'[d] = client[d]
      <4>1. CASE d = c
        <5>1. client'[c].h = g
          BY <3>1, <3>2, <4>1
        <5>2. client[c].h /= h
          BY <1>3, <2>2, <5>1
        <5> QED
          BY <1>3, <4>1, <5>2
      <4> QED
        BY <1>3, <4>1
    <3>4. PathOK(conn[g], Known(d), base, seq)
      BY <1>1, <3>1, <3>2, <3>3 DEF PathsInv, Attached
    <3>5. Known(d) \subseteq Known(d)'
      BY <3>3 DEF Known
    <3>6. PathOK(conn[g], Known(d)', base, seq)
      BY <3>4, <3>5, MoreIsKnown
    <3>7. Known(conn[g].client)' = Known(d)'
      BY <3>1, <3>2 DEF Known, Excused
    <3> QED
      BY <3>2, <3>6, <3>7
  <2> QED
    BY <2>1, <2>2
<1>7. ArchiveInv'
  BY <1>1 DEF ArchiveInv
<1> QED
  BY <1>5, <1>6, <1>7 DEF HolesInv

\* Client c goes on to q and has been given f; it keeps its handler or none.
LEMMA ClientStepHoles ==
  ASSUME OrderInv, HolesInv, NEW c \in Clients, NEW q \in ClientStates, NEW f \in Seq(Nat),
         client' = [client EXCEPT ![c] = q], feed' = [feed EXCEPT ![c] = f],
         UNCHANGED <<conn, base, seq, ring, recorder, gone>>,
         MissedInv', \A d \in Clients : Excused(d) \subseteq Excused(d)',
         SeenOK(f, q, Excused(c)', base),
         \/ q.h = NoHandler
         \/ q.h = client[c].h /\ Known(c) \subseteq Got(f, q) \cup Excused(c)'
  PROVE  HolesInv'
<1>1. /\ ArchiveInv /\ PathsInv /\ conn \in [Handlers -> Conns]
      /\ client \in [Clients -> ClientStates] /\ feed \in [Clients -> Seq(Nat)] /\ base \in Nat
  BY DEF HolesInv, OrderInv, Types
<1>2. /\ client'[c] = q /\ feed'[c] = f
      /\ \A d \in Clients \ {c} : client'[d] = client[d] /\ feed'[d] = feed[d]
  BY <1>1
<1>3. \A d \in Clients : SeenOK(feed[d], client[d], Excused(d)', base)
  <2> TAKE d \in Clients
  <2>1. client[d] \in ClientStates /\ SeenOK(feed[d], client[d], Excused(d), base)
    BY ClientHoles
  <2>2. client[d].from \in Int /\ client[d].wire \in Seq(Packets)
    BY <2>1 DEF ClientStates
  <2>3. base \in Int /\ base <= base /\ Excused(d) \subseteq Excused(d)'
    BY <1>1
  <2> QED
    BY <2>1, <2>2, <2>3, MoreIsExcused
<1>4. SeenInv'
  <2> SUFFICES ASSUME NEW d \in Clients PROVE SeenOK(feed'[d], client'[d], Excused(d)', base)
    BY DEF SeenInv
  <2> QED
    BY <1>2, <1>3
<1>5. PathsInv'
  <2> SUFFICES ASSUME NEW g \in Handlers, client'[conn[g].client].h = g
               PROVE  PathOK(conn[g], Known(conn[g].client)', base, seq)
    BY DEF PathsInv, Attached
  <2>1. PICK d \in Clients : d = conn[g].client
    BY <1>1 DEF Conns
  <2>2. client[d].h = g /\ Known(d) \subseteq Known(d)'
    <3>1. CASE d = c
      <4>1. q.h = g
        BY <1>2, <2>1, <3>1
      <4>2. q.h = client[c].h /\ Known(c) \subseteq Got(f, q) \cup Excused(c)'
        BY <4>1, HandlersAssumption
      <4>3. Known(c)' = Got(f, q) \cup Excused(c)'
        BY <1>2 DEF Known
      <4> QED
        BY <3>1, <4>1, <4>2, <4>3
    <3>2. CASE d /= c
      BY <1>2, <2>1, <3>2 DEF Known
    <3> QED
      BY <3>1, <3>2
  <2>3. PathOK(conn[g], Known(d), base, seq)
    BY <1>1, <2>1, <2>2 DEF PathsInv, Attached
  <2>4. PathOK(conn[g], Known(d)', base, seq)
    BY <2>2, <2>3, MoreIsKnown
  <2>5. Known(conn[g].client)' = Known(d)'
    BY <2>1 DEF Known, Excused
  <2> QED
    BY <2>4, <2>5
<1>6. ArchiveInv'
  BY <1>1 DEF ArchiveInv
<1> QED
  BY <1>4, <1>5, <1>6 DEF HolesInv

\* A handler that refuses or leaves, or one that only goes on.
LEMMA QuietKeepsHoles ==
  ASSUME OrderInv, HolesInv, NEW h \in Handlers, NEW c \in Clients, c = conn[h].client,
         Count(h) \/ GoLive(h) \/ Refuse(h) \/ Leave(h)
  PROVE  HolesInv'
<1>1. /\ conn[h] \in Conns
      /\ client[c] \in ClientStates /\ client \in [Clients -> ClientStates]
      /\ HandlerOK(conn[h], base, seq)
      /\ SeenOK(feed[c], client[c], Excused(c), base)
      /\ client[c].h = h => /\ LinkOK(conn[h], feed[c], client[c], base)
                            /\ PathOK(conn[h], Known(c), base, seq)
  BY HandlerHoles
<1>2. UNCHANGED <<feed, base, seq, ring, recorder, gone, missed>>
  BY DEF Count, GoLive, Refuse, Leave, clientVars
<1>3. MissedInv' /\ \A d \in Clients : Excused(d)' = Excused(d)
  BY <1>2 DEF HolesInv, MissedInv, Excused
<1>4. CASE Count(h) \/ GoLive(h)
  <2> DEFINE q == client[c]
  <2>1. PICK x \in {"refusing", "accepted", "live"} :
          /\ conn' = [conn EXCEPT ![h].pc = x] /\ UNCHANGED client
          /\ x = "live" => conn[h].pc = "replaying"
          /\ x /= "live" => conn[h].pc = "arrived"
    BY <1>4 DEF Count, GoLive, Goto, At, clientVars
  <2> DEFINE r == [conn[h] EXCEPT !.pc = x]
  <2>2. conn' = [conn EXCEPT ![h] = r]
    BY <2>1
  <2>3. /\ r \in Conns /\ r.client = c /\ r.pc = x /\ r.lastEventID = conn[h].lastEventID
        /\ r.chan = conn[h].chan /\ r.todo = conn[h].todo /\ r.lastSent = conn[h].lastSent
    BY <1>1 DEF Conns, HandlerPC
  <2> HIDE DEF r
  <2>4. client' = IF client[c].h = h THEN [client EXCEPT ![c] = q] ELSE client
    BY <1>1, <2>1
  <2>5. Begun(r) => Begun(conn[h])
    BY <2>1, <2>3 DEF Begun
  <2>6. client[c].h = h => PathOK(r, Known(c), base, seq)
    BY <1>1, <2>3, <2>5 DEF PathOK
  <2>7. client[c].h = h => /\ q.h = h /\ SeenOK(feed[c], q, Excused(c)', base)
                           /\ PathOK(r, Got(feed[c], q) \cup Excused(c)', base, seq)
    BY <1>1, <1>3, <2>6 DEF Known
  <2>8. q \in ClientStates
    BY <1>1
  <2> HIDE DEF q
  <2> QED
    BY <1>1, <1>2, <1>3, <2>2, <2>3, <2>4, <2>7, <2>8, HandlerStepHoles
<1>5. CASE Refuse(h) \/ Leave(h)
  <2> DEFINE r == FreeConn(c)
             q == [client[c] EXCEPT !.h = NoHandler]
  <2>1. conn' = [conn EXCEPT ![h] = r]
    BY <1>5 DEF Refuse, Leave, Close
  <2>2. client' = IF client[c].h = h THEN [client EXCEPT ![c] = q] ELSE client
    BY <1>1, <1>5 DEF Refuse, Leave, HangUp, Attached
  <2>3. r \in Conns /\ r.client = c
    BY <1>1 DEF FreeConn, Conns, HandlerPC
  <2>4. /\ q \in ClientStates /\ q.h = NoHandler /\ q.from = client[c].from
        /\ q.wire = client[c].wire /\ q.lastSeq = client[c].lastSeq
    BY <1>1 DEF ClientStates
  <2> HIDE DEF r, q
  <2>5. SeenOK(feed[c], q, Excused(c)', base)
    BY <1>1, <1>3, <2>4 DEF SeenOK, Got
  <2> QED
    BY <1>1, <1>2, <1>3, <2>1, <2>2, <2>3, <2>4, <2>5, HandlerStepHoles
<1> QED
  BY <1>4, <1>5

\* Without a Last-Event-ID all that came before is excused: the stream has begun.
LEMMA SubscribeKeepsHoles ==
  ASSUME OrderInv, HolesInv, NEW h \in Handlers, NEW c \in Clients, c = conn[h].client,
         Subscribe(h)
  PROVE  HolesInv'
<1> DEFINE r == [conn[h] EXCEPT !.pc = "subscribed"]
           q == [client[c] EXCEPT !.pc = "reading", !.connected = TRUE]
<1>1. /\ conn[h] \in Conns
      /\ client[c] \in ClientStates /\ client \in [Clients -> ClientStates]
      /\ base \in Nat /\ seq \in Nat /\ base <= seq
      /\ HandlerOK(conn[h], base, seq)
      /\ SeenOK(feed[c], client[c], Excused(c), base)
      /\ client[c].h = h => /\ LinkOK(conn[h], feed[c], client[c], base)
                            /\ PathOK(conn[h], Known(c), base, seq)
  BY HandlerHoles
<1>2. conn[h].pc = "accepted" /\ UNCHANGED <<feed, base, seq, ring, recorder, gone>>
  BY DEF Subscribe, At
<1>3. conn' = [conn EXCEPT ![h] = r]
  BY DEF Subscribe, Goto
<1>4. client[c].h = h => client[c].pc = "waiting"
  BY <1>1, <1>2 DEF LinkOK
<1>5. client' = IF client[c].h = h THEN [client EXCEPT ![c] = q] ELSE client
  BY <1>1, <1>4 DEF Subscribe, Attached
<1>6. /\ r \in Conns /\ r.client = c /\ r.pc = "subscribed"
      /\ r.lastEventID = conn[h].lastEventID
      /\ r.chan = conn[h].chan /\ r.todo = conn[h].todo /\ r.lastSent = conn[h].lastSent
  BY <1>1 DEF Conns, HandlerPC
<1>7. /\ q \in ClientStates /\ q.h = client[c].h /\ q.from = client[c].from
      /\ q.wire = client[c].wire /\ q.lastSeq = client[c].lastSeq
  BY <1>1 DEF ClientStates
<1> HIDE DEF r, q
<1>8. missed \in [Clients -> [Causes -> SUBSET (1..seq)]] /\ "early" \in Causes
  BY DEF HolesInv, MissedInv, Causes
<1>9. /\ missed' \in [Clients -> [Causes -> SUBSET (1..seq)]]
      /\ \A d \in Clients, k \in Causes : missed[d][k] \subseteq missed'[d][k]
      /\ conn[h].lastEventID = 0 => 1..seq \subseteq missed'[c]["early"]
  <2>1. missed' = IF conn[h].lastEventID = 0
                  THEN [missed EXCEPT ![c]["early"] = missed[c]["early"] \cup 1..seq] ELSE missed
    BY DEF Subscribe
  <2>2. CASE conn[h].lastEventID = 0
    BY <1>1, <1>8, <2>1, <2>2
  <2>3. CASE conn[h].lastEventID /= 0
    BY <1>8, <2>1, <2>3
  <2> QED
    BY <2>2, <2>3
<1>10. MissedInv'
  BY <1>2, <1>9 DEF HolesInv, MissedInv
<1>11. \A d \in Clients : Excused(d) \subseteq Excused(d)'
  BY <1>9, ExcusesGrow
<1>12. conn[h].lastEventID = 0 => 1..seq \subseteq Excused(c)'
  BY <1>8, <1>9 DEF Excused
<1>13. SeenOK(feed[c], q, Excused(c)', base)
  <2>1. SeenOK(feed[c], q, Excused(c), base)
    BY <1>1, <1>7 DEF SeenOK, Got
  <2>2. base \in Int /\ base <= base /\ q.from \in Int /\ q.wire \in Seq(Packets)
    BY <1>1, <1>7 DEF ClientStates
  <2> QED
    BY <1>11, <2>1, <2>2, MoreIsExcused
<1>14. PathOK(r, Got(feed[c], q) \cup Excused(c)', base, seq)
  <2>1. r.todo = <<>> /\ r.lastSent = 0
    BY <1>1, <1>2, <1>6 DEF HandlerOK
  <2>2. Begun(r) => 1..seq \subseteq Excused(c)'
    BY <1>6, <1>12 DEF Begun
  <2>3. 1..(base + r.lastSent) \subseteq 1..seq
    BY <1>1, <2>1
  <2> QED
    BY <2>1, <2>2, <2>3, ElementsOfEmpty DEF PathOK
<1> QED
  BY <1>1, <1>2, <1>3, <1>5, <1>6, <1>7, <1>10, <1>11, <1>13, <1>14, HandlerStepHoles

\* since() leaves out nothing that is newer and in the ring.
LEMMA SinceIsAll ==
  ASSUME OrderInv, NEW id \in Int, NEW x \in ToSet(ring), x - base > id
  PROVE  x \in ToSet(Since(id))
<1>1. ring \in Seq(Nat) /\ base \in Nat
  BY DEF OrderInv, Types
<1>2. PICK i \in DOMAIN ring : ring[i] = x
  BY DEF ToSet
<1>3. i \in Newer(id)
  BY <1>2 DEF Newer
<1> DEFINE k == Min(Newer(id))
<1>4. Newer(id) \subseteq DOMAIN ring /\ DOMAIN ring \subseteq Nat
  BY <1>1 DEF Newer
<1>5. k \in DOMAIN ring /\ k <= i
  BY <1>3, <1>4, LeastElement
<1>6. Since(id) = SubSeq(ring, k, Len(ring))
  BY <1>3 DEF Since, RestFrom
<1> HIDE DEF k
<1>7. k \in Nat /\ i \in Nat /\ 1 <= k /\ i <= Len(ring) /\ Len(ring) \in Nat
  BY <1>1, <1>2, <1>5
<1> DEFINE t == SubSeq(ring, k, Len(ring))
<1>8. DOMAIN t = 1..(Len(ring) - k + 1) /\ \A j \in DOMAIN t : t[j] = ring[k + j - 1]
  BY <1>1, <1>7
<1> HIDE DEF t
<1>9. i - k + 1 \in DOMAIN t /\ k + (i - k + 1) - 1 = i
  BY <1>5, <1>7, <1>8
<1>10. t[i - k + 1] = x
  BY <1>2, <1>8, <1>9
<1> QED
  BY <1>6, <1>9, <1>10 DEF ToSet, t

\* What is not in the answer of since() and not on its way through the
\* subscription is excused: it is gone, late, or numbered like something older.
LEMMA ResumeKeepsHoles ==
  ASSUME OrderInv, HolesInv, NEW h \in Handlers, NEW c \in Clients, c = conn[h].client,
         Resume(h)
  PROVE  HolesInv'
<1> DEFINE id == conn[h].lastEventID
           t == IF id > 0 THEN Since(id) ELSE <<>>
           r == [conn[h] EXCEPT !.pc = "replaying", !.todo = t]
           q == client[c]
           late == ToSet(recorder) \ ToSet(conn[h].chan)
           low == {n \in ToSet(ring) : n - base <= id}
<1>1. /\ conn[h] \in Conns
      /\ q \in ClientStates /\ client \in [Clients -> ClientStates]
      /\ base \in Nat /\ seq \in Nat /\ base <= seq
      /\ HandlerOK(conn[h], base, seq)
      /\ SeenOK(feed[c], q, Excused(c), base)
      /\ q.h = h => /\ LinkOK(conn[h], feed[c], q, base)
                    /\ PathOK(conn[h], Known(c), base, seq)
  BY HandlerHoles
<1>2. /\ conn[h].pc = "subscribed" /\ conn' = [conn EXCEPT ![h] = r]
      /\ UNCHANGED <<client, feed, base, seq, ring, recorder, gone>>
  BY DEF Resume, At, clientVars
<1>3. /\ ring \in Seq(Nat) /\ Current(ring, base, seq) /\ Current(recorder, base, seq)
      /\ Below(ToSet(ring), ToSet(recorder)) /\ ArchiveInv
      /\ gone \subseteq 1..seq /\ missed \in [Clients -> [Causes -> SUBSET (1..seq)]]
  BY DEF OrderInv, Types, RingInv, HolesInv, MissedInv
<1>4. id \in Int /\ conn[h].lastSent = 0
  BY <1>1, <1>2 DEF Conns, HandlerOK
<1>5. t \in Seq(Nat) /\ ToSet(t) \subseteq ToSet(ring)
  BY <1>4, SinceIsNewer, ElementsOfEmpty
<1>6. id > 0 => \A n \in ToSet(ring) : n \in ToSet(t) \/ n \in low
  <2> HIDE DEF id
  <2> SUFFICES ASSUME id > 0, NEW n \in ToSet(ring), ~(n \in low) PROVE n \in ToSet(t)
    OBVIOUS
  <2>1. n \in Nat
    BY <1>3, ElementsAreTyped
  <2>2. n - base > id
    BY <1>1, <1>4, <2>1
  <2> QED
    BY <1>4, <2>2, SinceIsAll
<1> HIDE DEF t
<1>7. /\ r \in Conns /\ r.client = c /\ r.pc = "replaying" /\ r.lastEventID = id
      /\ r.chan = conn[h].chan /\ r.todo = t /\ r.lastSent = conn[h].lastSent
  BY <1>1, <1>5 DEF Conns, HandlerPC
<1> HIDE DEF r
<1>8. late \subseteq 1..seq /\ low \subseteq 1..seq
  BY <1>1, <1>3 DEF Current
<1>9. /\ missed' \in [Clients -> [Causes -> SUBSET (1..seq)]]
      /\ \A d \in Clients, k \in Causes : missed[d][k] \subseteq missed'[d][k]
      /\ id /= 0 => /\ gone \subseteq missed'[c]["gone"] /\ late \subseteq missed'[c]["lag"]
                    /\ q.from < base => low \subseteq missed'[c]["stale"]
  <2>1. CASE id = 0
    <3>1. missed' = missed
      BY <2>1 DEF Resume
    <3> QED
      BY <1>3, <2>1, <3>1
  <2>2. CASE id /= 0
    <3> DEFINE was == missed[c]
               m == [was EXCEPT !["gone"] = was["gone"] \cup gone,
                                !["lag"] = was["lag"] \cup late,
                                !["stale"] = IF q.from < base THEN was["stale"] \cup low
                                                              ELSE was["stale"]]
    <3>1. missed' = [missed EXCEPT ![c] = m]
      BY <1>3, <2>2 DEF Resume
    <3>2. was \in [Causes -> SUBSET (1..seq)]
      BY <1>3
    <3> HIDE DEF was, late, low
    <3>3. /\ m \in [Causes -> SUBSET (1..seq)] /\ \A k \in Causes : was[k] \subseteq m[k]
          /\ gone \subseteq m["gone"] /\ late \subseteq m["lag"]
          /\ q.from < base => low \subseteq m["stale"]
      BY <1>3, <1>8, <3>2 DEF Causes
    <3> HIDE DEF m
    <3>4. missed'[c] = m /\ \A d \in Clients \ {c} : missed'[d] = missed[d]
      BY <1>3, <3>1
    <3>5. missed' \in [Clients -> [Causes -> SUBSET (1..seq)]]
      BY <1>3, <3>1, <3>3
    <3>6. \A d \in Clients, k \in Causes : missed[d][k] \subseteq missed'[d][k]
      BY <3>3, <3>4 DEF was
    <3> QED
      BY <3>3, <3>4, <3>5, <3>6
  <2> QED
    BY <2>1, <2>2
<1>10. MissedInv'
  BY <1>2, <1>3, <1>9 DEF MissedInv
<1>11. \A d \in Clients : Excused(d) \subseteq Excused(d)'
  BY <1>9, ExcusesGrow
<1>12. id /= 0 => /\ gone \subseteq Excused(c)' /\ late \subseteq Excused(c)'
                  /\ q.from < base => low \subseteq Excused(c)'
  BY <1>9 DEF Excused, Causes
<1>13. SeenOK(feed[c], q, Excused(c)', base)
  <2>1. base \in Int /\ base <= base /\ q.from \in Int /\ q.wire \in Seq(Packets)
    BY <1>1 DEF ClientStates
  <2> QED
    BY <1>1, <1>11, <2>1, MoreIsExcused
<1>14. ASSUME q.h = h PROVE PathOK(r, Got(feed[c], q) \cup Excused(c)', base, seq)
  <2> DEFINE g == Got(feed[c], q) \cup Excused(c)'
  <2>1. LinkOK(conn[h], feed[c], q, base) /\ PathOK(conn[h], Known(c), base, seq)
    BY <1>1, <1>14
  <2>2. Known(c) \subseteq g /\ ToSet(feed[c]) \cup Excused(c) \subseteq g
    BY <1>11 DEF Known, Got
  <2>3. q.lastSeq = id /\ 0 <= id /\ q.from \in Int
    BY <1>1, <1>2, <2>1 DEF LinkOK, SeenOK, ClientStates
  <2>4. CASE id = 0
    <3>1. t = <<>> /\ Begun(conn[h])
      BY <1>2, <2>4 DEF t, Begun
    <3>2. conn[h].todo = <<>>
      BY <1>1, <1>2 DEF HandlerOK
    <3>3. PathOK(conn[h], g, base, seq)
      BY <2>1, <2>2, MoreIsKnown
    <3> QED
      BY <1>7, <3>1, <3>2, <3>3 DEF PathOK
  <2>5. CASE id > 0
    <3> HIDE DEF g, id
    <3>1. \A n \in low : n \in Nat /\ n - base <= id /\ 1 <= n
      BY <1>1, <1>3 DEF Current
    <3>2. ASSUME NEW n \in low PROVE n \in g
      <4>1. CASE q.from < base
        BY <1>12, <2>5, <3>2, <4>1 DEF g
      <4>2. CASE ~(q.from < base)
        <5>1. n \in 1..(q.from + q.lastSeq)
          BY <1>1, <1>4, <2>3, <3>1, <3>2, <4>2
        <5>2. n \in ToSet(feed[c]) \cup Excused(c)
          BY <1>1, <5>1 DEF SeenOK
        <5> QED
          BY <2>2, <5>2
      <4> QED
        BY <4>1, <4>2
    <3>3. gone \subseteq g /\ late \subseteq g
      BY <1>12, <2>5 DEF g
    <3>4. \A n \in 1..seq : n \in g \cup ToSet(t) \cup ToSet(recorder)
      BY <1>3, <1>6, <2>5, <3>2, <3>3 DEF ArchiveInv
    <3>5. \A n \in 1..seq : n \in g \cup ToSet(t) \cup ToSet(conn[h].chan)
      BY <3>3, <3>4
    <3>6. ASSUME NEW x \in ToSet(t), NEW n \in 1..x PROVE n \in g \cup ToSet(t)
      <4>1. x \in Nat /\ x <= seq /\ \A y \in ToSet(recorder) : x < y
        BY <1>1, <1>3, <1>5, <3>6 DEF Current, Below
      <4>2. n \in 1..seq /\ ~(x < n)
        BY <1>1, <4>1
      <4> QED
        BY <3>4, <4>1, <4>2
    <3>7. ASSUME NEW n \in 1..(base + r.lastSent) PROVE n \in g
      <4>1. n \in 1..base /\ n \in 1..seq
        BY <1>1, <1>4, <1>7
      <4>2. n \notin ToSet(ring) /\ n \notin ToSet(recorder)
        BY <1>1, <1>3, <4>1 DEF Current
      <4> QED
        BY <1>3, <3>3, <4>1, <4>2 DEF ArchiveInv
    <3>8. PathOK(r, g, base, seq)
      BY <1>7, <3>5, <3>6, <3>7 DEF PathOK
    <3> QED
      BY <3>8 DEF g
  <2> QED
    BY <1>4, <2>3, <2>4, <2>5
<1>15. client' = IF client[c].h = h THEN [client EXCEPT ![c] = q] ELSE client
  BY <1>1, <1>2
<1>16. client[c].h = h => q.h = h
  OBVIOUS
<1> HIDE DEF q
<1> QED
  BY <1>1, <1>2, <1>7, <1>10, <1>11, <1>13, <1>14, <1>15, <1>16, HandlerStepHoles

LEMMA HeadOrTail ==
  ASSUME NEW S, NEW s \in Seq(S), s /= <<>>
  PROVE  ToSet(s) \subseteq {Head(s)} \cup ToSet(Tail(s))
<1>1. DOMAIN s = 1..Len(s) /\ Len(s) \in Nat /\ Head(s) = s[1]
  OBVIOUS
<1>2. DOMAIN Tail(s) = 1..(Len(s) - 1) /\ \A i \in DOMAIN Tail(s) : Tail(s)[i] = s[i + 1]
  OBVIOUS
<1>3. ASSUME NEW i \in DOMAIN s PROVE s[i] = Head(s) \/ s[i] \in ToSet(Tail(s))
  <2>1. CASE i = 1
    BY <1>1, <2>1
  <2>2. CASE i /= 1
    <3>1. i - 1 \in DOMAIN Tail(s) /\ (i - 1) + 1 = i
      BY <1>1, <1>2, <2>2
    <3>2. Tail(s)[i - 1] = s[i]
      BY <1>2, <3>1
    <3> QED
      BY <3>1, <3>2 DEF ToSet
  <2> QED
    BY <2>1, <2>2
<1> QED
  BY <1>3 DEF ToSet

\* Event n is written to a client that has, or is excused for, all before it.
LEMMA WritingKeepsSeen ==
  ASSUME NEW f, NEW q \in ClientStates, NEW e, NEW b \in Nat, NEW n \in Nat,
         SeenOK(f, q, e, b), 1 <= n,
         \A m \in 1..n : m \in Got(f, q) \cup e \cup {n}
  PROVE  /\ SeenOK(f, Written(q, n, b), e, b)
         /\ Got(f, Written(q, n, b)) = Got(f, q) \cup {n}
<1> DEFINE p == [id |-> n, seq |-> n - b]
           w == Written(q, n, b)
<1>1. p \in Packets /\ p.id = n /\ p.id - p.seq = b
  BY DEF Packets
<1>2. q.wire \in Seq(Packets) /\ q.from \in Int /\ q.lastSeq \in Int
  BY DEF ClientStates
<1> HIDE DEF p
<1>3. ToSet(Append(q.wire, p)) = ToSet(q.wire) \cup {p}
  BY <1>1, <1>2, ElementsOfAppend
<1>4. w.wire = Append(q.wire, p) /\ w.from = q.from /\ w.lastSeq = q.lastSeq
  BY DEF Written, ClientStates, p
<1> HIDE DEF w
<1>5. Got(f, w) = Got(f, q) \cup {n}
  BY <1>1, <1>3, <1>4 DEF Got, WireIds
<1>6. \A x \in Got(f, w) : 1 <= x /\ \A m \in 1..x : m \in Got(f, w) \cup e
  BY <1>5 DEF SeenOK
<1>7. \A x \in ToSet(w.wire) : x.id - x.seq <= b
  BY <1>1, <1>3, <1>4 DEF SeenOK
<1>8. SeenOK(f, w, e, b)
  BY <1>4, <1>6, <1>7 DEF SeenOK
<1> QED
  BY <1>5, <1>8 DEF w

LEMMA ReplayKeepsHoles ==
  ASSUME OrderInv, HolesInv, NEW h \in Handlers, NEW c \in Clients, c = conn[h].client,
         Replay(h)
  PROVE  HolesInv'
<1> DEFINE n == Head(conn[h].todo)
           t == Tail(conn[h].todo)
           l == n - base
           r == [conn[h] EXCEPT !.todo = t, !.lastSent = l]
           q == Written(client[c], n, base)
<1>1. /\ conn[h] \in Conns /\ conn \in [Handlers -> Conns]
      /\ client[c] \in ClientStates /\ client \in [Clients -> ClientStates]
      /\ feed[c] \in Seq(Nat) /\ base \in Nat /\ seq \in Nat
      /\ HandlerOK(conn[h], base, seq)
      /\ ClientOK(feed[c], client[c], base, seq)
      /\ SeenOK(feed[c], client[c], Excused(c), base)
      /\ client[c].h = h => /\ LinkOK(conn[h], feed[c], client[c], base)
                            /\ PathOK(conn[h], Known(c), base, seq)
  BY HandlerHoles
<1>2. /\ conn[h].pc = "replaying" /\ conn[h].todo /= <<>>
      /\ UNCHANGED <<feed, base, seq, ring, recorder, gone, missed>>
  BY DEF Replay, At
<1>3. conn' = [conn EXCEPT ![h] = r]
  BY DEF Replay
<1>4. client' = IF client[c].h = h THEN [client EXCEPT ![c] = q] ELSE client
  BY <1>1 DEF Replay, Write, Written, Attached
<1>5. conn[h].todo \in Seq(Nat) /\ Increasing(conn[h].todo)
  BY <1>1 DEF Conns, HandlerOK
<1>6. /\ n \in Nat /\ n \in ToSet(conn[h].todo) /\ t \in Seq(Nat)
      /\ ToSet(t) \subseteq ToSet(conn[h].todo)
      /\ ToSet(conn[h].todo) \subseteq {n} \cup ToSet(t) /\ Below({n}, ToSet(t))
  BY <1>2, <1>5, ElementsOfTail, TailIncreases, HeadOrTail
<1>7. l \in Int /\ base + l = n
  BY <1>1, <1>6
<1>8. 1 <= n /\ n <= seq
  BY <1>1, <1>6 DEF HandlerOK, Current
<1> HIDE DEF n, t, l
<1>9. /\ r \in Conns /\ r.client = c /\ r.pc = "replaying" /\ r.lastEventID = conn[h].lastEventID
      /\ r.chan = conn[h].chan /\ r.todo = t /\ r.lastSent = l
  BY <1>1, <1>2, <1>6, <1>7 DEF Conns
<1> HIDE DEF r
<1>10. MissedInv' /\ \A d \in Clients : Excused(d)' = Excused(d)
  BY <1>2 DEF HolesInv, MissedInv, Excused
<1>11. ASSUME client[c].h = h
       PROVE  /\ q \in ClientStates /\ q.h = h /\ SeenOK(feed[c], q, Excused(c)', base)
              /\ PathOK(r, Got(feed[c], q) \cup Excused(c)', base, seq)
  <2>1. LinkOK(conn[h], feed[c], client[c], base) /\ PathOK(conn[h], Known(c), base, seq)
    BY <1>1, <1>11
  <2>2. client[c].pc = "reading" /\ Below(Got(feed[c], client[c]), {n})
    BY <1>2, <1>6, <2>1 DEF LinkOK, Subscribed, Below
  <2>3. q \in ClientStates /\ q.h = client[c].h
    <3>1. /\ feed[c] \in Seq(Nat) /\ client[c] \in ClientStates /\ base \in Nat /\ seq \in Nat
          /\ n \in Nat /\ ClientOK(feed[c], client[c], base, seq) /\ n <= seq
      BY <1>1, <1>6, <1>8
    <3> QED
      BY <2>2, <3>1, WritingKeepsOrder
  <2>4. \A x \in ToSet(t) : n < x
    BY <1>6 DEF Below
  <2>5. ASSUME NEW m \in 1..n PROVE m \in Known(c) \cup {n}
    <3>1. m \in Known(c) \cup ToSet(conn[h].todo)
      BY <1>6, <2>1 DEF PathOK
    <3>2. m \notin ToSet(t)
      BY <1>6, <2>4
    <3> QED
      BY <1>6, <3>1, <3>2
  <2>6. SeenOK(feed[c], q, Excused(c), base) /\ Got(feed[c], q) = Got(feed[c], client[c]) \cup {n}
    <3>1. \A m \in 1..n : m \in Got(feed[c], client[c]) \cup Excused(c) \cup {n}
      BY <2>5 DEF Known
    <3>2. /\ client[c] \in ClientStates /\ base \in Nat /\ n \in Nat /\ 1 <= n
          /\ SeenOK(feed[c], client[c], Excused(c), base)
      BY <1>1, <1>6, <1>8
    <3> QED
      BY <3>1, <3>2, WritingKeepsSeen
  <2> HIDE DEF q
  <2> DEFINE g == Known(c) \cup {n}
  <2>7. Got(feed[c], q) \cup Excused(c)' = g
    BY <1>10, <2>6 DEF Known
  <2>8. g \cup ToSet(t) = Known(c) \cup ToSet(conn[h].todo)
    BY <1>6
  <2>9. \A m \in 1..(base + r.lastSent) : m \in g
    BY <1>7, <1>9, <2>5
  <2>10. Begun(conn[h])
    BY <1>2 DEF Begun
  <2> HIDE DEF g
  <2>11. PathOK(r, g, base, seq)
    BY <1>6, <1>9, <2>1, <2>8, <2>9, <2>10 DEF PathOK
  <2> QED
    BY <1>10, <1>11, <2>3, <2>6, <2>7, <2>11
<1> HIDE DEF q
<1>12. CASE client[c].h = h
  BY <1>1, <1>2, <1>3, <1>4, <1>9, <1>10, <1>11, <1>12, HandlerStepHoles
<1>13. CASE client[c].h /= h
  BY <1>1, <1>2, <1>3, <1>4, <1>9, <1>10, <1>13, HandlerStepHoles
<1> QED
  BY <1>12, <1>13

\* What the guard drops the client has already.
LEMMA ForwardKeepsHoles ==
  ASSUME OrderInv, HolesInv, NEW h \in Handlers, NEW c \in Clients, c = conn[h].client,
         Forward(h)
  PROVE  HolesInv'
<1> DEFINE n == Head(conn[h].chan)
           t == Tail(conn[h].chan)
           l == n - base
           dropped == [conn[h] EXCEPT !.chan = t]
           sent == [conn[h] EXCEPT !.chan = t, !.lastSent = l]
           q == Written(client[c], n, base)
<1>1. /\ conn[h] \in Conns /\ conn \in [Handlers -> Conns]
      /\ client[c] \in ClientStates /\ client \in [Clients -> ClientStates]
      /\ feed[c] \in Seq(Nat) /\ base \in Nat /\ seq \in Nat
      /\ HandlerOK(conn[h], base, seq)
      /\ ClientOK(feed[c], client[c], base, seq)
      /\ SeenOK(feed[c], client[c], Excused(c), base)
      /\ client[c].h = h => /\ LinkOK(conn[h], feed[c], client[c], base)
                            /\ PathOK(conn[h], Known(c), base, seq)
  BY HandlerHoles
<1>2. /\ conn[h].pc = "live" /\ conn[h].chan /= <<>>
      /\ UNCHANGED <<feed, base, seq, ring, recorder, gone, missed>>
  BY DEF Forward, At
<1>3. \/ l <= conn[h].lastSent /\ conn' = [conn EXCEPT ![h] = dropped] /\ UNCHANGED client
      \/ /\ ~(l <= conn[h].lastSent) /\ conn' = [conn EXCEPT ![h] = sent]
         /\ client' = IF client[c].h = h THEN [client EXCEPT ![c] = q] ELSE client
  BY <1>1 DEF Forward, AlreadySent, Write, Written, Attached
<1>4. /\ conn[h].chan \in Seq(Nat) /\ Increasing(conn[h].chan) /\ conn[h].lastSent \in Int
      /\ conn[h].todo = <<>>
  BY <1>1, <1>2 DEF Conns, HandlerOK
<1>5. /\ n \in Nat /\ n \in ToSet(conn[h].chan) /\ t \in Seq(Nat)
      /\ ToSet(t) \subseteq ToSet(conn[h].chan)
      /\ ToSet(conn[h].chan) \subseteq {n} \cup ToSet(t) /\ Below({n}, ToSet(t))
  BY <1>2, <1>4, ElementsOfTail, TailIncreases, HeadOrTail
<1>6. 1 <= n /\ n <= seq
  BY <1>1, <1>5 DEF HandlerOK, Current
<1>7. l \in Int /\ base + l = n
  BY <1>1, <1>5
<1>8. MissedInv' /\ \A d \in Clients : Excused(d)' = Excused(d)
  BY <1>2 DEF HolesInv, MissedInv, Excused
<1>9. Begun(conn[h])
  BY <1>2 DEF Begun
<1> HIDE DEF n, t, l
<1>10. CASE l <= conn[h].lastSent /\ conn' = [conn EXCEPT ![h] = dropped] /\ UNCHANGED client
  <2>1. /\ dropped \in Conns /\ dropped.client = c /\ dropped.pc = "live"
        /\ dropped.lastEventID = conn[h].lastEventID
        /\ dropped.chan = t /\ dropped.todo = <<>> /\ dropped.lastSent = conn[h].lastSent
    BY <1>1, <1>2, <1>4, <1>5 DEF Conns
  <2> HIDE DEF dropped
  <2>2. ASSUME client[c].h = h PROVE PathOK(dropped, Known(c), base, seq)
    <3>1. PathOK(conn[h], Known(c), base, seq)
      BY <1>1, <2>2
    <3>2. n \in 1..(base + conn[h].lastSent)
      BY <1>1, <1>4, <1>5, <1>6, <1>7, <1>10
    <3>3. n \in Known(c)
      BY <1>9, <3>1, <3>2 DEF PathOK
    <3> QED
      BY <1>4, <1>5, <1>9, <2>1, <3>1, <3>3, ElementsOfEmpty DEF PathOK
  <2>3. client[c].h = h => /\ SeenOK(feed[c], client[c], Excused(c)', base)
                           /\ PathOK(dropped, Got(feed[c], client[c]) \cup Excused(c)', base, seq)
    BY <1>1, <1>8, <2>2 DEF Known
  <2>4. client' = IF client[c].h = h THEN [client EXCEPT ![c] = client[c]] ELSE client
    BY <1>1, <1>10
  <2> QED
    BY <1>1, <1>2, <1>8, <1>10, <2>1, <2>3, <2>4, HandlerStepHoles
<1>11. CASE /\ ~(l <= conn[h].lastSent) /\ conn' = [conn EXCEPT ![h] = sent]
            /\ client' = IF client[c].h = h THEN [client EXCEPT ![c] = q] ELSE client
  <2>1. conn[h].lastSent < l
    BY <1>4, <1>7, <1>11
  <2>2. /\ sent \in Conns /\ sent.client = c /\ sent.pc = "live"
        /\ sent.lastEventID = conn[h].lastEventID
        /\ sent.chan = t /\ sent.todo = <<>> /\ sent.lastSent = l
    BY <1>1, <1>2, <1>4, <1>5, <1>7 DEF Conns
  <2> HIDE DEF sent
  <2>3. ASSUME client[c].h = h
        PROVE  /\ q \in ClientStates /\ q.h = h /\ SeenOK(feed[c], q, Excused(c)', base)
               /\ PathOK(sent, Got(feed[c], q) \cup Excused(c)', base, seq)
    <3>1. LinkOK(conn[h], feed[c], client[c], base) /\ PathOK(conn[h], Known(c), base, seq)
      BY <1>1, <2>3
    <3>2. ASSUME NEW d \in Got(feed[c], client[c]) PROVE d < n
      <4>1. d < n \/ l <= conn[h].lastSent
        BY <1>5, <3>1, <3>2 DEF LinkOK, l
      <4> QED
        BY <1>11, <4>1
    <3>3. client[c].pc = "reading" /\ Below(Got(feed[c], client[c]), {n})
      BY <1>2, <3>1, <3>2 DEF LinkOK, Subscribed, Below
    <3>4. q \in ClientStates /\ q.h = client[c].h
      <4>1. /\ feed[c] \in Seq(Nat) /\ client[c] \in ClientStates /\ base \in Nat /\ seq \in Nat
            /\ n \in Nat /\ ClientOK(feed[c], client[c], base, seq) /\ n <= seq
        BY <1>1, <1>5, <1>6
      <4> QED
        BY <3>3, <4>1, WritingKeepsOrder
    <3>5. \A x \in ToSet(t) : n < x
      BY <1>5 DEF Below
    <3>6. \A m \in 1..seq : m \in Known(c) \cup ToSet(conn[h].chan)
      BY <1>4, <1>9, <3>1, ElementsOfEmpty DEF PathOK
    <3>7. ASSUME NEW m \in 1..n PROVE m \in Known(c) \cup {n}
      <4>1. m \in 1..seq
        BY <1>1, <1>5, <1>6
      <4>2. m \notin ToSet(t)
        BY <1>5, <3>5
      <4> QED
        BY <1>5, <3>6, <4>1, <4>2
    <3>8. SeenOK(feed[c], q, Excused(c), base) /\ Got(feed[c], q) = Got(feed[c], client[c]) \cup {n}
      <4>1. \A m \in 1..n : m \in Got(feed[c], client[c]) \cup Excused(c) \cup {n}
        BY <3>7 DEF Known
      <4>2. /\ client[c] \in ClientStates /\ base \in Nat /\ n \in Nat /\ 1 <= n
            /\ SeenOK(feed[c], client[c], Excused(c), base)
        BY <1>1, <1>5, <1>6
      <4> QED
        BY <4>1, <4>2, WritingKeepsSeen
    <3> HIDE DEF q
    <3> DEFINE g == Known(c) \cup {n}
    <3>9. Got(feed[c], q) \cup Excused(c)' = g
      BY <1>8, <3>8 DEF Known
    <3>10. \A m \in 1..seq : m \in g \cup ToSet(t)
      BY <1>5, <3>6
    <3>11. \A m \in 1..(base + sent.lastSent) : m \in g
      BY <1>7, <2>2, <3>7
    <3> HIDE DEF g
    <3>12. PathOK(sent, g, base, seq)
      BY <2>2, <3>10, <3>11, ElementsOfEmpty DEF PathOK
    <3> QED
      BY <1>8, <2>3, <3>4, <3>8, <3>9, <3>12
  <2> HIDE DEF q
  <2>4. CASE client[c].h = h
    BY <1>1, <1>2, <1>8, <1>11, <2>2, <2>3, <2>4, HandlerStepHoles
  <2>5. CASE client[c].h /= h
    BY <1>1, <1>2, <1>8, <1>11, <2>2, <2>5, HandlerStepHoles
  <2> QED
    BY <2>4, <2>5
<1> QED
  BY <1>3, <1>10, <1>11

\* A client that only changes its place in the loop, or loses its connection:
\* what was under way is later than all it has read.
LEMMA ClientKeepsHoles ==
  ASSUME OrderInv, HolesInv, NEW c \in Clients,
         DialFails(c) \/ Disconnect(c) \/ EmitLost(c) \/ EmitRestored(c) \/ Cut(c)
  PROVE  HolesInv'
<1>1. /\ client[c] \in ClientStates /\ feed[c] \in Seq(Nat)
      /\ client \in [Clients -> ClientStates] /\ feed \in [Clients -> Seq(Nat)]
      /\ ClientOK(feed[c], client[c], base, seq)
      /\ SeenOK(feed[c], client[c], Excused(c), base)
  BY ClientHoles
<1>2. /\ feed' = [feed EXCEPT ![c] = feed[c]]
      /\ UNCHANGED <<conn, base, seq, ring, recorder, gone, missed>>
  BY <1>1 DEF DialFails, Disconnect, EmitLost, EmitRestored, Cut, serverVars
<1>3. MissedInv' /\ \A d \in Clients : Excused(d)' = Excused(d)
  BY <1>2 DEF HolesInv, MissedInv, Excused
<1>4. client[c].wire \in Seq(Packets)
  BY <1>1 DEF ClientStates
<1>5. ASSUME NEW q \in ClientStates, client' = [client EXCEPT ![c] = q],
             q.h = NoHandler, q.lastSeq = client[c].lastSeq, q.from = client[c].from,
             q.wire = client[c].wire \/ q.wire = <<>>
      PROVE  HolesInv'
  <2>1. SeenOK(feed[c], q, Excused(c), base)
    <3>1. CASE q.wire = client[c].wire
      BY <1>1, <1>5, <3>1 DEF SeenOK, Got
    <3>2. CASE q.wire = <<>>
      <4>1. Got(feed[c], q) = ToSet(feed[c]) /\ ToSet(feed[c]) \subseteq Nat
        BY <1>1, <3>2, EmptyWire, ElementsAreTyped DEF Got
      <4>2. ASSUME NEW x \in ToSet(feed[c]), NEW n \in 1..x
              PROVE  n \in ToSet(feed[c]) \cup Excused(c)
        <5>1. n \in Got(feed[c], client[c]) \cup Excused(c)
          BY <1>1, <4>2 DEF SeenOK, Got
        <5>2. \A m \in WireIds(client[c].wire) : x < m
          BY <1>1, <4>2 DEF ClientOK, Below
        <5>3. n \notin WireIds(client[c].wire)
          BY <4>1, <4>2, <5>2
        <5> QED
          BY <5>1, <5>3 DEF Got
      <4> QED
        BY <1>1, <1>5, <3>2, <4>1, <4>2, ElementsOfEmpty DEF SeenOK, Got
    <3> QED
      BY <1>5, <3>1, <3>2
  <2>2. client' = [client EXCEPT ![c] = q] /\ q.h = NoHandler
    BY <1>5
  <2> QED
    BY <1>1, <1>2, <1>3, <2>1, <2>2, ClientStepHoles
<1>6. client[c].pc \in {"lost", "backoff", "dialing"} => client[c].h = NoHandler
  BY <1>1 DEF ClientOK
<1>7. CASE DialFails(c)
  <2> DEFINE q == [client[c] EXCEPT !.pc = "lost"]
  <2>1. client' = [client EXCEPT ![c] = q] /\ client[c].pc = "dialing"
    BY <1>7 DEF DialFails, ClientAt
  <2>2. /\ q \in ClientStates /\ q.h = client[c].h /\ q.lastSeq = client[c].lastSeq
        /\ q.from = client[c].from /\ q.wire = client[c].wire
    BY <1>1 DEF ClientStates
  <2> HIDE DEF q
  <2> QED
    BY <1>5, <1>6, <2>1, <2>2
<1>8. CASE Disconnect(c)
  <2> DEFINE q == [client[c] EXCEPT !.pc = "lost", !.wire = <<>>]
  <2>1. client' = [client EXCEPT ![c] = q] /\ client[c].h = NoHandler
    BY <1>8 DEF Disconnect
  <2>2. /\ q.h = client[c].h /\ q.lastSeq = client[c].lastSeq /\ q.wire = <<>>
        /\ q.from = client[c].from
    BY <1>1 DEF ClientStates
  <2>3. <<>> \in Seq(Packets)
    OBVIOUS
  <2>4. q \in ClientStates
    BY <1>1, <2>3 DEF ClientStates
  <2> HIDE DEF q
  <2> QED
    BY <1>5, <2>1, <2>2, <2>4
<1>9. CASE EmitLost(c)
  <2> DEFINE e == client[c].lostEmitted \/ client[c].connected
             q == [client[c] EXCEPT !.pc = "backoff", !.connected = FALSE, !.lostEmitted = e]
  <2>1. client' = [client EXCEPT ![c] = q] /\ client[c].pc = "lost"
    BY <1>9 DEF EmitLost, ClientAt
  <2>2. e \in BOOLEAN
    BY <1>1 DEF ClientStates
  <2> HIDE DEF e
  <2>3. /\ q \in ClientStates /\ q.h = client[c].h /\ q.lastSeq = client[c].lastSeq
        /\ q.from = client[c].from /\ q.wire = client[c].wire
    BY <1>1, <2>2 DEF ClientStates
  <2> HIDE DEF q
  <2> QED
    BY <1>5, <1>6, <2>1, <2>3
<1>10. CASE EmitRestored(c)
  <2> DEFINE q == [client[c] EXCEPT !.pc = "dialing", !.lostEmitted = FALSE]
  <2>1. client' = [client EXCEPT ![c] = q] /\ client[c].pc = "backoff"
    BY <1>10 DEF EmitRestored, ClientAt
  <2>2. /\ q \in ClientStates /\ q.h = client[c].h /\ q.lastSeq = client[c].lastSeq
        /\ q.from = client[c].from /\ q.wire = client[c].wire
    BY <1>1 DEF ClientStates
  <2> HIDE DEF q
  <2> QED
    BY <1>5, <1>6, <2>1, <2>2
<1>11. CASE Cut(c)
  <2> DEFINE q == [client[c] EXCEPT !.h = NoHandler]
  <2>1. client' = [client EXCEPT ![c] = q]
    BY <1>11 DEF Cut
  <2>2. /\ q \in ClientStates /\ q.h = NoHandler /\ q.lastSeq = client[c].lastSeq
        /\ q.from = client[c].from /\ q.wire = client[c].wire
    BY <1>1 DEF ClientStates
  <2> HIDE DEF q
  <2> QED
    BY <1>5, <2>1, <2>2
<1> QED
  BY <1>7, <1>8, <1>9, <1>10, <1>11

\* The event that is read is got, or excused: the consumer has no room for it, or
\* it is passed over.
LEMMA ReceiveKeepsHoles ==
  ASSUME OrderInv, HolesInv, NEW c \in Clients, Receive(c) \/ Skip(c)
  PROVE  HolesInv'
<1> DEFINE w == client[c].wire
           p == Head(w)
           u == Tail(w)
           newer == Receive(c) /\ p.seq > client[c].lastSeq
           s == IF newer THEN p.seq ELSE client[c].lastSeq
           b == IF newer THEN p.id - p.seq ELSE client[c].from
           q == [client[c] EXCEPT !.wire = u, !.lastSeq = s, !.from = b]
<1>1. /\ client[c] \in ClientStates /\ feed[c] \in Seq(Nat)
      /\ client \in [Clients -> ClientStates] /\ feed \in [Clients -> Seq(Nat)]
      /\ base \in Nat /\ seq \in Nat /\ base <= seq
      /\ ClientOK(feed[c], client[c], base, seq)
      /\ SeenOK(feed[c], client[c], Excused(c), base)
  BY ClientHoles
<1>2. /\ w /= <<>> /\ UNCHANGED <<conn, base, seq, ring, recorder, gone>>
  BY DEF Receive, Skip, ClientAt, serverVars
<1>3. client' = [client EXCEPT ![c] = q]
  <2>1. CASE Receive(c)
    BY <1>1, <2>1 DEF Receive
  <2>2. CASE ~Receive(c)
    <3>1. client' = [client EXCEPT ![c] = [client[c] EXCEPT !.wire = u]]
      BY <1>1, <2>2 DEF Skip
    <3>2. q = [client[c] EXCEPT !.wire = u]
      BY <1>1, <2>2 DEF ClientStates
    <3> QED
      BY <3>1, <3>2
  <2> QED
    BY <2>1, <2>2
<1>4. \/ feed' = [feed EXCEPT ![c] = Append(feed[c], p.id)] /\ UNCHANGED missed
      \/ /\ feed' = [feed EXCEPT ![c] = feed[c]]
         /\ \E k \in {"overflow", "skipped"} :
              missed' = [missed EXCEPT ![c][k] = missed[c][k] \cup {p.id}]
  <2>1. CASE Receive(c)
    BY <1>1, <2>1 DEF Receive
  <2>2. CASE Skip(c)
    BY <1>1, <2>2 DEF Skip
  <2> QED
    BY <2>1, <2>2
<1>5. w \in Seq(Packets) /\ IncreasingIds(w) /\ client[c].lastSeq \in Int /\ client[c].from \in Int
  BY <1>1 DEF ClientStates, ClientOK
<1>6. /\ p \in ToSet(w) /\ p \in Packets /\ u \in Seq(Packets)
      /\ ToSet(u) \subseteq ToSet(w) /\ WireIds(u) \subseteq WireIds(w) /\ p.id \in WireIds(w)
      /\ Below({p.id}, WireIds(u))
  BY <1>2, <1>5, WireShrinks
<1>7. ToSet(w) \subseteq {p} \cup ToSet(u)
  BY <1>2, <1>5, HeadOrTail
<1>8. p.id \in Nat /\ p.seq \in Int /\ p.id <= seq /\ p.id - p.seq <= base
  BY <1>1, <1>6 DEF Packets, ClientOK, Got, SeenOK
<1>9. p.id \in 1..seq
  BY <1>1, <1>6, <1>8 DEF SeenOK, Got
<1>10. WireIds(w) = {p.id} \cup WireIds(u)
  BY <1>6, <1>7 DEF WireIds
<1>11. Below(ToSet(feed[c]), WireIds(w))
  BY <1>1 DEF ClientOK
<1>12. /\ \A x \in Got(feed[c], client[c]) : 1 <= x /\ \A n \in 1..x :
            n \in ToSet(feed[c]) \cup {p.id} \cup WireIds(u) \cup Excused(c)
       /\ Got(feed[c], client[c]) = ToSet(feed[c]) \cup {p.id} \cup WireIds(u)
  BY <1>1, <1>10 DEF SeenOK, Got
<1> HIDE DEF w, p, u
<1>13. s \in Int /\ b \in Int /\ 0 <= s /\ b <= base
       /\ (b + s = p.id \/ b + s = client[c].from + client[c].lastSeq)
  BY <1>1, <1>5, <1>8 DEF SeenOK
<1> HIDE DEF newer, s, b
<1>14. /\ q \in ClientStates /\ q.h = client[c].h /\ q.wire = u /\ q.lastSeq = s /\ q.from = b
  BY <1>1, <1>6, <1>13 DEF ClientStates
<1> HIDE DEF q
<1>15. ASSUME NEW f \in Seq(Nat), feed' = [feed EXCEPT ![c] = f],
              ToSet(f) \subseteq ToSet(feed[c]) \cup {p.id},
              ToSet(feed[c]) \cup {p.id} \cup Excused(c) \subseteq ToSet(f) \cup Excused(c)',
              MissedInv', \A d \in Clients : Excused(d) \subseteq Excused(d)'
       PROVE  HolesInv'
  <2>1. \A x \in WireIds(u) : p.id < x
    BY <1>6 DEF Below
  <2>2. Known(c) \subseteq Got(f, q) \cup Excused(c)'
    BY <1>12, <1>14, <1>15 DEF Known, Got
  <2>3. \A x \in Got(f, q) : 1 <= x /\ \A n \in 1..x : n \in Got(f, q) \cup Excused(c)'
    BY <1>12, <1>14, <1>15 DEF Got
  <2>4. ASSUME NEW n \in 1..(b + s) PROVE n \in ToSet(f) \cup Excused(c)'
    <3>1. CASE b + s = p.id
      <4>1. n \in ToSet(feed[c]) \cup {p.id} \cup WireIds(u) \cup Excused(c)
        BY <1>12, <2>4, <3>1
      <4>2. n \notin WireIds(u)
        BY <1>8, <2>1, <2>4, <3>1
      <4> QED
        BY <1>15, <4>1, <4>2
    <3>2. CASE b + s = client[c].from + client[c].lastSeq
      <4>1. n \in ToSet(feed[c]) \cup Excused(c)
        BY <1>1, <2>4, <3>2 DEF SeenOK
      <4> QED
        BY <1>15, <4>1
    <3> QED
      BY <1>13, <3>1, <3>2
  <2>5. \A x \in ToSet(u) : x.id - x.seq <= base
    BY <1>1, <1>6 DEF SeenOK, w
  <2>6. SeenOK(f, q, Excused(c)', base)
    BY <1>13, <1>14, <2>3, <2>4, <2>5 DEF SeenOK
  <2> QED
    BY <1>1, <1>2, <1>3, <1>14, <1>15, <2>2, <2>6, ClientStepHoles
<1>16. missed \in [Clients -> [Causes -> SUBSET (1..seq)]] /\ {"overflow", "skipped"} \subseteq Causes
       /\ gone \subseteq 1..seq
  BY DEF HolesInv, MissedInv, Causes
<1>17. CASE feed' = [feed EXCEPT ![c] = Append(feed[c], p.id)] /\ UNCHANGED missed
  <2> DEFINE f == Append(feed[c], p.id)
  <2>1. f \in Seq(Nat)
    BY <1>1, <1>8
  <2>2. ToSet(f) = ToSet(feed[c]) \cup {p.id}
    <3>1. feed[c] \in Seq(Nat) /\ p.id \in Nat
      BY <1>1, <1>8
    <3> QED
      BY <3>1, ElementsOfAppend
  <2>3. MissedInv' /\ \A d \in Clients : Excused(d)' = Excused(d)
    BY <1>2, <1>16, <1>17 DEF MissedInv, Excused
  <2>4. feed' = [feed EXCEPT ![c] = f]
    BY <1>17
  <2> HIDE DEF f
  <2> QED
    BY <1>15, <2>1, <2>2, <2>3, <2>4
<1>18. ASSUME feed' = [feed EXCEPT ![c] = feed[c]], NEW k \in {"overflow", "skipped"},
              missed' = [missed EXCEPT ![c][k] = missed[c][k] \cup {p.id}]
       PROVE  HolesInv'
  <2>1. /\ missed' \in [Clients -> [Causes -> SUBSET (1..seq)]]
        /\ \A d \in Clients, x \in Causes : missed[d][x] \subseteq missed'[d][x]
        /\ p.id \in missed'[c][k]
    BY <1>9, <1>16, <1>18
  <2>2. MissedInv'
    BY <1>2, <1>16, <2>1 DEF MissedInv
  <2>3. \A d \in Clients : Excused(d) \subseteq Excused(d)'
    BY <2>1, ExcusesGrow
  <2>4. p.id \in Excused(c)'
    BY <1>16, <2>1 DEF Excused
  <2>5. ToSet(feed[c]) \cup {p.id} \cup Excused(c) \subseteq ToSet(feed[c]) \cup Excused(c)'
    BY <2>3, <2>4
  <2> QED
    BY <1>1, <1>15, <1>18, <2>2, <2>3, <2>5
<1> QED
  BY <1>4, <1>17, <1>18

LEMMA NothingIsForgotten ==
  ASSUME HolesInv, UNCHANGED <<conn, client, feed, base, seq, ring, recorder, gone, missed>>
  PROVE  HolesInv'
<1>1. ArchiveInv /\ MissedInv /\ SeenInv /\ PathsInv
  BY DEF HolesInv
<1>2. ArchiveInv' /\ MissedInv'
  BY <1>1 DEF ArchiveInv, MissedInv
<1>3. SeenInv' /\ PathsInv'
  BY <1>1 DEF SeenInv, PathsInv, Attached, Known, Excused
<1> QED
  BY <1>2, <1>3 DEF HolesInv

\* The event the recorder takes is in the ring, the one that makes room is gone.
LEMMA RecordKeepsHoles ==
  ASSUME OrderInv, HolesInv, Record
  PROVE  HolesInv'
<1> DEFINE n == Head(recorder)
           old == IF Len(ring) >= RingSize THEN Tail(ring) ELSE ring
<1>1. /\ ring \in Seq(Nat) /\ recorder \in Seq(Nat)
      /\ Current(ring, base, seq) /\ base \in Nat /\ seq \in Nat
  BY DEF OrderInv, Types, RingInv
<1>2. ArchiveInv /\ MissedInv /\ SeenInv /\ PathsInv
  BY DEF HolesInv
<1>3. /\ recorder /= <<>> /\ recorder' = Tail(recorder) /\ ring' = Append(old, n)
      /\ gone' = gone \cup Evicted
      /\ UNCHANGED <<conn, client, feed, base, seq, missed>>
  BY DEF Record, AddToRing, clientVars
<1>4. n \in Nat /\ ToSet(recorder) \subseteq {n} \cup ToSet(recorder')
  BY <1>1, <1>3, ElementsOfTail, HeadOrTail
<1>5. /\ old \in Seq(Nat) /\ ToSet(ring) \subseteq Evicted \cup ToSet(old)
      /\ Evicted \subseteq ToSet(ring)
  <2>1. CASE Len(ring) >= RingSize
    <3>1. ring /= <<>>
      BY <1>1, <2>1
    <3> QED
      BY <1>1, <2>1, <3>1, ElementsOfTail, HeadOrTail DEF Evicted
  <2>2. CASE ~(Len(ring) >= RingSize)
    BY <1>1, <2>2 DEF Evicted
  <2> QED
    BY <2>1, <2>2
<1> HIDE DEF n, old
<1>6. ToSet(ring') = ToSet(old) \cup {n}
  BY <1>3, <1>4, <1>5, ElementsOfAppend
<1>7. ArchiveInv'
  BY <1>2, <1>3, <1>4, <1>5, <1>6 DEF ArchiveInv
<1>8. Evicted \subseteq 1..seq
  BY <1>1, <1>5 DEF Current
<1>9. MissedInv'
  BY <1>2, <1>3, <1>8 DEF MissedInv
<1>10. SeenInv' /\ PathsInv'
  BY <1>2, <1>3 DEF SeenInv, PathsInv, Attached, Known, Excused
<1> QED
  BY <1>7, <1>9, <1>10 DEF HolesInv

\* The new event is in every channel that is open, or excused because it is full.
LEMMA BroadcastKeepsHoles ==
  ASSUME OrderInv, HolesInv, Broadcast
  PROVE  HolesInv'
<1> DEFINE n == seq + 1
           Over(c) == \E h \in Handlers :
                        conn[h].client = c /\ IsSubscribed(h) /\ Full(conn[h].chan)
<1>1. /\ Types /\ RingInv /\ HandlersInv
      /\ ArchiveInv /\ MissedInv /\ SeenInv /\ PathsInv
  BY DEF OrderInv, HolesInv
<1>2. /\ seq' = n /\ UNCHANGED <<base, ring, client, feed>>
      /\ recorder' = IF recording THEN Offer(recorder) ELSE recorder
      /\ gone' = IF recording /\ ~Full(recorder) THEN gone ELSE gone \cup {n}
      /\ conn' = [h \in Handlers |-> IF IsSubscribed(h)
                                     THEN [conn[h] EXCEPT !.chan = Offer(conn[h].chan)]
                                     ELSE conn[h]]
      /\ missed' = [c \in Clients |->
                     IF Over(c) THEN [missed[c] EXCEPT !["overflow"] = missed[c]["overflow"] \cup {n}]
                     ELSE missed[c]]
  BY DEF Broadcast, clientVars
<1>3. /\ base \in Nat /\ seq \in Nat /\ base <= seq /\ recorder \in Seq(Nat)
      /\ conn \in [Handlers -> Conns] /\ client \in [Clients -> ClientStates]
  BY <1>1 DEF Types
<1>4. n \in Nat /\ 1..n = 1..seq \cup {n}
  BY <1>3
<1>5. \A s \in Seq(Nat) : /\ ToSet(s) \subseteq ToSet(Offer(s))
                          /\ ~Full(s) => n \in ToSet(Offer(s))
  <2> TAKE s \in Seq(Nat)
  <2>1. CASE Len(s) < ChanSize
    <3>1. Offer(s) = Append(s, n)
      BY <2>1 DEF Offer
    <3>2. ToSet(Offer(s)) = ToSet(s) \cup {n}
      BY <1>4, <3>1, ElementsOfAppend
    <3> QED
      BY <3>2
  <2>2. CASE ~(Len(s) < ChanSize)
    <3>1. Full(s) /\ Offer(s) = s
      BY <2>2 DEF Full, Offer
    <3> QED
      BY <3>1
  <2> QED
    BY <2>1, <2>2
<1> HIDE DEF n
<1>6. ArchiveInv'
  <2>1. \A m \in 1..n : m \in gone' \cup ToSet(recorder') \cup ToSet(ring)
    BY <1>1, <1>2, <1>3, <1>4, <1>5 DEF ArchiveInv
  <2> QED
    BY <1>2, <2>1 DEF ArchiveInv
<1>7. /\ gone \subseteq 1..n /\ n \in 1..n /\ "overflow" \in Causes
      /\ missed \in [Clients -> [Causes -> SUBSET (1..n)]]
  BY <1>1, <1>4 DEF MissedInv, Causes
<1> HIDE DEF Over
<1>8. /\ missed' \in [Clients -> [Causes -> SUBSET (1..n)]]
      /\ \A d \in Clients, k \in Causes : missed[d][k] \subseteq missed'[d][k]
      /\ \A d \in Clients : Over(d) => n \in missed'[d]["overflow"]
  BY <1>2, <1>7
<1>9. MissedInv'
  BY <1>2, <1>7, <1>8 DEF MissedInv
<1>10. /\ \A d \in Clients : Excused(d) \subseteq Excused(d)'
       /\ \A d \in Clients : Over(d) => n \in Excused(d)'
  BY <1>7, <1>8, ExcusesGrow DEF Excused
<1>11. SeenInv'
  <2> SUFFICES ASSUME NEW d \in Clients PROVE SeenOK(feed[d], client[d], Excused(d)', base)
    BY <1>2 DEF SeenInv
  <2>1. SeenOK(feed[d], client[d], Excused(d), base)
    BY <1>1 DEF SeenInv
  <2>2. /\ base \in Int /\ base <= base /\ Excused(d) \subseteq Excused(d)'
        /\ client[d].from \in Int /\ client[d].wire \in Seq(Packets)
    BY <1>3, <1>10 DEF ClientStates
  <2> QED
    BY <2>1, <2>2, MoreIsExcused
<1>12. PathsInv'
  <2> SUFFICES ASSUME NEW g \in Handlers, client[conn'[g].client].h = g
               PROVE  PathOK(conn'[g], Known(conn[g].client)', base, n)
    BY <1>2 DEF PathsInv, Attached
  <2>1. PICK d \in Clients : d = conn[g].client
    BY <1>3 DEF Conns
  <2>2. HandlerOK(conn[g], base, seq) /\ conn[g] \in Conns /\ conn[g].chan \in Seq(Nat)
    BY <1>1, <1>3 DEF HandlersInv, Conns
  <2>3. /\ conn'[g].client = d /\ conn'[g].pc = conn[g].pc
        /\ conn'[g].lastEventID = conn[g].lastEventID
        /\ conn'[g].todo = conn[g].todo /\ conn'[g].lastSent = conn[g].lastSent
        /\ IsSubscribed(g) => conn'[g].chan = Offer(conn[g].chan)
        /\ ~IsSubscribed(g) => conn'[g].chan = conn[g].chan
    <3> DEFINE s == Offer(conn[g].chan)
    <3>1. conn'[g] = IF IsSubscribed(g) THEN [conn[g] EXCEPT !.chan = s] ELSE conn[g]
      BY <1>2
    <3> HIDE DEF s
    <3>2. CASE IsSubscribed(g)
      <4>1. conn'[g] = [conn[g] EXCEPT !.chan = s]
        BY <3>1, <3>2
      <4> QED
        BY <2>1, <2>2, <3>2, <4>1 DEF Conns, s
    <3>3. CASE ~IsSubscribed(g)
      BY <2>1, <3>1, <3>3
    <3> QED
      BY <3>2, <3>3
  <2>4. PathOK(conn[g], Known(d), base, seq)
    BY <1>1, <2>1, <2>3 DEF PathsInv, Attached
  <2>5. Known(d) \subseteq Known(d)'
    BY <1>2, <1>10 DEF Known
  <2>6. Known(conn[g].client)' = Known(d)'
    BY <2>3 DEF Known, Excused
  <2>7. PathOK(conn[g], Known(d)', base, seq)
    BY <2>4, <2>5, MoreIsKnown
  <2>8. ToSet(conn[g].chan) \subseteq ToSet(conn'[g].chan)
    BY <1>5, <2>2, <2>3
  <2>9. Begun(conn[g]) => n \in Known(d)' \cup ToSet(conn'[g].chan)
    <3> SUFFICES ASSUME Begun(conn[g]) PROVE n \in Known(d)' \cup ToSet(conn'[g].chan)
      OBVIOUS
    <3>1. IsSubscribed(g)
      BY DEF Begun, IsSubscribed, Subscribed
    <3>2. CASE Full(conn[g].chan)
      <4>1. Over(d)
        BY <2>1, <3>1, <3>2 DEF Over
      <4> QED
        BY <1>10, <4>1 DEF Known
    <3>3. CASE ~Full(conn[g].chan)
      BY <1>5, <2>2, <2>3, <3>1, <3>3
    <3> QED
      BY <3>2, <3>3
  <2>10. Begun(conn'[g]) <=> Begun(conn[g])
    BY <2>3 DEF Begun
  <2>11. PathOK(conn'[g], Known(d)', base, n)
    BY <1>4, <2>3, <2>7, <2>8, <2>9, <2>10 DEF PathOK
  <2> QED
    BY <2>6, <2>11
<1> QED
  BY <1>6, <1>9, <1>11, <1>12 DEF HolesInv

LEMMA DialKeepsHoles ==
  ASSUME OrderInv, HolesInv, NEW c \in Clients, Dial(c)
  PROVE  HolesInv'
<1> DEFINE e == FreeHandler
           q == [client[c] EXCEPT !.pc = "waiting", !.h = e]
<1>1. /\ ArchiveInv /\ MissedInv /\ SeenInv /\ PathsInv
      /\ conn \in [Handlers -> Conns] /\ client \in [Clients -> ClientStates]
  BY DEF HolesInv, OrderInv, Types
<1>2. /\ conn' = [conn EXCEPT ![e] = [FreeConn(c) EXCEPT !.pc = "arrived",
                                                        !.lastEventID = client[c].lastSeq]]
      /\ client' = [client EXCEPT ![c] = q]
      /\ UNCHANGED <<feed, base, seq, ring, recorder, gone, missed>>
  BY DEF Dial
<1>3. e \in Handlers
  BY DEF Dial, FreeHandler
<1> HIDE DEF e
<1>4. /\ conn'[e].pc = "arrived" /\ conn'[e].todo = <<>>
      /\ \A g \in Handlers \ {e} : conn'[g] = conn[g]
  BY <1>1, <1>2, <1>3 DEF FreeConn
<1>5. /\ q.h = e /\ q.wire = client[c].wire /\ q.from = client[c].from
      /\ q.lastSeq = client[c].lastSeq
  BY <1>1 DEF ClientStates
<1> HIDE DEF q
<1>6. client'[c] = q /\ \A d \in Clients \ {c} : client'[d] = client[d]
  BY <1>1, <1>2
<1>7. \A d \in Clients : Excused(d)' = Excused(d) /\ Known(d)' = Known(d)
  BY <1>2, <1>5, <1>6 DEF Excused, Known, Got
<1>8. SeenInv'
  <2> SUFFICES ASSUME NEW d \in Clients PROVE SeenOK(feed[d], client'[d], Excused(d), base)
    BY <1>2, <1>7 DEF SeenInv
  <2>1. SeenOK(feed[d], client[d], Excused(d), base)
    BY <1>1 DEF SeenInv
  <2>2. CASE d = c
    BY <1>5, <1>6, <2>1, <2>2 DEF SeenOK, Got
  <2> QED
    BY <1>6, <2>1, <2>2
<1>9. PathsInv'
  <2> SUFFICES ASSUME NEW g \in Handlers, client'[conn'[g].client].h = g
               PROVE  PathOK(conn'[g], Known(conn[g].client)', base, seq)
    BY <1>2 DEF PathsInv, Attached
  <2>1. CASE g = e
    BY <1>4, <2>1, ElementsOfEmpty DEF PathOK, Begun
  <2>2. CASE g /= e
    <3>1. PICK d \in Clients : d = conn[g].client
      BY <1>1 DEF Conns
    <3>2. conn'[g] = conn[g] /\ client'[d].h = g
      BY <1>4, <2>2, <3>1
    <3>3. client[d].h = g
      BY <1>5, <1>6, <2>2, <3>2
    <3>4. PathOK(conn[g], Known(d), base, seq)
      BY <1>1, <3>1, <3>3 DEF PathsInv, Attached
    <3>5. Known(conn[g].client)' = Known(d)'
      BY <3>1, <3>2 DEF Known, Excused
    <3> QED
      BY <1>7, <3>2, <3>4, <3>5
  <2> QED
    BY <2>1, <2>2
<1>10. ArchiveInv' /\ MissedInv'
  BY <1>1, <1>2 DEF ArchiveInv, MissedInv
<1> QED
  BY <1>8, <1>9, <1>10 DEF HolesInv

\* Whatever a client has not got of the former server is gone.
LEMMA RestartKeepsHoles ==
  ASSUME OrderInv, HolesInv, Restart
  PROVE  HolesInv'
<1>1. /\ ArchiveInv /\ MissedInv /\ SeenInv
      /\ conn \in [Handlers -> Conns] /\ client \in [Clients -> ClientStates]
      /\ base \in Nat /\ seq \in Nat /\ base <= seq
  BY DEF HolesInv, OrderInv, Types
<1>2. /\ base' = seq /\ gone' = 1..seq
      /\ conn' = [h \in Handlers |-> FreeConn(conn[h].client)]
      /\ client' = [c \in Clients |-> [client[c] EXCEPT !.h = NoHandler]]
      /\ UNCHANGED <<seq, feed, missed>>
  BY DEF Restart
<1>3. ArchiveInv' /\ MissedInv'
  BY <1>1, <1>2 DEF ArchiveInv, MissedInv
<1>4. ASSUME NEW d \in Clients
      PROVE  client'[d].h = NoHandler /\ SeenOK(feed[d], client'[d], Excused(d), seq)
  <2> DEFINE q == [client[d] EXCEPT !.h = NoHandler]
  <2>1. /\ q.h = NoHandler /\ q.wire = client[d].wire /\ q.from = client[d].from
        /\ q.lastSeq = client[d].lastSeq /\ client'[d] = q
    BY <1>1, <1>2 DEF ClientStates
  <2> HIDE DEF q
  <2>2. SeenOK(feed[d], client[d], Excused(d), base)
    BY <1>1 DEF SeenInv
  <2>3. client[d].from \in Int /\ client[d].wire \in Seq(Packets)
    BY <1>1 DEF ClientStates
  <2>4. SeenOK(feed[d], client[d], Excused(d), seq)
    BY <1>1, <2>2, <2>3, MoreIsExcused
  <2>5. SeenOK(feed[d], q, Excused(d), seq)
    BY <2>1, <2>4 DEF SeenOK, Got
  <2> QED
    BY <2>1, <2>5
<1>5. SeenInv'
  BY <1>2, <1>4 DEF SeenInv, Excused
<1>6. PathsInv'
  <2> SUFFICES ASSUME NEW h \in Handlers PROVE client'[conn'[h].client].h /= h
    BY DEF PathsInv, Attached
  <2>1. conn'[h].client \in Clients
    BY <1>1, <1>2 DEF FreeConn, Conns
  <2> QED
    BY <1>4, <2>1, HandlersAssumption
<1> QED
  BY <1>3, <1>5, <1>6 DEF HolesInv

LEMMA HolesAtFirst == Init => HolesInv
<1> SUFFICES ASSUME Init PROVE HolesInv
  OBVIOUS
<1> DEFINE q == [pc |-> "dialing", h |-> NoHandler, wire |-> <<>>, lastSeq |-> 0, from |-> 0,
                 connected |-> FALSE, lostEmitted |-> FALSE]
<1>1. /\ seq = 0 /\ base = 0 /\ gone = {} /\ client = [c \in Clients |-> q]
      /\ missed = [c \in Clients |-> [k \in Causes |-> {}]]
      /\ feed = [c \in Clients |-> <<>>]
  BY DEF Init
<1>2. q.h = NoHandler /\ q.wire = <<>> /\ q.lastSeq = 0 /\ q.from = 0
  OBVIOUS
<1> HIDE DEF q
<1>3. ArchiveInv /\ MissedInv
  BY <1>1 DEF ArchiveInv, MissedInv
<1>4. ASSUME NEW c \in Clients PROVE SeenOK(feed[c], client[c], Excused(c), base)
  <2>1. Got(feed[c], client[c]) = {}
    BY <1>1, <1>2, ElementsOfEmpty, EmptyWire DEF Got
  <2> QED
    BY <1>1, <1>2, <2>1, ElementsOfEmpty DEF SeenOK
<1>5. PathsInv
  <2> SUFFICES ASSUME NEW h \in Handlers PROVE ~Attached(h)
    BY DEF PathsInv
  <2>1. conn[h].client \in Clients
    BY OrderAtFirst DEF OrderInv, Types, Conns
  <2> QED
    BY <1>1, <1>2, <2>1, HandlersAssumption DEF Attached
<1> QED
  BY <1>3, <1>4, <1>5 DEF HolesInv, SeenInv

LEMMA HolesAreKept == OrderInv /\ HolesInv /\ [Next]_vars => HolesInv'
<1> SUFFICES ASSUME OrderInv, HolesInv, [Next]_vars PROVE HolesInv'
  OBVIOUS
<1>1. CASE Broadcast
  BY <1>1, BroadcastKeepsHoles
<1>2. CASE Recorder
  <2>1. CASE RecorderSubscribes
    BY <2>1, NothingIsForgotten DEF RecorderSubscribes, clientVars
  <2> QED
    BY <1>2, <2>1, RecordKeepsHoles DEF Recorder
<1>3. CASE Restart
  BY <1>3, RestartKeepsHoles
<1>4. ASSUME NEW h \in Handlers, Serve(h) PROVE HolesInv'
  <2>1. PICK c \in Clients : c = conn[h].client
    BY HandlerFacts
  <2> QED
    BY <1>4, <2>1, QuietKeepsHoles, SubscribeKeepsHoles, ResumeKeepsHoles,
       ReplayKeepsHoles, ForwardKeepsHoles DEF Serve
<1>5. ASSUME NEW c \in Clients, EventLoop(c) \/ DialFails(c) \/ Cut(c) PROVE HolesInv'
  BY <1>5, DialKeepsHoles, ReceiveKeepsHoles, ClientKeepsHoles DEF EventLoop
<1>6. CASE UNCHANGED vars
  BY <1>6, NothingIsForgotten DEF vars
<1> QED
  BY <1>1, <1>2, <1>3, <1>4, <1>5, <1>6 DEF Next

\* An event that a later one overtook on its way to a client is one the client
\* is known to have missed, and why: nothing falls between the replay and the
\* subscription of sse.go, or off a connection that breaks.
THEOREM HolesAdmitted == Spec => []HolesAreAdmitted
<1>1. OrderInv /\ HolesInv => HolesAreAdmitted
  <2> SUFFICES ASSUME OrderInv, HolesInv, NEW c \in Clients, NEW n \in Ids,
                      n \notin ToSet(feed[c]), NEW m \in ToSet(feed[c]), n < m
               PROVE  n \in Excused(c)
    BY DEF HolesAreAdmitted, Overtaken, Excused
  <2>1. /\ SeenOK(feed[c], client[c], Excused(c), base)
        /\ ClientOK(feed[c], client[c], base, seq) /\ feed[c] \in Seq(Nat)
    BY ClientHoles
  <2>2. m \in Nat /\ n \in 1..m
    BY <2>1, ElementsAreTyped DEF Ids
  <2>3. n \in Got(feed[c], client[c]) \cup Excused(c)
    BY <2>1, <2>2 DEF SeenOK, Got
  <2>4. \A x \in WireIds(client[c].wire) : m < x
    BY <2>1 DEF ClientOK, Below
  <2>5. n \notin WireIds(client[c].wire)
    BY <2>2, <2>4
  <2> QED
    BY <2>3, <2>5 DEF Got
<1> QED
  BY <1>1, OrderAtFirst, OrderIsKept, HolesAtFirst, HolesAreKept, PTL DEF Spec
----------------------------------------------------------------------------
(* Types.  The order and the holes bound what is in the channels, the ring *)
(* and the histories; the numbers that a handler and a client remember are *)
(* numbers of events, and on the wire no event has a number above its id.  *)

Honest == {p \in Packet : p.seq <= p.id}
HandlerNumbers(r) == r.lastEventID \in 0..MaxEvents /\ r.lastSent \in 0..MaxEvents
ClientNumbers(q) == /\ q.wire \in Seq(Honest)
                    /\ q.lastSeq \in 0..MaxEvents /\ q.from \in 0..MaxEvents
Numbers ==
  /\ seq <= MaxEvents /\ recording \in BOOLEAN
  /\ cuts \in 0..MaxCuts /\ restarts \in 0..MaxRestarts
  /\ \A h \in Handlers : HandlerNumbers(conn[h])
  /\ \A c \in Clients : ClientNumbers(client[c]) /\ feed[c] \in Seq(Ids)

\* A sequence of events that have been broadcast is a sequence of ids.
LEMMA CurrentIds ==
  ASSUME NEW s \in Seq(Nat), NEW b \in Nat, NEW n \in Nat, n <= MaxEvents, Current(s, b, n)
  PROVE  s \in Seq(Ids)
<1>1. \A m \in ToSet(s) : m \in Ids
  BY BoundsAssumption DEF Current, Ids
<1>2. \A i \in 1..Len(s) : s[i] \in Ids
  BY <1>1 DEF ToSet
<1> QED
  BY <1>2

\* One handler and one client move; what they remember afterwards is bounded too.
LEMMA OneKeepsNumbers ==
  ASSUME OrderInv, Numbers, NEW h \in Handlers, NEW c \in Clients,
         \A g \in Handlers : conn'[g] = conn[g] \/ (g = h /\ HandlerNumbers(conn'[g])),
         \A d \in Clients : client'[d] = client[d] \/ (d = c /\ ClientNumbers(client'[d])),
         UNCHANGED <<seq, recording, feed, restarts>>, cuts' \in 0..MaxCuts
  PROVE  Numbers'
<1>1. \A g \in Handlers : HandlerNumbers(conn[g])' <=> HandlerNumbers(conn'[g])
  BY DEF HandlerNumbers
<1>2. \A d \in Clients : ClientNumbers(client[d])' <=> ClientNumbers(client'[d])
  BY DEF ClientNumbers
<1>3. \A g \in Handlers : HandlerNumbers(conn[g])'
  BY <1>1 DEF Numbers
<1>4. \A d \in Clients : ClientNumbers(client[d])'
  BY <1>2 DEF Numbers
<1> QED
  BY <1>3, <1>4 DEF Numbers

\* Steps of a handler that write nothing.
LEMMA QuietKeepsNumbers ==
  ASSUME OrderInv, Numbers, NEW h \in Handlers,
         Count(h) \/ Refuse(h) \/ Leave(h) \/ Subscribe(h) \/ Resume(h) \/ GoLive(h)
  PROVE  Numbers'
<1> DEFINE c == conn[h].client
<1>1. /\ c \in Clients /\ conn \in [Handlers -> Conns] /\ client \in [Clients -> ClientStates]
      /\ conn[h] \in Conns /\ client[c] \in ClientStates
  BY HandlerFacts
<1>2. HandlerNumbers(conn[h]) /\ ClientNumbers(client[c])
  BY <1>1 DEF Numbers
<1>3. UNCHANGED <<seq, recording, feed, restarts, cuts>> /\ cuts \in 0..MaxCuts
  BY DEF Numbers, Count, Refuse, Leave, Subscribe, Resume, GoLive, clientVars
<1>4. HandlerNumbers(FreeConn(c))
  BY BoundsAssumption DEF HandlerNumbers, FreeConn
<1>5. \A g \in Handlers : conn'[g] = conn[g] \/ (g = h /\ HandlerNumbers(conn'[g]))
  <2>1. CASE Count(h) \/ Subscribe(h) \/ GoLive(h)
    <3>1. PICK p : conn' = [conn EXCEPT ![h].pc = p]
      BY <2>1 DEF Count, Subscribe, GoLive, Goto
    <3>2. conn'[h].lastEventID = conn[h].lastEventID /\ conn'[h].lastSent = conn[h].lastSent
      BY <1>1, <3>1 DEF Conns
    <3> QED
      BY <1>1, <1>2, <3>1, <3>2 DEF HandlerNumbers
  <2>2. CASE Resume(h)
    <3>1. PICK t : conn' = [conn EXCEPT ![h].pc = "replaying", ![h].todo = t]
      BY <2>2 DEF Resume
    <3>2. conn'[h].lastEventID = conn[h].lastEventID /\ conn'[h].lastSent = conn[h].lastSent
      BY <1>1, <3>1 DEF Conns
    <3> QED
      BY <1>1, <1>2, <3>1, <3>2 DEF HandlerNumbers
  <2>3. CASE Refuse(h) \/ Leave(h)
    BY <1>1, <1>4, <2>3 DEF Refuse, Leave, Close
  <2> QED
    BY <2>1, <2>2, <2>3
<1>6. \A d \in Clients : client'[d] = client[d] \/ (d = c /\ ClientNumbers(client'[d]))
  <2>1. CASE client' = client
    BY <2>1
  <2>2. CASE client' = [client EXCEPT ![c].h = NoHandler]
    BY <1>1, <1>2, <2>2 DEF ClientStates, ClientNumbers
  <2>3. CASE client' = [client EXCEPT ![c].pc = "reading", ![c].connected = TRUE]
    BY <1>1, <1>2, <2>3 DEF ClientStates, ClientNumbers
  <2> QED
    BY <2>1, <2>2, <2>3 DEF Count, Refuse, Leave, Subscribe, Resume, GoLive, HangUp, clientVars
<1> QED
  BY <1>1, <1>3, <1>5, <1>6, OneKeepsNumbers

\* An event of this server that is written goes out under its own number.
LEMMA WritingKeepsNumbers ==
  ASSUME OrderInv, Numbers, NEW h \in Handlers, NEW n \in (base + 1)..seq, Write(h, n),
         NEW r, HandlerNumbers(r), conn' = [conn EXCEPT ![h] = r],
         UNCHANGED <<seq, recording, feed, cuts, restarts>>
  PROVE  Numbers'
<1> DEFINE c == conn[h].client
           p == [id |-> n, seq |-> n - base]
<1>1. /\ c \in Clients /\ conn \in [Handlers -> Conns] /\ client \in [Clients -> ClientStates]
      /\ client[c] \in ClientStates /\ base \in Nat /\ seq \in Nat
  BY HandlerFacts
<1>2. ClientNumbers(client[c]) /\ seq <= MaxEvents /\ cuts \in 0..MaxCuts
  BY <1>1 DEF Numbers
<1>3. n \in Ids /\ n - base \in Ids /\ n - base <= n
  BY <1>1, <1>2, BoundsAssumption DEF Ids
<1>4. p \in Honest
  BY <1>3 DEF Honest, Packet
<1>5. \A g \in Handlers : conn'[g] = conn[g] \/ (g = h /\ HandlerNumbers(conn'[g]))
  BY <1>1
<1>6. client' = client \/ client' = [client EXCEPT ![c].wire = Append(@, p)]
  BY DEF Write
<1> HIDE DEF p
<1>7. \A d \in Clients : client'[d] = client[d] \/ (d = c /\ ClientNumbers(client'[d]))
  <2>1. Append(client[c].wire, p) \in Seq(Honest)
    BY <1>2, <1>4 DEF ClientNumbers
  <2> QED
    BY <1>1, <1>2, <1>6, <2>1 DEF ClientStates, ClientNumbers
<1> QED
  BY <1>1, <1>2, <1>5, <1>7, OneKeepsNumbers

LEMMA ReplayKeepsNumbers ==
  ASSUME OrderInv, Numbers, NEW h \in Handlers, Replay(h)
  PROVE  Numbers'
<1> DEFINE n == Head(conn[h].todo)
           t == Tail(conn[h].todo)
           l == n - base
<1>1. /\ conn[h] \in Conns /\ base \in Nat /\ seq \in Nat /\ HandlerOK(conn[h], base, seq)
      /\ HandlerNumbers(conn[h]) /\ seq <= MaxEvents
  BY HandlerFacts DEF Numbers
<1>2. conn[h].todo \in Seq(Nat) /\ conn[h].todo /= <<>> /\ Current(conn[h].todo, base, seq)
  BY <1>1 DEF Replay, Conns, HandlerOK
<1>3. n \in (base + 1)..seq
  BY <1>2, ElementsOfTail DEF Current
<1>4. l \in 0..MaxEvents
  BY <1>1, <1>3, BoundsAssumption
<1>5. /\ conn' = [conn EXCEPT ![h].todo = t, ![h].lastSent = l]
      /\ Write(h, n) /\ UNCHANGED <<seq, recording, feed, cuts, restarts>>
  BY DEF Replay
<1> HIDE DEF n, t, l
<1>6. PICK r : r = [conn[h] EXCEPT !.todo = t, !.lastSent = l]
  OBVIOUS
<1>7. HandlerNumbers(r)
  BY <1>1, <1>4, <1>6 DEF Conns, HandlerNumbers
<1>8. conn' = [conn EXCEPT ![h] = r]
  BY <1>5, <1>6
<1> QED
  BY <1>3, <1>5, <1>7, <1>8, WritingKeepsNumbers

LEMMA ForwardKeepsNumbers ==
  ASSUME OrderInv, Numbers, NEW h \in Handlers, Forward(h)
  PROVE  Numbers'
<1> DEFINE n == Head(conn[h].chan)
           t == Tail(conn[h].chan)
           l == n - base
<1>1. /\ conn[h] \in Conns /\ base \in Nat /\ seq \in Nat /\ HandlerOK(conn[h], base, seq)
      /\ HandlerNumbers(conn[h]) /\ seq <= MaxEvents /\ cuts \in 0..MaxCuts
      /\ conn[h].client \in Clients /\ conn \in [Handlers -> Conns]
  BY HandlerFacts DEF Numbers
<1>2. conn[h].chan \in Seq(Nat) /\ conn[h].chan /= <<>> /\ Current(conn[h].chan, base, seq)
  BY <1>1 DEF Forward, Conns, HandlerOK
<1>3. n \in (base + 1)..seq
  BY <1>2, ElementsOfTail DEF Current
<1>4. l \in 0..MaxEvents
  BY <1>1, <1>3, BoundsAssumption
<1>5. /\ UNCHANGED <<seq, recording, feed, cuts, restarts>>
      /\ \/ conn' = [conn EXCEPT ![h].chan = t] /\ UNCHANGED client
         \/ conn' = [conn EXCEPT ![h].chan = t, ![h].lastSent = l] /\ Write(h, n)
  BY DEF Forward
<1> HIDE DEF n, t, l
<1>6. CASE conn' = [conn EXCEPT ![h].chan = t] /\ UNCHANGED client
  <2>1. \A g \in Handlers : conn'[g] = conn[g] \/ (g = h /\ HandlerNumbers(conn'[g]))
    BY <1>1, <1>6 DEF Conns, HandlerNumbers
  <2> QED
    BY <1>1, <1>5, <1>6, <2>1, OneKeepsNumbers
<1>7. CASE conn' = [conn EXCEPT ![h].chan = t, ![h].lastSent = l] /\ Write(h, n)
  <2>1. PICK r : r = [conn[h] EXCEPT !.chan = t, !.lastSent = l]
    OBVIOUS
  <2>2. HandlerNumbers(r)
    BY <1>1, <1>4, <2>1 DEF Conns, HandlerNumbers
  <2>3. conn' = [conn EXCEPT ![h] = r]
    BY <1>7, <2>1
  <2> QED
    BY <1>3, <1>5, <1>7, <2>2, <2>3, WritingKeepsNumbers
<1> QED
  BY <1>5, <1>6, <1>7

\* Steps of a client that read nothing.
LEMMA ClientKeepsNumbers ==
  ASSUME OrderInv, Numbers, NEW c \in Clients,
         DialFails(c) \/ Disconnect(c) \/ EmitLost(c) \/ EmitRestored(c) \/ Cut(c)
  PROVE  Numbers'
<1>1. client[c] \in ClientStates /\ client \in [Clients -> ClientStates]
  BY ClientFacts
<1>2. ClientNumbers(client[c]) /\ cuts \in 0..MaxCuts
  BY DEF Numbers
<1>3. UNCHANGED <<conn, seq, recording, feed, restarts>>
  BY DEF DialFails, Disconnect, EmitLost, EmitRestored, Cut, serverVars
<1>4. cuts' \in 0..MaxCuts
  BY <1>2, BoundsAssumption DEF DialFails, Disconnect, EmitLost, EmitRestored, Cut
<1>5. ClientNumbers([client[c] EXCEPT !.wire = <<>>])
  BY <1>1, <1>2 DEF ClientStates, ClientNumbers
<1>6. \A d \in Clients : client'[d] = client[d] \/ (d = c /\ ClientNumbers(client'[d]))
  <2>1. CASE DialFails(c)
    BY <1>1, <1>2, <2>1 DEF DialFails, ClientStates, ClientNumbers
  <2>2. CASE Disconnect(c)
    BY <1>1, <1>2, <2>2 DEF Disconnect, ClientStates, ClientNumbers
  <2>3. CASE EmitLost(c)
    BY <1>1, <1>2, <2>3 DEF EmitLost, ClientStates, ClientNumbers
  <2>4. CASE EmitRestored(c)
    BY <1>1, <1>2, <2>4 DEF EmitRestored, ClientStates, ClientNumbers
  <2>5. CASE Cut(c)
    BY <1>1, <1>2, <2>5 DEF Cut, ClientStates, ClientNumbers
  <2> QED
    BY <2>1, <2>2, <2>3, <2>4, <2>5
<1>7. \A g \in Handlers : conn'[g] = conn[g] /\ HandlerNumbers(conn[g])
  BY <1>3 DEF Numbers
<1>8. CASE Handlers = {}
  BY <1>3, <1>4, <1>6, <1>8 DEF Numbers, ClientNumbers
<1>9. CASE Handlers /= {}
  BY <1>3, <1>4, <1>6, <1>7, <1>9, OneKeepsNumbers
<1> QED
  BY <1>8, <1>9

\* The number a client remembers, and the server it had it from, come off one packet.
LEMMA ReceiveKeepsNumbers ==
  ASSUME OrderInv, Numbers, NEW c \in Clients, Receive(c) \/ Skip(c)
  PROVE  Numbers'
<1> DEFINE p == Head(client[c].wire)
           t == Tail(client[c].wire)
<1>1. client[c] \in ClientStates /\ client \in [Clients -> ClientStates]
      /\ feed \in [Clients -> Seq(Nat)]
  BY ClientFacts
<1>2. Numbers /\ ClientNumbers(client[c]) /\ feed[c] \in Seq(Ids)
  BY DEF Numbers
<1>3. p \in Honest /\ t \in Seq(Honest)
  <2>1. client[c].wire \in Seq(Honest) /\ client[c].wire /= <<>>
    BY <1>2 DEF Receive, Skip, ClientNumbers
  <2> QED
    BY <2>1
<1>4. p.id \in Ids /\ p.seq \in 0..MaxEvents /\ p.id - p.seq \in 0..MaxEvents
  <2>1. p \in Packet /\ p.seq <= p.id
    BY <1>3 DEF Honest
  <2> HIDE DEF p
  <2>2. p.id \in 1..MaxEvents /\ p.seq \in 1..MaxEvents
    BY <2>1 DEF Packet, Ids
  <2> QED
    BY <2>1, <2>2, BoundsAssumption DEF Ids
<1>5. PICK l, f : /\ l \in {client[c].lastSeq, p.seq} /\ f \in {client[c].from, p.id - p.seq}
                  /\ client' = [client EXCEPT ![c].wire = t, ![c].lastSeq = l, ![c].from = f]
  <2>1. CASE Receive(c)
    BY <2>1 DEF Receive
  <2>2. CASE Skip(c)
    <3>1. client' = [client EXCEPT ![c].wire = t, ![c].lastSeq = client[c].lastSeq,
                                   ![c].from = client[c].from]
      BY <1>1, <2>2 DEF Skip, ClientStates
    <3> QED
      BY <3>1
  <2> QED
    BY <2>1, <2>2
<1>6. feed' = feed \/ feed' = [feed EXCEPT ![c] = Append(@, p.id)]
  BY DEF Receive, Skip
<1>7. UNCHANGED <<conn, seq, recording, cuts, restarts>>
  BY DEF Receive, Skip, serverVars
<1> HIDE DEF p, t
<1>8. l \in 0..MaxEvents /\ f \in 0..MaxEvents
  BY <1>2, <1>4, <1>5 DEF ClientNumbers
<1>9. ASSUME NEW d \in Clients PROVE ClientNumbers(client[d])' /\ feed'[d] \in Seq(Ids)
  <2>1. CASE d = c
    <3>1. client'[c].wire = t /\ client'[c].lastSeq = l /\ client'[c].from = f
      BY <1>1, <1>5 DEF ClientStates
    <3>2. Append(feed[c], p.id) \in Seq(Ids)
      BY <1>2, <1>4
    <3>3. feed'[c] \in Seq(Ids)
      BY <1>1, <1>2, <1>6, <3>2
    <3> QED
      BY <1>3, <1>8, <2>1, <3>1, <3>3 DEF ClientNumbers
  <2>2. CASE d /= c
    BY <1>1, <1>2, <1>5, <1>6, <2>2 DEF Numbers, ClientNumbers
  <2> QED
    BY <2>1, <2>2
<1>10. /\ seq' <= MaxEvents /\ recording' \in BOOLEAN
       /\ cuts' \in 0..MaxCuts /\ restarts' \in 0..MaxRestarts
  BY <1>2, <1>7 DEF Numbers
<1>11. \A h \in Handlers : HandlerNumbers(conn[h])'
  BY <1>2, <1>7 DEF Numbers, HandlerNumbers
<1> QED
  BY <1>9, <1>10, <1>11 DEF Numbers

LEMMA DialKeepsNumbers ==
  ASSUME OrderInv, Numbers, NEW c \in Clients, Dial(c)
  PROVE  Numbers'
<1>1. /\ client[c] \in ClientStates /\ client \in [Clients -> ClientStates]
      /\ conn \in [Handlers -> Conns]
  BY ClientFacts DEF OrderInv, Types
<1>2. ClientNumbers(client[c]) /\ cuts \in 0..MaxCuts
  BY DEF Numbers
<1>3. PICK h \in Handlers : h = FreeHandler
  BY DEF Dial, FreeHandler
<1>4. PICK r : r = [FreeConn(c) EXCEPT !.pc = "arrived", !.lastEventID = client[c].lastSeq]
  OBVIOUS
<1>5. /\ conn' = [conn EXCEPT ![h] = r]
      /\ client' = [client EXCEPT ![c].pc = "waiting", ![c].h = h]
      /\ UNCHANGED <<seq, recording, feed, cuts, restarts>>
  BY <1>3, <1>4 DEF Dial
<1>6. HandlerNumbers(r)
  BY <1>2, <1>4, BoundsAssumption DEF FreeConn, HandlerNumbers, ClientNumbers
<1>7. \A g \in Handlers : conn'[g] = conn[g] \/ (g = h /\ HandlerNumbers(conn'[g]))
  BY <1>1, <1>5, <1>6
<1>8. \A d \in Clients : client'[d] = client[d] \/ (d = c /\ ClientNumbers(client'[d]))
  BY <1>1, <1>2, <1>5 DEF ClientStates, ClientNumbers
<1> QED
  BY <1>2, <1>5, <1>7, <1>8, OneKeepsNumbers

\* Steps of all handlers at once.
LEMMA ServerKeepsNumbers ==
  ASSUME OrderInv, Numbers, Broadcast \/ Recorder \/ Restart
  PROVE  Numbers'
<1>1. /\ conn \in [Handlers -> Conns] /\ client \in [Clients -> ClientStates]
      /\ seq \in Nat /\ Numbers
  BY DEF OrderInv, Types
<1>2. /\ seq' <= MaxEvents /\ recording' \in BOOLEAN
      /\ cuts' \in 0..MaxCuts /\ restarts' \in 0..MaxRestarts
  <2>1. seq <= MaxEvents /\ cuts \in 0..MaxCuts /\ restarts \in 0..MaxRestarts
    BY <1>1 DEF Numbers
  <2>2. seq' = seq \/ (seq < MaxEvents /\ seq' = seq + 1)
    BY DEF Broadcast, Recorder, RecorderSubscribes, Record, Restart
  <2>3. cuts' = cuts /\ (restarts' = restarts \/ (restarts < MaxRestarts /\ restarts' = restarts + 1))
    BY DEF Broadcast, Recorder, RecorderSubscribes, Record, Restart
  <2>4. recording' \in BOOLEAN
    BY <1>1 DEF Numbers, Broadcast, Recorder, RecorderSubscribes, Record, Restart
  <2> QED
    BY <1>1, <2>1, <2>2, <2>3, <2>4, BoundsAssumption
<1>3. ASSUME NEW h \in Handlers PROVE HandlerNumbers(conn[h])'
  <2>1. HandlerNumbers(conn[h]) /\ conn[h] \in Conns
    BY <1>1 DEF Numbers
  <2>2. CASE conn'[h] = conn[h]
    BY <2>1, <2>2 DEF HandlerNumbers
  <2>3. CASE \E ch : conn'[h] = [conn[h] EXCEPT !.chan = ch]
    BY <2>1, <2>3 DEF Conns, HandlerNumbers
  <2>4. CASE conn'[h] = FreeConn(conn[h].client)
    BY <2>4, BoundsAssumption DEF FreeConn, HandlerNumbers
  <2> QED
    BY <2>2, <2>3, <2>4 DEF Broadcast, Recorder, RecorderSubscribes, Record, Restart
<1>4. ASSUME NEW c \in Clients PROVE ClientNumbers(client[c])' /\ feed'[c] \in Seq(Ids)
  <2>1. /\ ClientNumbers(client[c]) /\ client[c] \in ClientStates
        /\ feed[c] \in Seq(Ids) /\ feed' = feed
    BY <1>1 DEF Numbers, Broadcast, Recorder, RecorderSubscribes, Record, Restart, clientVars
  <2>2. CASE client'[c] = client[c]
    BY <2>1, <2>2 DEF ClientNumbers
  <2>3. CASE client'[c] = [client[c] EXCEPT !.h = NoHandler]
    BY <2>1, <2>3 DEF ClientStates, ClientNumbers
  <2> QED
    BY <2>1, <2>2, <2>3
       DEF Broadcast, Recorder, RecorderSubscribes, Record, Restart, clientVars
<1> QED
  BY <1>2, <1>3, <1>4 DEF Numbers

LEMMA NumbersAtFirst == Init => Numbers
<1> SUFFICES ASSUME Init PROVE Numbers
  OBVIOUS
<1>1. \A h \in Handlers : HandlerNumbers(conn[h])
  BY BoundsAssumption DEF Init, FreeConn, HandlerNumbers
<1>2. \A c \in Clients : ClientNumbers(client[c]) /\ feed[c] \in Seq(Ids)
  <2> SUFFICES ASSUME NEW c \in Clients PROVE ClientNumbers(client[c]) /\ feed[c] \in Seq(Ids)
    OBVIOUS
  <2>1. client[c].wire = <<>> /\ client[c].lastSeq = 0 /\ client[c].from = 0 /\ feed[c] = <<>>
    BY DEF Init
  <2> QED
    BY <2>1, BoundsAssumption DEF ClientNumbers
<1>3. seq = 0 /\ recording = FALSE /\ cuts = 0 /\ restarts = 0
  BY DEF Init
<1>4. seq <= MaxEvents /\ cuts \in 0..MaxCuts /\ restarts \in 0..MaxRestarts
  BY <1>3, BoundsAssumption
<1> QED
  BY <1>1, <1>2, <1>3, <1>4 DEF Numbers

LEMMA NumbersAreKept == OrderInv /\ Numbers /\ [Next]_vars => Numbers'
<1> SUFFICES ASSUME OrderInv, Numbers, [Next]_vars PROVE Numbers'
  OBVIOUS
<1>1. ASSUME NEW h \in Handlers, Serve(h) PROVE Numbers'
  BY <1>1, QuietKeepsNumbers, ReplayKeepsNumbers, ForwardKeepsNumbers DEF Serve
<1>2. ASSUME NEW c \in Clients, EventLoop(c) \/ DialFails(c) \/ Cut(c) PROVE Numbers'
  BY <1>2, DialKeepsNumbers, ReceiveKeepsNumbers, ClientKeepsNumbers DEF EventLoop
<1>3. CASE UNCHANGED vars
  BY <1>3 DEF vars, Numbers, HandlerNumbers, ClientNumbers
<1> QED
  BY <1>1, <1>2, <1>3, ServerKeepsNumbers DEF Next

\* Every channel, queue, counter and record of the stream, and the histories,
\* stay within their types: above all, what a client takes for the base of its
\* server (the id of a packet less its number) never is below 0, and sseConns
\* never falls below 0 or above the number of handlers.
THEOREM TypeCorrect == Spec => []TypeOK
<1>1. ASSUME OrderInv, ServedWithinLimit, HolesInv, Numbers PROVE TypeOK
  <2>1. /\ Types /\ RingInv /\ HandlersInv /\ Numbers /\ MissedInv
        /\ seq \in Nat /\ base \in Nat /\ base <= seq /\ seq <= MaxEvents
    BY <1>1 DEF OrderInv, HolesInv, Types, Numbers
  <2>2. seq \in 0..MaxEvents /\ base \in 0..seq /\ 1..seq \subseteq Ids
    BY <2>1, BoundsAssumption DEF Ids
  <2>3. recorder \in Seq(Ids) /\ ring \in Seq(Ids)
    BY <2>1, CurrentIds DEF Types, RingInv
  <2>4. ASSUME NEW h \in Handlers PROVE conn[h] \in ConnState
    <3>1. /\ conn[h] \in Conns /\ HandlerOK(conn[h], base, seq) /\ HandlerNumbers(conn[h])
      BY <2>1 DEF Types, HandlersInv, Numbers
    <3>2. conn[h].chan \in Seq(Ids) /\ conn[h].todo \in Seq(Ids)
      BY <2>1, <3>1, CurrentIds DEF HandlerOK, Conns
    <3> QED
      BY <3>1, <3>2 DEF Conns, ConnState, HandlerNumbers
  <2>5. ASSUME NEW c \in Clients PROVE client[c] \in ClientState
    <3>1. client[c] \in ClientStates /\ ClientNumbers(client[c])
      BY <2>1 DEF Types, Numbers
    <3>2. client[c].wire \in Seq(Packet)
      <4>1. Honest \subseteq Packet
        BY DEF Honest
      <4> QED
        BY <3>1, <4>1 DEF ClientNumbers
    <3> QED
      BY <3>1, <3>2 DEF ClientStates, ClientState, ClientNumbers
  <2>6. conn \in [Handlers -> ConnState] /\ client \in [Clients -> ClientState]
    BY <2>1, <2>4, <2>5 DEF Types
  <2>7. feed \in [Clients -> Seq(Ids)]
    BY <2>1 DEF Types, Numbers
  <2>8. sseConns \in 0..Cardinality(Handlers)
    <3>1. Counted \subseteq Handlers /\ sseConns = Cardinality(Counted)
      BY <1>1, LimitCounts DEF Counted
    <3> QED
      BY <3>1, SetsAreFinite, HandlersAssumption, FS_Subset, FS_CardinalityType
  <2>9. gone \subseteq Ids /\ missed \in [Clients -> [Causes -> SUBSET Ids]]
    BY <2>1, <2>2 DEF MissedInv
  <2> QED
    BY <2>1, <2>2, <2>3, <2>6, <2>7, <2>8, <2>9 DEF TypeOK, Numbers
<1> QED
  BY <1>1, OrderAtFirst, OrderIsKept, LimitAtFirst, LimitIsKept, HolesAtFirst, HolesAreKept,
     NumbersAtFirst, NumbersAreKept, PTL DEF Spec
=============================================================================
