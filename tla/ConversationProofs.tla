------------------------- MODULE ConversationProofs -------------------------
(***************************************************************************)
(* Proofs about Conversation, for any number of calls, replacements of the *)
(* operator, events and pieces of text: the label of a turn's text, the    *)
(* gate over the turns of the operator in office, and where each piece of  *)
(* text is on its way into the history.                                    *)
(***************************************************************************)
EXTENDS Conversation, FiniteSetTheorems, TLAPS

USE CallsAssumption, BoundsAssumption

----------------------------------------------------------------------------
(* The inductive invariant.                                                *)

SomeTexts == [n : Nat, turn : Turns, inTurn : BOOLEAN]
Loops == [pc : {"idle", "turn", "notice", "adding", "adding notice",
                "flush", "release", "record", "announce", "exited"},
          queue : Seq(Events), turn : Turns, activeTurn : Turns,
          buf : SUBSET SomeTexts, held : SUBSET SomeTexts]

Types ==
  /\ current \in Operators /\ (swap /= "no" => current <= MaxSwaps)
  /\ call \in [Calls -> CallState]
  /\ loop \in [Operators -> Loops]
  /\ finished \subseteq Calls
  /\ pending \subseteq SomeTexts
  /\ IsFiniteSet(spoken)

\* The calls an operator has to do with, and those whose turn has yet to end.
InQueue(q) == {q[i] : i \in DOMAIN q}
Mine(r) == Calls \cap ({r.turn} \cup InQueue(r.queue))
Open(r) == (IF r.turn \in Calls /\ r.pc \in {"turn", "adding", "flush", "release"}
            THEN {r.turn} ELSE {}) \cup (Calls \cap InQueue(r.queue))

OnceEach(q) == \A i, j \in DOMAIN q : i /= j /\ q[i] \in Calls => q[i] /= q[j]

\* While a turn speaks, what the batcher holds of it is labelled with it.
LoopOK(r) ==
  /\ OnceEach(r.queue)
  /\ r.turn \in Calls => r.turn \notin InQueue(r.queue)
  /\ r.pc \in Adding => r.activeTurn = r.turn
  /\ \A t \in r.buf : t.inTurn => /\ r.pc \in {"turn", "adding", "flush"}
                                  /\ t.turn = r.turn /\ r.activeTurn = r.turn

\* A message is taken by one operator, once, and after it was sent.
PlacesInv ==
  /\ \A o \in Operators : LoopOK(loop[o])
  /\ \A o, p \in Operators : o /= p => Mine(loop[o]) \cap Mine(loop[p]) = {}
  /\ \A o \in Operators : Mine(loop[o]) \cap finished = {}
  /\ \A o \in Operators : \A m \in Mine(loop[o]) : call[m].pc \in {"sent", "over"}
  /\ \A m \in finished : call[m].pc \in {"sent", "over"}

\* Nobody has to do with an operator that is not in office yet.
OfficeInv ==
  /\ \A m \in Calls : call[m].pc /= "new" => call[m].op <= current
  /\ \A o \in Operators : o > current =>
       loop[o].pc = "idle" /\ loop[o].queue = <<>> /\ loop[o].turn = NoTurn

TextInv ==
  /\ \A h \in heard : h[1].inTurn => h[2] = h[1].turn
  /\ \A t \in spoken : t.inTurn => \/ <<t, t.turn>> \in heard
                                   \/ \E o \in Operators : t \in loop[o].buf

\* The gate is closed on a call from the moment it has taken it, as long as the
\* operator it chose is in office.
Covered(m) == swap = "no" /\ \/ call[m].pc = "gated" /\ call[m].op = current
                             \/ m \in Open(loop[current])
GateInv == stray \/ \A m \in Calls : Covered(m) => gate = m

IInv == Types /\ PlacesInv /\ OfficeInv /\ TextInv /\ GateInv

----------------------------------------------------------------------------
(* Queues.                                                                 *)

LEMMA QueueGrows ==
  ASSUME NEW q \in Seq(Events), NEW e \in Events
  PROVE  /\ Append(q, e) \in Seq(Events) /\ InQueue(Append(q, e)) = InQueue(q) \cup {e}
         /\ OnceEach(q) /\ e \notin InQueue(q) \cap Calls => OnceEach(Append(q, e))
<1> DEFINE t == Append(q, e)
<1>1. /\ t \in Seq(Events) /\ Len(q) \in Nat
      /\ DOMAIN q = 1..Len(q) /\ DOMAIN t = 1..(Len(q) + 1)
  OBVIOUS
<1>2. t[Len(q) + 1] = e /\ \A i \in 1..Len(q) : t[i] = q[i]
  OBVIOUS
<1> HIDE DEF t
<1>3. 1..(Len(q) + 1) = (1..Len(q)) \cup {Len(q) + 1}
  BY <1>1
<1>4. InQueue(t) = InQueue(q) \cup {e}
  BY <1>1, <1>2, <1>3 DEF InQueue
<1>5. ASSUME OnceEach(q), e \notin InQueue(q) \cap Calls PROVE OnceEach(t)
  <2>1. \A i \in 1..Len(q) : q[i] \in Calls => q[i] /= e
    BY <1>1, <1>5 DEF InQueue
  <2> QED
    BY <1>1, <1>2, <1>3, <1>5, <2>1 DEF OnceEach
<1> QED
  BY <1>1, <1>4, <1>5 DEF t

LEMMA QueueShrinks ==
  ASSUME NEW q \in Seq(Events), q /= <<>>, OnceEach(q)
  PROVE  /\ Tail(q) \in Seq(Events) /\ Head(q) \in Events /\ OnceEach(Tail(q))
         /\ InQueue(Tail(q)) \subseteq InQueue(q) /\ Head(q) \in InQueue(q)
         /\ Head(q) \in Calls => Head(q) \notin InQueue(Tail(q))
<1> DEFINE t == Tail(q)
<1>1. Head(q) = q[1] /\ DOMAIN q = 1..Len(q) /\ Len(q) \in Nat /\ 1 \in DOMAIN q
  OBVIOUS
<1>2. /\ t \in Seq(Events) /\ Head(q) \in Events /\ DOMAIN t \subseteq Nat \ {0}
      /\ \A i \in DOMAIN t : t[i] = q[i + 1] /\ i + 1 \in DOMAIN q
  OBVIOUS
<1> HIDE DEF t
<1>3. \A i, j \in DOMAIN t : i /= j => i + 1 /= j + 1
  BY <1>2
<1>4. \A i \in DOMAIN t : i + 1 /= 1
  BY <1>2
<1>5. OnceEach(t)
  BY <1>2, <1>3 DEF OnceEach
<1>6. InQueue(t) \subseteq InQueue(q) /\ Head(q) \in InQueue(q)
  BY <1>1, <1>2 DEF InQueue
<1>7. Head(q) \in Calls => Head(q) \notin InQueue(t)
  BY <1>1, <1>2, <1>4 DEF InQueue, OnceEach
<1> QED
  BY <1>2, <1>5, <1>6, <1>7 DEF t

LEMMA EmptyQueue == InQueue(<<>>) = {} /\ OnceEach(<<>>) /\ <<>> \in Seq(Events)
BY DEF InQueue, OnceEach

LEMMA OpenIsMine == ASSUME NEW r PROVE Open(r) \subseteq Mine(r) /\ Mine(r) \subseteq Calls
BY DEF Open, Mine

LEMMA SystemEvents ==
  /\ "decision" \in Events \ Calls /\ "completion" \in Events \ Calls
  /\ \A e \in Events \ Calls : e = "decision" \/ e = "completion"
BY DEF Events

----------------------------------------------------------------------------
(* Steps of one operator or of one call.                                   *)

\* Operator o goes on to r: it takes on no call, may end its own turn, and opens
\* the gate, if at all, for a turn of its own that is then not open any more.
LEMMA LoopStep ==
  ASSUME Types, PlacesInv, OfficeInv, GateInv,
         NEW o \in Operators, NEW r \in Loops,
         loop' = [loop EXCEPT ![o] = r],
         UNCHANGED <<call, current, swap, stray>>,
         LoopOK(r), Mine(r) \subseteq Mine(loop[o]), Open(r) \subseteq Open(loop[o]),
         o > current => r.pc = "idle" /\ r.queue = <<>> /\ r.turn = NoTurn,
         finished' \subseteq finished \cup Mine(loop[o]), finished' \cap Mine(r) = {},
         \A m \in Calls : gate = m => gate' = m \/ (m \in Mine(loop[o]) /\ m \notin Open(r))
  PROVE  loop' \in [Operators -> Loops] /\ PlacesInv' /\ OfficeInv' /\ GateInv'
<1>1. /\ loop' \in [Operators -> Loops] /\ loop'[o] = r
      /\ \A p \in Operators \ {o} : loop'[p] = loop[p]
  BY DEF Types
<1>2. PlacesInv'
  <2>1. \A p \in Operators : LoopOK(loop'[p])
    BY <1>1 DEF PlacesInv
  <2>2. \A p \in Operators : Mine(loop'[p]) \subseteq Mine(loop[p])
    BY <1>1
  <2>3. \A p, q \in Operators : p /= q => Mine(loop'[p]) \cap Mine(loop'[q]) = {}
    BY <2>2 DEF PlacesInv
  <2>4. \A p \in Operators : Mine(loop'[p]) \cap finished' = {}
    <3> TAKE p \in Operators
    <3>1. CASE p = o
      BY <1>1, <3>1
    <3>2. CASE p /= o
      BY <1>1, <3>2 DEF PlacesInv
    <3> QED
      BY <3>1, <3>2
  <2>5. \A p \in Operators : \A m \in Mine(loop'[p]) : call'[m].pc \in {"sent", "over"}
    BY <2>2 DEF PlacesInv
  <2>6. \A m \in finished' : call'[m].pc \in {"sent", "over"}
    BY DEF PlacesInv
  <2> QED
    BY <2>1, <2>3, <2>4, <2>5, <2>6 DEF PlacesInv
<1>3. OfficeInv'
  BY <1>1 DEF OfficeInv
<1>4. GateInv'
  <2> SUFFICES ASSUME ~stray', NEW m \in Calls, Covered(m)' PROVE gate' = m
    BY DEF GateInv
  <2>1. current \in Operators
    BY DEF Types
  <2>2. Covered(m)
    BY <1>1, <2>1 DEF Covered
  <2>3. gate = m
    BY <2>2 DEF GateInv
  <2>4. CASE m \in Mine(loop[o]) /\ m \notin Open(r)
    <3>1. call[m].pc \in {"sent", "over"}
      BY <2>4 DEF PlacesInv
    <3>2. m \in Open(loop'[current])
      BY <3>1 DEF Covered
    <3>3. current /= o
      BY <1>1, <2>4, <3>2
    <3>4. m \in Mine(loop[current])
      BY <1>1, <2>1, <3>2, <3>3, OpenIsMine
    <3> QED
      BY <2>1, <2>4, <3>3, <3>4 DEF PlacesInv
  <2> QED
    BY <2>3, <2>4
<1> QED
  BY <1>1, <1>2, <1>3, <1>4

\* The text stays what it was, wherever the loop is.
LEMMA TextStays ==
  ASSUME Types, TextInv, NEW o \in Operators, NEW r,
         loop' = [loop EXCEPT ![o] = r], r.buf = loop[o].buf,
         UNCHANGED <<spoken, heard>>
  PROVE  TextInv'
<1>1. \A p \in Operators : loop'[p].buf = loop[p].buf
  BY DEF Types
<1> QED
  BY <1>1 DEF TextInv

\* The batcher emits what it holds under its label.
LEMMA TextIsEmitted ==
  ASSUME Types, PlacesInv, TextInv, NEW o \in Operators, NEW r,
         loop' = [loop EXCEPT ![o] = r], r.buf = {}, Emit(o), UNCHANGED spoken
  PROVE  TextInv'
<1>1. \A p \in Operators \ {o} : loop'[p] = loop[p]
  BY DEF Types
<1>2. ASSUME NEW t \in loop[o].buf, t.inTurn PROVE t.turn = loop[o].activeTurn
  BY <1>2 DEF PlacesInv, LoopOK
<1>3. heard' = heard \cup {<<t, loop[o].activeTurn>> : t \in loop[o].buf}
  BY DEF Emit
<1>4. \A h \in heard' : h[1].inTurn => h[2] = h[1].turn
  <2> TAKE h \in heard'
  <2>1. CASE h \in heard
    BY <2>1 DEF TextInv
  <2>2. CASE h \in {<<t, loop[o].activeTurn>> : t \in loop[o].buf}
    BY <1>2, <2>2
  <2> QED
    BY <1>3, <2>1, <2>2
<1>5. ASSUME NEW t \in spoken, t.inTurn
      PROVE  <<t, t.turn>> \in heard' \/ \E p \in Operators : t \in loop'[p].buf
  <2>1. CASE <<t, t.turn>> \in heard
    BY <1>3, <2>1
  <2>2. CASE \E p \in Operators : t \in loop[p].buf
    <3>1. PICK p \in Operators : t \in loop[p].buf
      BY <2>2
    <3>2. CASE p = o
      BY <1>2, <1>3, <1>5, <3>1, <3>2
    <3>3. CASE p /= o
      BY <1>1, <3>1, <3>3
    <3> QED
      BY <3>2, <3>3
  <2> QED
    BY <1>5, <2>1, <2>2 DEF TextInv
<1> QED
  BY <1>4, <1>5 DEF TextInv

\* Call m goes on to s; who has it on its hands does not change.
LEMMA CallStep ==
  ASSUME Types, PlacesInv, OfficeInv, TextInv, NEW m \in Calls, NEW s \in CallState,
         call' = [call EXCEPT ![m] = s],
         UNCHANGED <<loop, current, swap, finished, pending, spoken, heard>>,
         call[m].pc \in {"sent", "over"} => s.pc \in {"sent", "over"},
         s.pc /= "new" => s.op <= current
  PROVE  Types' /\ PlacesInv' /\ OfficeInv' /\ TextInv'
<1>1. /\ call' \in [Calls -> CallState] /\ call'[m] = s
      /\ \A n \in Calls \ {m} : call'[n] = call[n]
  BY DEF Types
<1>2. Types' /\ TextInv'
  BY <1>1 DEF Types, TextInv
<1>3. OfficeInv'
  BY <1>1 DEF OfficeInv
<1>4. \A n \in Calls : call[n].pc \in {"sent", "over"} => call'[n].pc \in {"sent", "over"}
  BY <1>1
<1>5. \A o \in Operators : Mine(loop[o]) \subseteq Calls
  BY OpenIsMine
<1>6. finished \subseteq Calls
  BY DEF Types
<1>7. PlacesInv'
  BY <1>4, <1>5, <1>6 DEF PlacesInv
<1> QED
  BY <1>2, <1>3, <1>7

----------------------------------------------------------------------------
(* The operator's loop.                                                    *)

LEMMA LoopFacts ==
  ASSUME IInv, NEW o \in Operators
  PROVE  /\ loop \in [Operators -> Loops] /\ loop[o] \in Loops /\ LoopOK(loop[o])
         /\ loop[o].queue \in Seq(Events) /\ loop[o].turn \in Turns
         /\ loop[o].buf \subseteq SomeTexts /\ loop[o].held \subseteq SomeTexts
         /\ Mine(loop[o]) \cap finished = {}
         /\ o > current => loop[o].pc = "idle" /\ loop[o].queue = <<>> /\ loop[o].turn = NoTurn
<1>1. loop \in [Operators -> Loops]
  BY DEF IInv, Types
<1>2. loop[o] \in Loops
  BY <1>1
<1>3. /\ loop[o].queue \in Seq(Events) /\ loop[o].turn \in Turns
      /\ loop[o].buf \subseteq SomeTexts /\ loop[o].held \subseteq SomeTexts
  BY <1>2 DEF Loops
<1> QED
  BY <1>1, <1>2, <1>3 DEF IInv, PlacesInv, OfficeInv

\* A step that moves the loop within a turn, or out of one, and tells nobody.
LEMMA MovingKeepsInv ==
  ASSUME IInv, NEW o \in Operators, Exit(o) \/ EndTurn(o) \/ RecordReply(o)
  PROVE  IInv'
<1>1. /\ loop \in [Operators -> Loops] /\ loop[o] \in Loops /\ LoopOK(loop[o])
      /\ Mine(loop[o]) \cap finished = {}
      /\ o > current => loop[o].pc = "idle" /\ loop[o].queue = <<>> /\ loop[o].turn = NoTurn
  BY LoopFacts
<1>2. PICK x \in {"exited", "flush", "announce"}, y \in SUBSET SomeTexts :
        /\ loop' = [loop EXCEPT ![o] = [loop[o] EXCEPT !.pc = x, !.held = y]]
        /\ x = "exited" => loop[o].pc = "idle" /\ Stopped(o)
        /\ x = "flush" => loop[o].pc = "turn"
        /\ x = "announce" => loop[o].pc = "record"
  <2>1. CASE Exit(o)
    <3>1. loop' = [loop EXCEPT ![o] = [loop[o] EXCEPT !.pc = "exited", !.held = loop[o].held]]
      BY <1>1, <2>1 DEF Exit, LoopGoto, Loops
    <3> QED
      BY <1>1, <2>1, <3>1 DEF Exit, LoopAt, Loops
  <2>2. CASE EndTurn(o)
    <3>1. loop' = [loop EXCEPT ![o] = [loop[o] EXCEPT !.pc = "flush", !.held = loop[o].held]]
      BY <1>1, <2>2 DEF EndTurn, LoopGoto, Loops
    <3> QED
      BY <1>1, <2>2, <3>1 DEF EndTurn, LoopAt, Loops
  <2>3. CASE RecordReply(o)
    <3>1. loop' = [loop EXCEPT ![o] = [loop[o] EXCEPT !.pc = "announce", !.held = {}]]
      BY <1>1, <2>3 DEF RecordReply, Loops
    <3> QED
      BY <2>3, <3>1 DEF RecordReply, LoopAt
  <2> QED
    BY <2>1, <2>2, <2>3
<1>3. UNCHANGED <<call, current, swap, gate, stray, finished, pending, spoken, heard>>
  BY DEF Exit, EndTurn, RecordReply, serviceVars, textVars
<1> DEFINE r == [loop[o] EXCEPT !.pc = x, !.held = y]
<1>4. /\ r \in Loops /\ r.pc = x /\ r.queue = loop[o].queue /\ r.turn = loop[o].turn
      /\ r.activeTurn = loop[o].activeTurn /\ r.buf = loop[o].buf
  BY <1>1 DEF Loops
<1>5. loop' = [loop EXCEPT ![o] = r]
  BY <1>2
<1> HIDE DEF r
<1>6. LoopOK(r)
  BY <1>1, <1>2, <1>4 DEF LoopOK, Adding
<1>7. Mine(r) = Mine(loop[o])
  BY <1>4 DEF Mine
<1>8. Open(r) \subseteq Open(loop[o])
  BY <1>2, <1>4 DEF Open
<1>9. ~(o > current)
  <2>1. current \in Operators
    BY DEF IInv, Types
  <2>2. x = "exited" => ~(o > current)
    BY <1>2, <2>1 DEF Stopped, Operators
  <2> QED
    BY <1>1, <1>2, <2>2
<1>10. /\ finished' \subseteq finished \cup Mine(loop[o]) /\ finished' \cap Mine(r) = {}
       /\ \A m \in Calls : gate = m => gate' = m
  BY <1>1, <1>3, <1>7
<1>11. loop' \in [Operators -> Loops] /\ PlacesInv' /\ OfficeInv' /\ GateInv'
  BY <1>3, <1>4, <1>5, <1>6, <1>7, <1>8, <1>9, <1>10, LoopStep DEF IInv
<1>12. TextInv'
  BY <1>3, <1>4, <1>5, TextStays DEF IInv
<1>13. Types'
  BY <1>3, <1>11 DEF IInv, Types
<1> QED
  BY <1>11, <1>12, <1>13 DEF IInv

\* The label is that of the loop's turn, and so is all that is in the batcher.
LEMMA LabelKeepsInv ==
  ASSUME IInv, NEW o \in Operators, Label(o)
  PROVE  IInv'
<1> DEFINE x == IF loop[o].pc = "turn" THEN "adding" ELSE "adding notice"
           r == [loop[o] EXCEPT !.activeTurn = loop[o].turn, !.pc = x]
<1>1. /\ loop \in [Operators -> Loops] /\ loop[o] \in Loops /\ LoopOK(loop[o])
      /\ loop[o].turn \in Turns /\ Mine(loop[o]) \cap finished = {}
      /\ o > current => loop[o].pc = "idle" /\ loop[o].queue = <<>> /\ loop[o].turn = NoTurn
  BY LoopFacts
<1>2. /\ loop[o].pc \in {"turn", "notice"} /\ loop' = [loop EXCEPT ![o] = r]
      /\ UNCHANGED <<call, current, swap, gate, stray, finished, pending, spoken, heard>>
  BY <1>1 DEF Label, LoopAt, serviceVars, textVars
<1>3. x \in {"adding", "adding notice"} /\ (x = "adding" <=> loop[o].pc = "turn")
  OBVIOUS
<1> HIDE DEF x
<1>4. /\ r \in Loops /\ r.pc = x /\ r.queue = loop[o].queue /\ r.turn = loop[o].turn
      /\ r.activeTurn = loop[o].turn /\ r.buf = loop[o].buf
  BY <1>1, <1>3 DEF Loops
<1> HIDE DEF r
<1>5. LoopOK(r)
  BY <1>1, <1>2, <1>3, <1>4 DEF LoopOK
<1>6. Mine(r) = Mine(loop[o]) /\ Open(r) \subseteq Open(loop[o])
  BY <1>2, <1>3, <1>4 DEF Mine, Open
<1>7. /\ finished' \subseteq finished \cup Mine(loop[o]) /\ finished' \cap Mine(r) = {}
      /\ ~(o > current) /\ \A m \in Calls : gate = m => gate' = m
  BY <1>1, <1>2, <1>6
<1>8. loop' \in [Operators -> Loops] /\ PlacesInv' /\ OfficeInv' /\ GateInv'
  BY <1>2, <1>4, <1>5, <1>6, <1>7, LoopStep DEF IInv
<1>9. TextInv'
  BY <1>2, <1>4, TextStays DEF IInv
<1>10. Types'
  BY <1>2, <1>8 DEF IInv, Types
<1> QED
  BY <1>8, <1>9, <1>10 DEF IInv

LEMMA AddKeepsInv ==
  ASSUME IInv, NEW o \in Operators, Add(o)
  PROVE  IInv'
<1> DEFINE x == IF loop[o].pc = "adding" THEN "turn" ELSE "idle"
           v == Text(o)
           b == loop[o].buf \cup {v}
           r == [loop[o] EXCEPT !.buf = b, !.pc = x]
<1>1. /\ loop \in [Operators -> Loops] /\ loop[o] \in Loops /\ LoopOK(loop[o])
      /\ loop[o].turn \in Turns /\ loop[o].buf \subseteq SomeTexts
      /\ Mine(loop[o]) \cap finished = {}
      /\ o > current => loop[o].pc = "idle" /\ loop[o].queue = <<>> /\ loop[o].turn = NoTurn
  BY LoopFacts
<1>2. /\ loop[o].pc \in Adding /\ loop' = [loop EXCEPT ![o] = r] /\ spoken' = spoken \cup {v}
      /\ UNCHANGED <<call, current, swap, gate, stray, finished, pending, heard>>
  BY <1>1 DEF Add, serviceVars
<1>3. IsFiniteSet(spoken) /\ Cardinality(spoken) \in Nat
  BY FS_CardinalityType DEF IInv, Types
<1>4. /\ v \in SomeTexts /\ v.turn = loop[o].turn
      /\ v.inTurn = (loop[o].pc = "adding")
  <2>1. Cardinality(spoken) + 1 \in Nat
    BY <1>3
  <2>2. (loop[o].pc = "adding") \in BOOLEAN
    OBVIOUS
  <2> QED
    BY <1>1, <2>1, <2>2 DEF Text, SomeTexts, LoopAt
<1>5. x \in {"turn", "idle"} /\ (x = "turn" <=> loop[o].pc = "adding")
  OBVIOUS
<1>6. b \subseteq SomeTexts /\ b = loop[o].buf \cup {v}
  BY <1>1, <1>4
<1> HIDE DEF x, v, b
<1>7. /\ r \in Loops /\ r.pc = x /\ r.queue = loop[o].queue /\ r.turn = loop[o].turn
      /\ r.activeTurn = loop[o].activeTurn /\ r.buf = b
  BY <1>1, <1>5, <1>6 DEF Loops
<1> HIDE DEF r
<1>8. loop[o].activeTurn = loop[o].turn
  BY <1>1, <1>2 DEF LoopOK
<1>9. LoopOK(r)
  <2>1. ASSUME NEW t \in r.buf, t.inTurn
        PROVE  r.pc = "turn" /\ t.turn = r.turn /\ r.activeTurn = r.turn
    <3>1. CASE t = v
      BY <1>4, <1>5, <1>7, <1>8, <2>1, <3>1
    <3>2. CASE t \in loop[o].buf
      BY <1>1, <1>2, <1>5, <1>7, <1>8, <2>1, <3>2 DEF LoopOK, Adding
    <3> QED
      BY <1>6, <1>7, <2>1, <3>1, <3>2
  <2> QED
    BY <1>1, <1>5, <1>7, <2>1 DEF LoopOK, Adding
<1>10. Mine(r) = Mine(loop[o]) /\ Open(r) \subseteq Open(loop[o])
  BY <1>2, <1>5, <1>7 DEF Mine, Open, Adding
<1>11. /\ finished' \subseteq finished \cup Mine(loop[o]) /\ finished' \cap Mine(r) = {}
       /\ ~(o > current) /\ \A m \in Calls : gate = m => gate' = m
  BY <1>1, <1>2, <1>10 DEF Adding
<1>12. loop' \in [Operators -> Loops] /\ PlacesInv' /\ OfficeInv' /\ GateInv'
  BY <1>2, <1>7, <1>9, <1>10, <1>11, LoopStep DEF IInv
<1>13. TextInv'
  <2>1. loop'[o].buf = loop[o].buf \cup {v} /\ \A p \in Operators \ {o} : loop'[p] = loop[p]
    BY <1>1, <1>2, <1>6, <1>7
  <2>2. \A t \in spoken : t.inTurn => <<t, t.turn>> \in heard
                                      \/ \E p \in Operators : t \in loop'[p].buf
    BY <2>1 DEF IInv, TextInv
  <2>3. v \in loop'[o].buf
    BY <2>1
  <2> QED
    BY <1>2, <2>2, <2>3 DEF IInv, TextInv
<1>14. Types'
  <2>1. IsFiniteSet(spoken')
    BY <1>2, <1>3, FS_AddElement
  <2> QED
    BY <1>2, <1>12, <2>1 DEF IInv, Types
<1> QED
  BY <1>12, <1>13, <1>14 DEF IInv

\* The timer may fire at any time: what it emits has the label it was added under.
LEMMA TimerKeepsInv ==
  ASSUME IInv, NEW o \in Operators, TimerFires(o)
  PROVE  IInv'
<1> DEFINE r == [loop[o] EXCEPT !.buf = {}]
<1>1. /\ loop \in [Operators -> Loops] /\ loop[o] \in Loops /\ LoopOK(loop[o])
      /\ loop[o].buf \subseteq SomeTexts /\ Mine(loop[o]) \cap finished = {}
      /\ o > current => loop[o].pc = "idle" /\ loop[o].queue = <<>> /\ loop[o].turn = NoTurn
  BY LoopFacts
<1>2. /\ loop' = [loop EXCEPT ![o] = r] /\ pending' = pending \cup loop[o].buf /\ Emit(o)
      /\ UNCHANGED <<call, current, swap, gate, stray, finished, spoken>>
  BY <1>1 DEF TimerFires, Drained, serviceVars
<1>3. /\ r \in Loops /\ r.pc = loop[o].pc /\ r.queue = loop[o].queue /\ r.turn = loop[o].turn
      /\ r.activeTurn = loop[o].activeTurn /\ r.buf = {}
  BY <1>1 DEF Loops
<1> HIDE DEF r
<1>4. LoopOK(r) /\ Mine(r) = Mine(loop[o]) /\ Open(r) = Open(loop[o])
  BY <1>1, <1>3 DEF LoopOK, Mine, Open
<1>5. /\ finished' \subseteq finished \cup Mine(loop[o]) /\ finished' \cap Mine(r) = {}
      /\ \A m \in Calls : gate = m => gate' = m
      /\ o > current => r.pc = "idle" /\ r.queue = <<>> /\ r.turn = NoTurn
  BY <1>1, <1>2, <1>3, <1>4
<1>6. loop' \in [Operators -> Loops] /\ PlacesInv' /\ OfficeInv' /\ GateInv'
  BY <1>2, <1>3, <1>4, <1>5, LoopStep DEF IInv
<1>7. TextInv'
  BY <1>2, <1>3, TextIsEmitted DEF IInv
<1>8. Types'
  BY <1>1, <1>2, <1>6 DEF IInv, Types
<1> QED
  BY <1>6, <1>7, <1>8 DEF IInv

LEMMA FlushKeepsInv ==
  ASSUME IInv, NEW o \in Operators, FlushTurn(o)
  PROVE  IInv'
<1> DEFINE r == [loop[o] EXCEPT !.buf = {}, !.activeTurn = NoTurn, !.pc = "release"]
<1>1. /\ loop \in [Operators -> Loops] /\ loop[o] \in Loops /\ LoopOK(loop[o])
      /\ loop[o].buf \subseteq SomeTexts /\ Mine(loop[o]) \cap finished = {}
      /\ o > current => loop[o].pc = "idle" /\ loop[o].queue = <<>> /\ loop[o].turn = NoTurn
  BY LoopFacts
<1>2. /\ loop[o].pc = "flush" /\ loop' = [loop EXCEPT ![o] = r]
      /\ pending' = pending \cup loop[o].buf /\ Emit(o)
      /\ UNCHANGED <<call, current, swap, gate, stray, finished, spoken>>
  BY <1>1 DEF FlushTurn, LoopAt, Drained, serviceVars
<1>3. /\ r \in Loops /\ r.pc = "release" /\ r.queue = loop[o].queue /\ r.turn = loop[o].turn
      /\ r.buf = {}
  BY <1>1 DEF Loops, Turns
<1> HIDE DEF r
<1>4. LoopOK(r) /\ Mine(r) = Mine(loop[o]) /\ Open(r) = Open(loop[o])
  BY <1>1, <1>2, <1>3 DEF LoopOK, Mine, Open, Adding
<1>5. /\ finished' \subseteq finished \cup Mine(loop[o]) /\ finished' \cap Mine(r) = {}
      /\ ~(o > current) /\ \A m \in Calls : gate = m => gate' = m
  BY <1>1, <1>2, <1>4
<1>6. loop' \in [Operators -> Loops] /\ PlacesInv' /\ OfficeInv' /\ GateInv'
  BY <1>2, <1>3, <1>4, <1>5, LoopStep DEF IInv
<1>7. TextInv'
  BY <1>2, <1>3, TextIsEmitted DEF IInv
<1>8. Types'
  BY <1>1, <1>2, <1>6 DEF IInv, Types
<1> QED
  BY <1>6, <1>7, <1>8 DEF IInv

\* The gate opens for the turn that ends here, if it is that turn's.
LEMMA ReleaseKeepsInv ==
  ASSUME IInv, NEW o \in Operators, Release(o)
  PROVE  IInv'
<1> DEFINE r == [loop[o] EXCEPT !.held = pending, !.pc = "record"]
<1>1. /\ loop \in [Operators -> Loops] /\ loop[o] \in Loops /\ LoopOK(loop[o])
      /\ loop[o].turn \in Turns /\ Mine(loop[o]) \cap finished = {}
      /\ o > current => loop[o].pc = "idle" /\ loop[o].queue = <<>> /\ loop[o].turn = NoTurn
  BY LoopFacts
<1>2. /\ loop[o].pc = "release" /\ loop' = [loop EXCEPT ![o] = r] /\ pending' = {}
      /\ gate' = IF Opens(loop[o].turn) THEN NoTurn ELSE gate
      /\ UNCHANGED <<call, current, swap, stray, finished, spoken, heard>>
  BY <1>1 DEF Release, LoopAt
<1>3. pending \subseteq SomeTexts
  BY DEF IInv, Types
<1>4. /\ r \in Loops /\ r.pc = "record" /\ r.queue = loop[o].queue /\ r.turn = loop[o].turn
      /\ r.activeTurn = loop[o].activeTurn /\ r.buf = loop[o].buf
  BY <1>1, <1>3 DEF Loops
<1> HIDE DEF r
<1>5. LoopOK(r) /\ Mine(r) = Mine(loop[o]) /\ Open(r) \subseteq Open(loop[o])
  BY <1>1, <1>2, <1>4 DEF LoopOK, Mine, Open, Adding
<1>6. ASSUME NEW m \in Calls, gate = m
      PROVE  gate' = m \/ (m \in Mine(loop[o]) /\ m \notin Open(r))
  <2>1. CASE Opens(loop[o].turn)
    <3>1. loop[o].turn = m
      BY <1>6, <2>1 DEF Opens
    <3>2. m \notin InQueue(r.queue)
      BY <1>1, <1>4, <3>1 DEF LoopOK
    <3> QED
      BY <1>4, <3>1, <3>2 DEF Mine, Open
  <2>2. CASE ~Opens(loop[o].turn)
    BY <1>2, <1>6, <2>2
  <2> QED
    BY <2>1, <2>2
<1>7. /\ finished' \subseteq finished \cup Mine(loop[o]) /\ finished' \cap Mine(r) = {}
      /\ ~(o > current)
  BY <1>1, <1>2, <1>5
<1>8. loop' \in [Operators -> Loops] /\ PlacesInv' /\ OfficeInv' /\ GateInv'
  BY <1>2, <1>4, <1>5, <1>6, <1>7, LoopStep DEF IInv
<1>9. TextInv'
  BY <1>2, <1>4, TextStays DEF IInv
<1>10. Types'
  BY <1>2, <1>8 DEF IInv, Types
<1> QED
  BY <1>8, <1>9, <1>10 DEF IInv

LEMMA AnnounceKeepsInv ==
  ASSUME IInv, NEW o \in Operators, Announce(o)
  PROVE  IInv'
<1> DEFINE r == [loop[o] EXCEPT !.turn = NoTurn, !.pc = "idle"]
<1>1. /\ loop \in [Operators -> Loops] /\ loop[o] \in Loops /\ LoopOK(loop[o])
      /\ loop[o].turn \in Turns /\ Mine(loop[o]) \cap finished = {}
      /\ o > current => loop[o].pc = "idle" /\ loop[o].queue = <<>> /\ loop[o].turn = NoTurn
  BY LoopFacts
<1>2. /\ loop[o].pc = "announce" /\ loop' = [loop EXCEPT ![o] = r]
      /\ finished' = finished \cup ({loop[o].turn} \cap Calls)
      /\ UNCHANGED <<call, current, swap, gate, stray, pending, spoken, heard>>
  BY <1>1 DEF Announce, LoopAt, serviceVars
<1>3. /\ r \in Loops /\ r.pc = "idle" /\ r.queue = loop[o].queue /\ r.turn = NoTurn
      /\ r.activeTurn = loop[o].activeTurn /\ r.buf = loop[o].buf
  BY <1>1 DEF Loops, Turns
<1> HIDE DEF r
<1>4. LoopOK(r)
  BY <1>1, <1>2, <1>3 DEF LoopOK, Adding
<1>5. Mine(r) \subseteq Mine(loop[o]) /\ Open(r) \subseteq Open(loop[o])
  BY <1>3 DEF Mine, Open
<1>6. {loop[o].turn} \cap Calls \subseteq Mine(loop[o]) /\ {loop[o].turn} \cap Mine(r) = {}
  BY <1>1, <1>3 DEF Mine, LoopOK
<1>7. /\ finished' \subseteq finished \cup Mine(loop[o]) /\ finished' \cap Mine(r) = {}
      /\ ~(o > current) /\ \A m \in Calls : gate = m => gate' = m
  BY <1>1, <1>2, <1>5, <1>6
<1>8. loop' \in [Operators -> Loops] /\ PlacesInv' /\ OfficeInv' /\ GateInv'
  BY <1>2, <1>3, <1>4, <1>5, <1>7, LoopStep DEF IInv
<1>9. TextInv'
  BY <1>2, <1>3, TextStays DEF IInv
<1>10. Types'
  BY <1>2, <1>8 DEF IInv, Types
<1> QED
  BY <1>8, <1>9, <1>10 DEF IInv

\* What leaves the queue is the loop's turn, if it is a message.
LEMMA TakeEventKeepsInv ==
  ASSUME IInv, NEW o \in Operators, TakeEvent(o)
  PROVE  IInv'
<1> DEFINE q == loop[o].queue
           e == Head(q)
           u == Tail(q)
           n == IF e \in Calls THEN e ELSE NoTurn
<1>1. /\ loop \in [Operators -> Loops] /\ loop[o] \in Loops /\ LoopOK(loop[o])
      /\ q \in Seq(Events) /\ Mine(loop[o]) \cap finished = {}
      /\ o > current => loop[o].pc = "idle" /\ loop[o].queue = <<>> /\ loop[o].turn = NoTurn
  BY LoopFacts
<1>2. /\ loop[o].pc = "idle" /\ q /= <<>>
      /\ UNCHANGED <<call, current, swap, gate, stray, finished, pending, spoken, heard>>
  BY DEF TakeEvent, LoopAt, serviceVars, textVars
<1>3. PICK x \in {"idle", "notice", "turn"} :
        /\ loop' = [loop EXCEPT ![o] = [loop[o] EXCEPT !.queue = u, !.turn = n, !.pc = x]]
        /\ e \in Calls => x = "turn"
  <2>1. e \in Calls => e /= "completion"
    OBVIOUS
  <2>2. PICK x \in IF e = "completion" THEN {"idle"} \cup {pc \in {"notice"} : TextsLeft} ELSE {"turn"} :
          loop' = [loop EXCEPT ![o].queue = Tail(@), ![o].turn = n, ![o].pc = x]
    BY DEF TakeEvent
  <2>3. x \in {"idle", "notice", "turn"} /\ (e \in Calls => x = "turn")
    BY <2>1
  <2>4. loop' = [loop EXCEPT ![o] = [loop[o] EXCEPT !.queue = u, !.turn = n, !.pc = x]]
    BY <1>1, <2>2
  <2> QED
    BY <2>3, <2>4
<1>4. /\ u \in Seq(Events) /\ e \in Events /\ OnceEach(u)
      /\ InQueue(u) \subseteq InQueue(q) /\ e \in InQueue(q)
      /\ e \in Calls => e \notin InQueue(u)
  BY <1>1, <1>2, QueueShrinks DEF LoopOK
<1>5. n \in Turns /\ (n \in Calls => n = e)
  BY DEF Turns
<1> HIDE DEF u, e, n
<1> DEFINE r == [loop[o] EXCEPT !.queue = u, !.turn = n, !.pc = x]
<1>6. /\ r \in Loops /\ r.pc = x /\ r.queue = u /\ r.turn = n
      /\ r.activeTurn = loop[o].activeTurn /\ r.buf = loop[o].buf
  BY <1>1, <1>4, <1>5 DEF Loops
<1>7. loop' = [loop EXCEPT ![o] = r]
  BY <1>3
<1> HIDE DEF r
<1>8. LoopOK(r)
  <2>1. \A t \in r.buf : ~t.inTurn
    BY <1>1, <1>2, <1>6 DEF LoopOK, SomeTexts, Loops
  <2> QED
    BY <1>4, <1>5, <1>6, <2>1 DEF LoopOK, Adding
<1>9. Mine(r) \subseteq Mine(loop[o]) /\ Open(r) \subseteq Open(loop[o])
  BY <1>4, <1>5, <1>6 DEF Mine, Open
<1>10. /\ finished' \subseteq finished \cup Mine(loop[o]) /\ finished' \cap Mine(r) = {}
       /\ ~(o > current) /\ \A m \in Calls : gate = m => gate' = m
  BY <1>1, <1>2, <1>9
<1>11. loop' \in [Operators -> Loops] /\ PlacesInv' /\ OfficeInv' /\ GateInv'
  BY <1>2, <1>6, <1>7, <1>8, <1>9, <1>10, LoopStep DEF IInv
<1>12. TextInv'
  BY <1>2, <1>6, <1>7, TextStays DEF IInv
<1>13. Types'
  BY <1>2, <1>11 DEF IInv, Types
<1> QED
  BY <1>11, <1>12, <1>13 DEF IInv

LEMMA SystemEventKeepsInv ==
  ASSUME IInv, SystemEvent
  PROVE  IInv'
<1>1. current \in Operators
  BY DEF IInv, Types
<1> DEFINE o == current
<1>2. /\ loop \in [Operators -> Loops] /\ loop[o] \in Loops /\ LoopOK(loop[o])
      /\ loop[o].queue \in Seq(Events) /\ Mine(loop[o]) \cap finished = {}
  BY <1>1, LoopFacts
<1>3. PICK e \in Events \ Calls :
        loop' = [loop EXCEPT ![o] = [loop[o] EXCEPT !.queue = Append(loop[o].queue, e)]]
  BY <1>2, SystemEvents DEF SystemEvent
<1>4. UNCHANGED <<call, current, swap, gate, stray, finished, pending, spoken, heard>>
  BY DEF SystemEvent, serviceVars, textVars
<1> DEFINE u == Append(loop[o].queue, e)
           r == [loop[o] EXCEPT !.queue = u]
<1>5. u \in Seq(Events) /\ InQueue(u) = InQueue(loop[o].queue) \cup {e} /\ OnceEach(u)
  BY <1>2, QueueGrows DEF LoopOK
<1> HIDE DEF u
<1>6. /\ r \in Loops /\ r.pc = loop[o].pc /\ r.queue = u /\ r.turn = loop[o].turn
      /\ r.activeTurn = loop[o].activeTurn /\ r.buf = loop[o].buf
  BY <1>2, <1>5 DEF Loops
<1>7. loop' = [loop EXCEPT ![o] = r]
  BY <1>3 DEF u
<1> HIDE DEF r
<1>8. LoopOK(r)
  BY <1>2, <1>5, <1>6 DEF LoopOK
<1>9. Mine(r) = Mine(loop[o]) /\ Open(r) = Open(loop[o])
  BY <1>5, <1>6 DEF Mine, Open
<1>10. /\ finished' \subseteq finished \cup Mine(loop[o]) /\ finished' \cap Mine(r) = {}
       /\ \A m \in Calls : gate = m => gate' = m
  BY <1>2, <1>4, <1>9
<1>11. ~(current > current)
  BY <1>1 DEF Operators
<1>12. loop' \in [Operators -> Loops] /\ PlacesInv' /\ OfficeInv' /\ GateInv'
  BY <1>1, <1>4, <1>6, <1>7, <1>8, <1>9, <1>10, <1>11, LoopStep DEF IInv
<1>13. TextInv'
  BY <1>1, <1>4, <1>6, <1>7, TextStays DEF IInv
<1>14. Types'
  BY <1>4, <1>12 DEF IInv, Types
<1> QED
  BY <1>12, <1>13, <1>14 DEF IInv

----------------------------------------------------------------------------
(* SendMessage.                                                            *)

LEMMA CallFacts ==
  ASSUME IInv, NEW m \in Calls
  PROVE  /\ call \in [Calls -> CallState] /\ call[m] \in CallState
         /\ call[m].op \in Operators /\ current \in Operators
         /\ call[m].pc /= "new" => call[m].op <= current
<1>1. call \in [Calls -> CallState] /\ current \in Operators
  BY DEF IInv, Types
<1>2. call[m] \in CallState
  BY <1>1
<1>3. call[m].op \in Operators
  BY <1>2 DEF CallState
<1> QED
  BY <1>1, <1>2, <1>3 DEF IInv, OfficeInv

LEMMA ChooseKeepsInv ==
  ASSUME IInv, NEW m \in Calls, ChooseOperator(m)
  PROVE  IInv'
<1> DEFINE s == [call[m] EXCEPT !.pc = "chosen", !.op = current]
<1>1. /\ call \in [Calls -> CallState] /\ call[m] \in CallState /\ current \in Operators
  BY CallFacts
<1>2. /\ call[m].pc = "new" /\ call' = [call EXCEPT ![m] = s]
      /\ UNCHANGED <<loop, current, swap, gate, stray, finished, pending, spoken, heard>>
  BY <1>1 DEF ChooseOperator, CallAt, serviceVars, textVars
<1>3. s \in CallState /\ s.pc = "chosen" /\ s.op = current
  BY <1>1 DEF CallState
<1> HIDE DEF s
<1>4. current <= current
  BY <1>1 DEF Operators
<1>5. Types' /\ PlacesInv' /\ OfficeInv' /\ TextInv'
  BY <1>2, <1>3, <1>4, CallStep DEF IInv
<1>6. \A n \in Calls : call'[n].pc = "gated" => call'[n] = call[n]
  BY <1>1, <1>2, <1>3
<1>7. GateInv'
  BY <1>2, <1>6 DEF IInv, GateInv, Covered
<1> QED
  BY <1>5, <1>7 DEF IInv

\* A call that fails, is refused or returns holds no gate for an operator.
LEMMA CallLeavesKeepsInv ==
  ASSUME IInv, NEW m \in Calls, NEW x \in {"failed", "refused", "over"},
         call[m].pc \in {"gated", "chosen"} \/ x = "over",
         call' = [call EXCEPT ![m].pc = x], call[m].pc /= "new",
         UNCHANGED <<loop, current, swap, finished, pending, spoken, heard>>,
         \/ UNCHANGED <<gate, stray>>
         \/ gate' = NoTurn /\ stray' = (stray \/ gate \notin {m, NoTurn})
            /\ call[m].pc = "failed"
  PROVE  IInv'
<1> DEFINE s == [call[m] EXCEPT !.pc = x]
<1>1. /\ call \in [Calls -> CallState] /\ call[m] \in CallState /\ current \in Operators
      /\ call[m].op <= current
  BY CallFacts
<1>2. call' = [call EXCEPT ![m] = s]
  BY <1>1
<1>3. s \in CallState /\ s.pc = x /\ s.op = call[m].op
  BY <1>1 DEF CallState
<1> HIDE DEF s
<1>4. call[m].pc \in {"sent", "over"} => s.pc \in {"sent", "over"}
  BY <1>3
<1>5. Types' /\ PlacesInv' /\ OfficeInv' /\ TextInv'
  BY <1>1, <1>2, <1>3, <1>4, CallStep DEF IInv
<1>6. \A n \in Calls : call'[n].pc = "gated" => call'[n] = call[n]
  BY <1>1, <1>2, <1>3
<1>7. \A n \in Calls : Covered(n)' => Covered(n)
  BY <1>6 DEF Covered
<1>8. CASE UNCHANGED <<gate, stray>>
  BY <1>5, <1>7, <1>8 DEF IInv, GateInv
<1>9. CASE /\ gate' = NoTurn /\ stray' = (stray \/ gate \notin {m, NoTurn})
           /\ call[m].pc = "failed"
  <2>1. ~Covered(m)
    <3>1. \A o \in Operators : m \notin Mine(loop[o])
      BY <1>9 DEF IInv, PlacesInv
    <3>2. m \notin Open(loop[current])
      BY <1>1, <3>1, OpenIsMine
    <3> QED
      BY <1>9, <3>2 DEF Covered
  <2>2. ASSUME ~stray', NEW n \in Calls, Covered(n)' PROVE FALSE
    <3>1. gate = n
      BY <1>7, <1>9, <2>2 DEF IInv, GateInv
    <3>2. n = m
      BY <1>9, <2>2, <3>1
    <3> QED
      BY <1>7, <2>1, <2>2, <3>2
  <2>3. GateInv'
    BY <2>2 DEF GateInv
  <2> QED
    BY <1>5, <2>3 DEF IInv
<1> QED
  BY <1>8, <1>9

\* The gate is closed on the call that takes it, and was open.
LEMMA TakeGateKeepsInv ==
  ASSUME IInv, NEW m \in Calls, TakeGate(m)
  PROVE  IInv'
<1>1. /\ call[m].pc = "chosen"
      /\ UNCHANGED <<loop, current, swap, stray, finished, pending, spoken, heard>>
  BY DEF TakeGate, CallAt, textVars
<1>2. CASE gate /= NoTurn
  <2>1. call' = [call EXCEPT ![m].pc = "refused"] /\ gate' = gate
    BY <1>2 DEF TakeGate, CallGoto
  <2> QED
    BY <1>1, <2>1, CallLeavesKeepsInv
<1>3. CASE gate = NoTurn
  <2> DEFINE s == [call[m] EXCEPT !.pc = "gated"]
  <2>1. /\ call \in [Calls -> CallState] /\ call[m] \in CallState /\ call[m].op <= current
    BY <1>1, CallFacts
  <2>2. call' = [call EXCEPT ![m] = s] /\ gate' = m
    BY <1>3, <2>1 DEF TakeGate, CallGoto
  <2>3. s \in CallState /\ s.pc = "gated" /\ s.op = call[m].op
    BY <2>1 DEF CallState
  <2> HIDE DEF s
  <2>4. Types' /\ PlacesInv' /\ OfficeInv' /\ TextInv'
    BY <1>1, <2>1, <2>2, <2>3, CallStep DEF IInv
  <2>5. ASSUME ~stray, NEW n \in Calls, n /= m, Covered(n)' PROVE FALSE
    <3>1. Covered(n)
      BY <1>1, <2>1, <2>2, <2>5 DEF Covered
    <3>2. gate = n
      BY <2>5, <3>1 DEF IInv, GateInv
    <3> QED
      BY <1>3, <3>2
  <2>6. GateInv'
    BY <1>1, <2>2, <2>5 DEF GateInv
  <2> QED
    BY <2>4, <2>6 DEF IInv
<1> QED
  BY <1>2, <1>3

LEMMA CallEndsKeepsInv ==
  ASSUME IInv, NEW m \in Calls, SendFails(m) \/ OpenGate(m) \/ RecordMessage(m)
  PROVE  IInv'
<1>1. CASE SendFails(m)
  <2>1. /\ call[m].pc = "gated" /\ call' = [call EXCEPT ![m].pc = "failed"]
        /\ UNCHANGED <<gate, stray>>
        /\ UNCHANGED <<loop, current, swap, finished, pending, spoken, heard>>
    BY <1>1 DEF SendFails, CallAt, CallGoto, serviceVars, textVars
  <2> QED
    BY <2>1, CallLeavesKeepsInv
<1>2. CASE OpenGate(m)
  <2>1. /\ call[m].pc = "failed" /\ call' = [call EXCEPT ![m].pc = "over"]
        /\ gate' = NoTurn /\ stray' = (stray \/ gate \notin {m, NoTurn})
        /\ UNCHANGED <<loop, current, swap, finished, pending, spoken, heard>>
    BY <1>2 DEF OpenGate, CallAt, CallGoto, textVars
  <2> QED
    BY <2>1, CallLeavesKeepsInv
<1>3. CASE RecordMessage(m)
  <2>1. /\ call[m].pc = "sent" /\ call' = [call EXCEPT ![m].pc = "over"]
        /\ UNCHANGED <<gate, stray>>
        /\ UNCHANGED <<loop, current, swap, finished, pending, spoken, heard>>
    BY <1>3 DEF RecordMessage, CallAt, CallGoto, serviceVars, textVars
  <2> QED
    BY <2>1, CallLeavesKeepsInv
<1> QED
  BY <1>1, <1>2, <1>3

\* The message goes from the call, which has the gate, to the operator's queue.
LEMMA SendKeepsInv ==
  ASSUME IInv, NEW m \in Calls, Send(m)
  PROVE  IInv'
<1> DEFINE o == call[m].op
           u == Append(loop[o].queue, m)
           r == [loop[o] EXCEPT !.queue = u]
           s == [call[m] EXCEPT !.pc = "sent"]
<1>1. /\ call \in [Calls -> CallState] /\ call[m] \in CallState
      /\ o \in Operators /\ current \in Operators
  BY CallFacts
<1>2. /\ loop \in [Operators -> Loops] /\ loop[o] \in Loops /\ LoopOK(loop[o])
      /\ loop[o].queue \in Seq(Events)
  BY <1>1, LoopFacts
<1>3. /\ call[m].pc = "gated" /\ loop' = [loop EXCEPT ![o] = r] /\ call' = [call EXCEPT ![m] = s]
      /\ UNCHANGED <<current, swap, gate, stray, finished, pending, spoken, heard>>
  BY <1>1, <1>2 DEF Send, CallAt, CallGoto, serviceVars, textVars
<1>4. ~(o > current)
  <2>1. o <= current
    BY <1>3, CallFacts
  <2> QED
    BY <1>1, <2>1 DEF Operators
<1>5. m \notin finished /\ \A p \in Operators : m \notin Mine(loop[p])
  BY <1>3 DEF IInv, PlacesInv
<1>6. m \notin InQueue(loop[o].queue) /\ m /= loop[o].turn
  BY <1>1, <1>5 DEF Mine
<1>7. u \in Seq(Events) /\ InQueue(u) = InQueue(loop[o].queue) \cup {m} /\ OnceEach(u)
  <2>1. m \in Events
    BY DEF Events
  <2> QED
    BY <1>2, <1>6, <2>1, QueueGrows DEF LoopOK
<1> HIDE DEF u
<1>8. /\ r \in Loops /\ r.pc = loop[o].pc /\ r.queue = u /\ r.turn = loop[o].turn
      /\ r.activeTurn = loop[o].activeTurn /\ r.buf = loop[o].buf
  BY <1>2, <1>7 DEF Loops
<1>9. s \in CallState /\ s.pc = "sent" /\ s.op = o
  BY <1>1 DEF CallState
<1> HIDE DEF r, s, o
<1>10. LoopOK(r)
  BY <1>2, <1>6, <1>7, <1>8 DEF LoopOK
<1>11. Mine(r) = Mine(loop[o]) \cup {m} /\ Open(r) = Open(loop[o]) \cup {m}
  BY <1>7, <1>8 DEF Mine, Open
<1>12. /\ loop' \in [Operators -> Loops] /\ loop'[o] = r
       /\ \A p \in Operators \ {o} : loop'[p] = loop[p]
  BY <1>1, <1>2, <1>3, <1>8
<1>13. /\ call' \in [Calls -> CallState] /\ call'[m] = s
       /\ \A n \in Calls \ {m} : call'[n] = call[n]
  BY <1>1, <1>3, <1>9
<1>14. PlacesInv'
  <2>1. \A p \in Operators : LoopOK(loop'[p])
    BY <1>10, <1>12 DEF IInv, PlacesInv
  <2>2. \A p \in Operators : Mine(loop'[p]) \subseteq Mine(loop[p]) \cup (IF p = o THEN {m} ELSE {})
    BY <1>11, <1>12
  <2>3. ASSUME NEW p \in Operators, NEW q \in Operators, p /= q
        PROVE  Mine(loop'[p]) \cap Mine(loop'[q]) = {}
    <3>1. Mine(loop[p]) \cap Mine(loop[q]) = {}
      BY <2>3 DEF IInv, PlacesInv
    <3> QED
      BY <1>5, <2>2, <2>3, <3>1
  <2>4. ASSUME NEW p \in Operators PROVE Mine(loop'[p]) \cap finished' = {}
    <3>1. Mine(loop[p]) \cap finished = {}
      BY DEF IInv, PlacesInv
    <3> QED
      BY <1>3, <1>5, <2>2, <3>1
  <2>5. \A n \in Calls : call[n].pc \in {"sent", "over"} => call'[n].pc \in {"sent", "over"}
    BY <1>3, <1>13
  <2>6. ASSUME NEW p \in Operators, NEW n \in Mine(loop'[p])
        PROVE  call'[n].pc \in {"sent", "over"}
    <3>1. CASE n = m
      BY <1>9, <1>13, <3>1
    <3>2. CASE n \in Mine(loop[p])
      BY <2>5, <3>2, OpenIsMine DEF IInv, PlacesInv
    <3> QED
      BY <2>2, <3>1, <3>2
  <2>7. \A n \in finished' : call'[n].pc \in {"sent", "over"}
    <3>1. finished \subseteq Calls
      BY DEF IInv, Types
    <3> QED
      BY <1>3, <2>5, <3>1 DEF IInv, PlacesInv
  <2> QED
    BY <2>1, <2>3, <2>4, <2>6, <2>7 DEF PlacesInv
<1>15. OfficeInv'
  <2>1. \A n \in Calls : call'[n].pc /= "new" => call'[n].op <= current
    <3>1. call[m].op <= current
      BY <1>3, CallFacts
    <3> QED
      BY <1>9, <1>13, <3>1 DEF IInv, OfficeInv, o
  <2>2. \A p \in Operators : p > current => p /= o
    BY <1>4
  <2> QED
    BY <1>3, <1>12, <2>1, <2>2 DEF IInv, OfficeInv
<1>16. GateInv'
  <2> SUFFICES ASSUME ~stray, NEW n \in Calls, Covered(n)' PROVE gate = n
    BY <1>3 DEF GateInv
  <2>1. Covered(n)
    <3>1. CASE n = m
      <4>1. current = o
        <5>1. m \in Open(loop'[current])
          BY <1>3, <1>9, <1>13, <3>1 DEF Covered
        <5>2. m \notin Open(loop[current])
          BY <1>1, <1>5, OpenIsMine
        <5> QED
          BY <1>1, <1>12, <5>1, <5>2
      <4> QED
        BY <1>3, <3>1, <4>1 DEF Covered, o
    <3>2. CASE n /= m
      <4>1. call'[n] = call[n]
        BY <1>13, <3>2
      <4>2. n \in Open(loop'[current]) => n \in Open(loop[current])
        BY <1>1, <1>11, <1>12, <3>2
      <4> QED
        BY <1>3, <4>1, <4>2 DEF Covered
    <3> QED
      BY <3>1, <3>2
  <2> QED
    BY <2>1 DEF IInv, GateInv
<1>17. TextInv'
  BY <1>1, <1>3, <1>8, TextStays DEF IInv
<1>18. Types'
  BY <1>3, <1>12, <1>13 DEF IInv, Types
<1> QED
  BY <1>14, <1>15, <1>16, <1>17, <1>18 DEF IInv

----------------------------------------------------------------------------
(* startOperator, and the theorems.                                        *)

\* From SwapCancel to SwapInstall no operator is in office.
LEMMA SwapKeepsInv ==
  ASSUME IInv, SwapCancel \/ SwapClear
  PROVE  IInv'
<1>1. /\ swap' /= "no"
      /\ UNCHANGED <<current, call, loop, finished, spoken, heard, stray>>
      /\ pending' \subseteq pending /\ (current <= MaxSwaps \/ swap /= "no")
  BY DEF SwapCancel, SwapClear, textVars
<1>2. Types'
  BY <1>1 DEF IInv, Types
<1>3. PlacesInv' /\ OfficeInv' /\ TextInv'
  BY <1>1 DEF IInv, PlacesInv, OfficeInv, TextInv
<1>4. GateInv'
  BY <1>1 DEF GateInv, Covered
<1> QED
  BY <1>2, <1>3, <1>4 DEF IInv

\* The operator that takes office has nothing to do with any call yet.
LEMMA InstallKeepsInv ==
  ASSUME IInv, SwapInstall
  PROVE  IInv'
<1>1. /\ swap = "cleared" /\ swap' = "no" /\ current' = current + 1
      /\ UNCHANGED <<gate, call, loop, pending, finished, spoken, heard, stray>>
  BY DEF SwapInstall, textVars
<1>2. current \in Operators /\ current <= MaxSwaps
  BY <1>1 DEF IInv, Types
<1>3. current' \in Operators /\ current' > current
  BY <1>1, <1>2 DEF Operators
<1>4. Types'
  BY <1>1, <1>3 DEF IInv, Types
<1>5. PlacesInv' /\ TextInv'
  BY <1>1 DEF IInv, PlacesInv, TextInv
<1>6. \A m \in Calls : call[m].pc /= "new" => call[m].op \in Operators /\ call[m].op <= current
  BY CallFacts
<1>7. OfficeInv'
  <2>1. \A m \in Calls : call[m].pc /= "new" => call[m].op <= current'
    BY <1>1, <1>2, <1>6 DEF Operators
  <2>2. \A p \in Operators : p > current' => p > current
    BY <1>1, <1>2 DEF Operators
  <2> QED
    BY <1>1, <2>1, <2>2 DEF IInv, OfficeInv
<1>8. ASSUME NEW m \in Calls, Covered(m)' PROVE FALSE
  <2>1. call[m].pc = "gated" => call[m].op /= current'
    BY <1>1, <1>2, <1>6 DEF Operators
  <2>2. /\ loop[current'].pc = "idle" /\ loop[current'].queue = <<>>
    BY <1>3 DEF IInv, OfficeInv
  <2>3. m \notin Open(loop[current'])
    BY <2>2, EmptyQueue DEF Open
  <2> QED
    BY <1>1, <1>8, <2>1, <2>3 DEF Covered
<1>9. GateInv'
  BY <1>8 DEF GateInv
<1> QED
  BY <1>4, <1>5, <1>7, <1>9 DEF IInv

LEMMA IInvInit == Init => IInv
<1> SUFFICES ASSUME Init PROVE IInv
  OBVIOUS
<1>1. 1 \in Operators
  BY DEF Operators
<1>2. NewLoop \in Loops
  BY EmptyQueue DEF NewLoop, Loops, Turns
<1>3. \A o \in Operators : loop[o] = NewLoop
  BY DEF Init
<1>4. \A m \in Calls : call[m].pc = "new"
  BY DEF Init
<1>5. Types
  <2>1. call \in [Calls -> CallState]
    BY <1>1 DEF Init, CallState
  <2>2. loop \in [Operators -> Loops]
    BY <1>2 DEF Init
  <2>3. IsFiniteSet({})
    BY FS_EmptySet
  <2> QED
    BY <1>1, <2>1, <2>2, <2>3 DEF Init, Types
<1>6. LoopOK(NewLoop) /\ Mine(NewLoop) = {} /\ Open(NewLoop) = {}
  BY EmptyQueue DEF LoopOK, Mine, Open, NewLoop, Adding
<1>7. PlacesInv
  <2>1. finished = {}
    BY DEF Init
  <2> QED
    BY <1>3, <1>6, <2>1 DEF PlacesInv
<1>8. OfficeInv
  BY <1>3, <1>4 DEF OfficeInv, NewLoop
<1>9. TextInv
  BY DEF Init, TextInv
<1>10. GateInv
  <2>1. current \in Operators
    BY <1>1 DEF Init
  <2> QED
    BY <1>3, <1>4, <1>6, <2>1 DEF GateInv, Covered
<1> QED
  BY <1>5, <1>7, <1>8, <1>9, <1>10 DEF IInv

LEMMA IInvKept == IInv /\ [Next]_vars => IInv'
<1> SUFFICES ASSUME IInv, [Next]_vars PROVE IInv'
  OBVIOUS
<1>1. CASE SwapCancel \/ StartOperator
  BY <1>1, SwapKeepsInv, InstallKeepsInv DEF StartOperator
<1>2. CASE SystemEvent
  BY <1>2, SystemEventKeepsInv
<1>3. ASSUME NEW m \in Calls, SendMessage(m) \/ SendFails(m) PROVE IInv'
  BY <1>3, ChooseKeepsInv, TakeGateKeepsInv, SendKeepsInv, CallEndsKeepsInv DEF SendMessage
<1>4. ASSUME NEW o \in Operators, Turn(o) \/ TimerFires(o) PROVE IInv'
  BY <1>4, TakeEventKeepsInv, MovingKeepsInv, LabelKeepsInv, AddKeepsInv, FlushKeepsInv,
     ReleaseKeepsInv, AnnounceKeepsInv, TimerKeepsInv DEF Turn, ServeTurns
<1>5. CASE UNCHANGED vars
  <2>1. UNCHANGED <<current, swap, gate, call, loop, pending, spoken, heard, finished, stray>>
    BY <1>5 DEF vars
  <2>2. Types' /\ PlacesInv'
    BY <2>1 DEF IInv, Types, PlacesInv
  <2>3. OfficeInv' /\ TextInv'
    BY <2>1 DEF IInv, OfficeInv, TextInv
  <2>4. GateInv'
    BY <2>1 DEF IInv, GateInv, Covered
  <2> QED
    BY <2>2, <2>3, <2>4 DEF IInv
<1> QED
  BY <1>1, <1>2, <1>3, <1>4, <1>5 DEF Next

LEMMA IInvAlways == Spec => []IInv
BY IInvInit, IInvKept, PTL DEF Spec

\* What a turn says is broadcast under its own id, and before its end is, for any
\* number of operators that replace one another (emitText, OnTurnDone and the
\* timer of the batcher, local_operator.go).
THEOREM TextLabelled == Spec => []TurnTextIsLabelled
<1>1. IInv => TurnTextIsLabelled
  <2> SUFFICES ASSUME IInv PROVE TurnTextIsLabelled
    OBVIOUS
  <2>1. ASSUME NEW t \in spoken, t.inTurn, t.turn \in finished,
               NEW o \in Operators, t \in loop[o].buf
        PROVE  FALSE
    <3>1. t.turn = loop[o].turn /\ t.turn \in Calls
      BY <2>1 DEF IInv, Types, PlacesInv, LoopOK
    <3>2. t.turn \in Mine(loop[o])
      BY <3>1 DEF Mine
    <3> QED
      BY <2>1, <3>2 DEF IInv, PlacesInv
  <2> QED
    BY <2>1 DEF IInv, TextInv, TurnTextIsLabelled
<1> QED
  BY <1>1, IInvAlways, PTL

\* While the operator in office has a user's turn queued or running, the gate is
\* closed on that turn, so SendMessage accepts no other (SendMessage,
\* BroadcastOperatorDone and startOperator, local_operator.go), unless a send to a
\* replaced operator failed.
THEOREM GateCovers == Spec => []GateCoversTurn
<1>1. IInv => GateCoversTurn
  <2> SUFFICES ASSUME IInv, ~stray, NEW m \in InOffice PROVE gate = m
    BY DEF GateCoversTurn
  <2>1. current \in Operators
    BY DEF IInv, Types
  <2>2. swap = "no" /\ m \in Open(loop[current])
    BY DEF InOffice, Unfinished, Open, InQueue
  <2>3. m \in Calls
    BY <2>2, OpenIsMine
  <2> QED
    BY <2>2, <2>3 DEF IInv, GateInv, Covered
<1> QED
  BY <1>1, IInvAlways, PTL

----------------------------------------------------------------------------
(* Where the pieces of text are.                                           *)

Spots == ({"buf", "held"} \X Operators) \cup ({"pending", "recorded", "dropped"} \X {0})
Content(x) == CASE x[1] = "buf" -> loop[x[2]].buf
                [] x[1] = "held" -> loop[x[2]].held
                [] x[1] = "pending" -> pending
                [] x[1] = "recorded" -> recorded
                [] x[1] = "dropped" -> dropped

\* What was said is in one spot; a loop holds a reply only until it records it,
\* so that the reply Release hands it replaces none.
Numbered == \A t \in spoken : t.n \in 1..Cardinality(spoken)
Partition ==
  /\ \A x \in Spots : Content(x) \subseteq spoken
  /\ \A t \in spoken : \E x \in Spots : t \in Content(x)
  /\ \A x, y \in Spots : x /= y => Content(x) \cap Content(y) = {}
HeldInv == \A o \in Operators : loop[o].held /= {} => loop[o].pc = "record"
SpotsInv == Numbered /\ Partition /\ HeldInv

LEMMA SpotKinds ==
  /\ \A o \in Operators : <<"buf", o>> \in Spots /\ <<"held", o>> \in Spots
  /\ <<"pending", 0>> \in Spots /\ <<"recorded", 0>> \in Spots /\ <<"dropped", 0>> \in Spots
  /\ \A x \in Spots : \/ \E o \in Operators : x = <<"buf", o>> \/ x = <<"held", o>>
                      \/ x \in {<<"pending", 0>>, <<"recorded", 0>>, <<"dropped", 0>>}
BY DEF Spots

LEMMA ContentIs ==
  /\ \A o \in Operators : Content(<<"buf", o>>) = loop[o].buf /\ Content(<<"held", o>>) = loop[o].held
  /\ Content(<<"pending", 0>>) = pending
  /\ Content(<<"recorded", 0>>) = recorded /\ Content(<<"dropped", 0>>) = dropped
BY DEF Content

\* As above, of the next state.
LEMMA ContentBecomes ==
  /\ \A o \in Operators : /\ Content(<<"buf", o>>)' = loop'[o].buf
                          /\ Content(<<"held", o>>)' = loop'[o].held
  /\ Content(<<"pending", 0>>)' = pending'
  /\ Content(<<"recorded", 0>>)' = recorded' /\ Content(<<"dropped", 0>>)' = dropped'
BY DEF Content

LEMMA ContentStays ==
  ASSUME NEW z \in Spots,
         \A p \in Operators : /\ z = <<"buf", p>> => loop'[p].buf = loop[p].buf
                              /\ z = <<"held", p>> => loop'[p].held = loop[p].held,
         z = <<"pending", 0>> => pending' = pending,
         z = <<"recorded", 0>> => recorded' = recorded,
         z = <<"dropped", 0>> => dropped' = dropped
  PROVE  Content(z)' = Content(z)
<1>1. CASE \E p \in Operators : z = <<"buf", p>>
  <2>1. PICK p \in Operators : z = <<"buf", p>>
    BY <1>1
  <2>2. loop'[p].buf = loop[p].buf
    BY <2>1
  <2>3. z[1] = "buf" /\ z[2] = p
    BY <2>1
  <2> QED
    BY <2>2, <2>3 DEF Content
<1>2. CASE \E p \in Operators : z = <<"held", p>>
  <2>1. PICK p \in Operators : z = <<"held", p>>
    BY <1>2
  <2>2. loop'[p].held = loop[p].held
    BY <2>1
  <2>3. z[1] = "held" /\ z[2] = p
    BY <2>1
  <2> QED
    BY <2>2, <2>3 DEF Content
<1>3. CASE z \in {<<"pending", 0>>, <<"recorded", 0>>, <<"dropped", 0>>}
  BY <1>3 DEF Content
<1> QED
  BY <1>1, <1>2, <1>3, SpotKinds

\* All of one spot goes to another.
LEMMA MovingKeepsPartition ==
  ASSUME Partition, UNCHANGED spoken, NEW x \in Spots, NEW y \in Spots, x /= y,
         Content(x)' = {}, Content(y)' = Content(y) \cup Content(x),
         \A z \in Spots \ {x, y} : Content(z)' = Content(z)
  PROVE  Partition'
<1>1. \A z \in Spots : Content(z)' \subseteq spoken'
  BY DEF Partition
<1>2. \A t \in spoken' : \E z \in Spots : t \in Content(z)'
  <2> TAKE t \in spoken'
  <2>1. PICK z \in Spots : t \in Content(z)
    BY DEF Partition
  <2>2. CASE z \in {x, y}
    BY <2>1, <2>2
  <2>3. CASE z \notin {x, y}
    BY <2>1, <2>3
  <2> QED
    BY <2>2, <2>3
<1>3. ASSUME NEW z \in Spots, NEW w \in Spots, z /= w PROVE Content(z)' \cap Content(w)' = {}
  <2>1. /\ Content(z) \cap Content(w) = {}
        /\ Content(z) \cap Content(x) = {} \/ z = x
        /\ Content(w) \cap Content(x) = {} \/ w = x
    BY <1>3 DEF Partition
  <2>2. Content(z)' = {} \/ Content(z)' = Content(z) \/ (z = y /\ Content(z)' = Content(y) \cup Content(x))
    OBVIOUS
  <2>3. Content(w)' = {} \/ Content(w)' = Content(w) \/ (w = y /\ Content(w)' = Content(y) \cup Content(x))
    OBVIOUS
  <2>4. (z = x => Content(z)' = {}) /\ (w = x => Content(w)' = {})
    OBVIOUS
  <2> QED
    BY <1>3, <2>1, <2>2, <2>3, <2>4
<1> QED
  BY <1>1, <1>2, <1>3 DEF Partition

\* Nothing goes anywhere.
LEMMA StayingKeepsSpots ==
  ASSUME SpotsInv, UNCHANGED <<spoken, pending, recorded, dropped>>,
         \A o \in Operators : /\ loop'[o].buf = loop[o].buf /\ loop'[o].held = loop[o].held
                              /\ loop[o].pc = "record" => loop'[o].pc = "record"
  PROVE  SpotsInv'
<1>1. \A x \in Spots : Content(x)' = Content(x)
  BY ContentStays
<1>2. Partition'
  BY <1>1 DEF SpotsInv, Partition
<1>3. Numbered' /\ HeldInv'
  BY DEF SpotsInv, Numbered, HeldInv
<1> QED
  BY <1>2, <1>3 DEF SpotsInv

LEMMA QuietKeepsSpots ==
  ASSUME IInv, SpotsInv, NEW o \in Operators,
         Exit(o) \/ EndTurn(o) \/ Label(o) \/ TakeEvent(o) \/ Announce(o)
  PROVE  SpotsInv'
<1>1. loop \in [Operators -> Loops] /\ loop[o] \in Loops
  BY LoopFacts
<1>2. UNCHANGED <<spoken, pending, recorded, dropped>>
  BY DEF Exit, EndTurn, Label, TakeEvent, Announce, textVars
<1>3. /\ \A p \in Operators \ {o} : loop'[p] = loop[p]
      /\ loop'[o].buf = loop[o].buf /\ loop'[o].held = loop[o].held
      /\ loop[o].pc /= "record"
  <2>1. CASE Exit(o)
    BY <1>1, <2>1 DEF Exit, LoopAt, LoopGoto, Loops
  <2>5. CASE EndTurn(o)
    BY <1>1, <2>5 DEF EndTurn, LoopAt, LoopGoto, Loops
  <2>2. CASE Label(o)
    BY <1>1, <2>2 DEF Label, LoopAt, Loops
  <2>3. CASE TakeEvent(o)
    <3>1. PICK u, n, x : loop' = [loop EXCEPT ![o].queue = u, ![o].turn = n, ![o].pc = x]
      BY <2>3 DEF TakeEvent
    <3>2. loop[o].pc = "idle"
      BY <2>3 DEF TakeEvent, LoopAt
    <3> QED
      BY <1>1, <3>1, <3>2 DEF Loops
  <2>4. CASE Announce(o)
    BY <1>1, <2>4 DEF Announce, LoopAt, Loops
  <2> QED
    BY <2>1, <2>2, <2>3, <2>4, <2>5
<1> QED
  BY <1>2, <1>3, StayingKeepsSpots

\* What others do to a loop is to put an event into its channel.
LEMMA OthersKeepSpots ==
  ASSUME IInv, SpotsInv,
         \/ SystemEvent \/ SwapCancel \/ SwapInstall \/ UNCHANGED vars
         \/ \E m \in Calls : SendMessage(m) \/ SendFails(m)
  PROVE  SpotsInv'
<1>1. loop \in [Operators -> Loops] /\ current \in Operators
  BY DEF IInv, Types
<1>2. UNCHANGED <<spoken, pending, recorded, dropped>>
  BY DEF SystemEvent, SwapCancel, SwapInstall, SendMessage, SendFails, ChooseOperator, TakeGate,
         Send, OpenGate, RecordMessage, textVars, vars
<1>3. UNCHANGED loop \/ \E o \in Operators : \E u : loop' = [loop EXCEPT ![o].queue = u]
  <2>1. CASE SystemEvent
    BY <1>1, <2>1 DEF SystemEvent
  <2>2. CASE SwapCancel \/ SwapInstall \/ UNCHANGED vars
    BY <2>2 DEF SwapCancel, SwapInstall, vars
  <2>3. ASSUME NEW m \in Calls, Send(m) PROVE \E o \in Operators : \E u : loop' = [loop EXCEPT ![o].queue = u]
    <3>1. call[m].op \in Operators
      BY CallFacts
    <3> QED
      BY <2>3, <3>1 DEF Send
  <2>4. ASSUME NEW m \in Calls,
               \/ ChooseOperator(m) \/ TakeGate(m) \/ OpenGate(m) \/ RecordMessage(m)
               \/ SendFails(m)
        PROVE  UNCHANGED loop
    BY <2>4 DEF ChooseOperator, TakeGate, OpenGate, RecordMessage, SendFails
  <2> QED
    BY <2>1, <2>2, <2>3, <2>4 DEF SendMessage
<1>4. \A p \in Operators : /\ loop'[p].buf = loop[p].buf /\ loop'[p].held = loop[p].held
                           /\ loop'[p].pc = loop[p].pc
  <2>1. CASE UNCHANGED loop
    BY <2>1
  <2>2. ASSUME NEW o \in Operators, NEW u, loop' = [loop EXCEPT ![o].queue = u]
        PROVE  \A p \in Operators : /\ loop'[p].buf = loop[p].buf /\ loop'[p].held = loop[p].held
                                     /\ loop'[p].pc = loop[p].pc
    BY <1>1, <2>2 DEF Loops
  <2> QED
    BY <1>3, <2>1, <2>2
<1> QED
  BY <1>2, <1>4, StayingKeepsSpots

\* The batcher is emptied into the pending response.
LEMMA DrainKeepsSpots ==
  ASSUME IInv, SpotsInv, NEW o \in Operators, TimerFires(o) \/ FlushTurn(o)
  PROVE  SpotsInv'
<1>1. loop \in [Operators -> Loops] /\ loop[o] \in Loops
  BY LoopFacts
<1>2. /\ pending' = pending \cup loop[o].buf /\ UNCHANGED <<spoken, recorded, dropped>>
  BY DEF TimerFires, FlushTurn, Drained
<1>3. /\ \A p \in Operators \ {o} : loop'[p] = loop[p]
      /\ loop'[o].buf = {} /\ loop'[o].held = loop[o].held
      /\ loop[o].pc = "record" => loop'[o].pc = "record"
  <2>1. CASE TimerFires(o)
    BY <1>1, <2>1 DEF TimerFires, Loops
  <2>2. CASE FlushTurn(o)
    BY <1>1, <2>2 DEF FlushTurn, LoopAt, Loops
  <2> QED
    BY <2>1, <2>2
<1>4. /\ Content(<<"buf", o>>)' = {}
      /\ Content(<<"pending", 0>>)' = Content(<<"pending", 0>>) \cup Content(<<"buf", o>>)
      /\ \A z \in Spots \ {<<"buf", o>>, <<"pending", 0>>} : Content(z)' = Content(z)
  BY <1>2, <1>3, SpotKinds, ContentIs, ContentBecomes, ContentStays
<1>5. Partition'
  BY <1>2, <1>4, SpotKinds, MovingKeepsPartition DEF SpotsInv
<1>6. Numbered' /\ HeldInv'
  BY <1>2, <1>3 DEF SpotsInv, Numbered, HeldInv
<1> QED
  BY <1>5, <1>6 DEF SpotsInv

LEMMA ReleaseKeepsSpots ==
  ASSUME IInv, SpotsInv, NEW o \in Operators, Release(o)
  PROVE  SpotsInv'
<1>1. loop \in [Operators -> Loops] /\ loop[o] \in Loops
  BY LoopFacts
<1>2. loop[o].pc = "release" /\ pending' = {} /\ UNCHANGED <<spoken, recorded, dropped>>
  BY DEF Release, LoopAt
<1>3. /\ \A p \in Operators \ {o} : loop'[p] = loop[p]
      /\ loop'[o].buf = loop[o].buf /\ loop'[o].held = pending /\ loop'[o].pc = "record"
  BY <1>1 DEF Release, Loops
<1>4. loop[o].held = {}
  BY <1>2 DEF SpotsInv, HeldInv
<1>5. /\ Content(<<"pending", 0>>)' = {}
      /\ Content(<<"held", o>>)' = Content(<<"held", o>>) \cup Content(<<"pending", 0>>)
      /\ \A z \in Spots \ {<<"held", o>>, <<"pending", 0>>} : Content(z)' = Content(z)
  <2>1. /\ Content(<<"pending", 0>>)' = {} /\ Content(<<"pending", 0>>) = pending
        /\ Content(<<"held", o>>)' = pending /\ Content(<<"held", o>>) = {}
    BY <1>2, <1>3, <1>4, ContentIs, ContentBecomes
  <2>2. ASSUME NEW z \in Spots \ {<<"held", o>>, <<"pending", 0>>} PROVE Content(z)' = Content(z)
    BY <1>2, <1>3, ContentStays
  <2> QED
    BY <2>1, <2>2
<1>6. Partition'
  BY <1>2, <1>5, SpotKinds, MovingKeepsPartition DEF SpotsInv
<1>7. Numbered' /\ HeldInv'
  BY <1>2, <1>3 DEF SpotsInv, Numbered, HeldInv
<1> QED
  BY <1>6, <1>7 DEF SpotsInv

LEMMA RecordKeepsSpots ==
  ASSUME IInv, SpotsInv, NEW o \in Operators, RecordReply(o)
  PROVE  SpotsInv'
<1>1. loop \in [Operators -> Loops] /\ loop[o] \in Loops
  BY LoopFacts
<1>2. recorded' = recorded \cup loop[o].held /\ UNCHANGED <<spoken, pending, dropped>>
  BY DEF RecordReply
<1>3. /\ \A p \in Operators \ {o} : loop'[p] = loop[p]
      /\ loop'[o].buf = loop[o].buf /\ loop'[o].held = {}
  BY <1>1 DEF RecordReply, Loops
<1>4. /\ Content(<<"held", o>>)' = {}
      /\ Content(<<"recorded", 0>>)' = Content(<<"recorded", 0>>) \cup Content(<<"held", o>>)
      /\ \A z \in Spots \ {<<"held", o>>, <<"recorded", 0>>} : Content(z)' = Content(z)
  BY <1>2, <1>3, SpotKinds, ContentIs, ContentBecomes, ContentStays
<1>5. Partition'
  BY <1>2, <1>4, SpotKinds, MovingKeepsPartition DEF SpotsInv
<1>6. Numbered' /\ HeldInv'
  BY <1>2, <1>3 DEF SpotsInv, Numbered, HeldInv
<1> QED
  BY <1>5, <1>6 DEF SpotsInv

\* What the replaced operator was saying is thrown away.
LEMMA ClearKeepsSpots ==
  ASSUME SpotsInv, SwapClear
  PROVE  SpotsInv'
<1>1. pending' = {} /\ dropped' = dropped \cup pending /\ UNCHANGED <<loop, spoken, recorded>>
  BY DEF SwapClear
<1>2. /\ Content(<<"pending", 0>>)' = {}
      /\ Content(<<"dropped", 0>>)' = Content(<<"dropped", 0>>) \cup Content(<<"pending", 0>>)
      /\ \A z \in Spots \ {<<"dropped", 0>>, <<"pending", 0>>} : Content(z)' = Content(z)
  BY <1>1, SpotKinds, ContentIs, ContentBecomes, ContentStays
<1>3. Partition'
  BY <1>1, <1>2, SpotKinds, MovingKeepsPartition DEF SpotsInv
<1>4. Numbered' /\ HeldInv'
  BY <1>1 DEF SpotsInv, Numbered, HeldInv
<1> QED
  BY <1>3, <1>4 DEF SpotsInv

\* A new piece has a number no other has.
LEMMA AddKeepsSpots ==
  ASSUME IInv, SpotsInv, NEW o \in Operators, Add(o)
  PROVE  SpotsInv' /\ Cardinality(spoken') = Cardinality(spoken) + 1
<1> DEFINE t == Text(o)
<1>1. loop \in [Operators -> Loops] /\ loop[o] \in Loops
  BY LoopFacts
<1>2. /\ spoken' = spoken \cup {t} /\ UNCHANGED <<pending, recorded, dropped>>
      /\ loop[o].pc \in Adding
  BY DEF Add
<1>3. t.n = Cardinality(spoken) + 1
  BY DEF Text
<1>4. IsFiniteSet(spoken) /\ Cardinality(spoken) \in Nat
  BY FS_CardinalityType DEF IInv, Types
<1>5. t \notin spoken
  BY <1>3, <1>4 DEF SpotsInv, Numbered
<1>6. Cardinality(spoken') = Cardinality(spoken) + 1
  BY <1>2, <1>4, <1>5, FS_AddElement
<1>7. /\ \A p \in Operators \ {o} : loop'[p] = loop[p]
      /\ loop'[o].buf = loop[o].buf \cup {t} /\ loop'[o].held = loop[o].held
      /\ loop[o].pc /= "record"
  <2> HIDE DEF t
  <2>1. loop' = [loop EXCEPT ![o].buf = @ \cup {t},
                             ![o].pc = IF @ = "adding" THEN "turn" ELSE "idle"]
    BY DEF Add, t
  <2> QED
    BY <1>1, <1>2, <2>1 DEF Loops, Adding
<1> HIDE DEF t
<1>8. /\ Content(<<"buf", o>>)' = Content(<<"buf", o>>) \cup {t}
      /\ \A z \in Spots \ {<<"buf", o>>} : Content(z)' = Content(z)
  BY <1>2, <1>7, SpotKinds, ContentIs, ContentBecomes, ContentStays
<1>9. Partition'
  <2> DEFINE x == <<"buf", o>>
  <2>1. x \in Spots
    BY SpotKinds
  <2>2. Content(x)' = Content(x) \cup {t} /\ \A z \in Spots \ {x} : Content(z)' = Content(z)
    BY <1>8
  <2> HIDE DEF x
  <2>3. Partition
    BY DEF SpotsInv
  <2>4. \A z \in Spots : Content(z)' \subseteq spoken'
    BY <1>2, <2>2, <2>3 DEF Partition
  <2>5. \A u \in spoken' : \E z \in Spots : u \in Content(z)'
    BY <1>2, <2>1, <2>2, <2>3 DEF Partition
  <2>6. \A z, w \in Spots : z /= w => Content(z)' \cap Content(w)' = {}
    <3> SUFFICES ASSUME NEW z \in Spots, NEW w \in Spots, z /= w
                 PROVE  Content(z)' \cap Content(w)' = {}
      OBVIOUS
    <3>1. Content(z) \cap Content(w) = {} /\ t \notin Content(z) /\ t \notin Content(w)
      BY <1>5, <2>3 DEF Partition
    <3>2. z = x \/ w = x \/ (Content(z)' = Content(z) /\ Content(w)' = Content(w))
      BY <2>2
    <3> QED
      BY <2>2, <3>1, <3>2
  <2> QED
    BY <2>4, <2>5, <2>6 DEF Partition
<1>10. Numbered'
  <2> SUFFICES ASSUME NEW u \in spoken' PROVE u.n \in 1..Cardinality(spoken')
    BY DEF Numbered
  <2>1. CASE u = t
    BY <1>3, <1>4, <1>6, <2>1
  <2>2. CASE u \in spoken
    <3>1. u.n \in 1..Cardinality(spoken)
      BY <2>2 DEF SpotsInv, Numbered
    <3> QED
      BY <1>4, <1>6, <3>1
  <2> QED
    BY <1>2, <2>1, <2>2
<1>11. HeldInv'
  BY <1>7 DEF SpotsInv, HeldInv
<1> QED
  BY <1>6, <1>9, <1>10, <1>11 DEF SpotsInv

LEMMA SpotsAtFirst == Init => SpotsInv
<1> SUFFICES ASSUME Init PROVE SpotsInv
  OBVIOUS
<1>1. \A o \in Operators : loop[o].buf = {} /\ loop[o].held = {}
  BY DEF Init, NewLoop
<1>2. \A x \in Spots : Content(x) = {}
  BY <1>1, SpotKinds, ContentIs DEF Init
<1> QED
  BY <1>1, <1>2 DEF Init, SpotsInv, Numbered, Partition, HeldInv

LEMMA SpotsKept == IInv /\ SpotsInv /\ [Next]_vars => SpotsInv'
<1> SUFFICES ASSUME IInv, SpotsInv, [Next]_vars PROVE SpotsInv'
  OBVIOUS
<1>1. CASE \/ SystemEvent \/ SwapCancel \/ SwapInstall \/ UNCHANGED vars
           \/ \E m \in Calls : SendMessage(m) \/ SendFails(m)
  BY <1>1, OthersKeepSpots
<1>2. CASE SwapClear
  BY <1>2, ClearKeepsSpots
<1>3. ASSUME NEW o \in Operators, Turn(o) \/ TimerFires(o) PROVE SpotsInv'
  BY <1>3, QuietKeepsSpots, DrainKeepsSpots, ReleaseKeepsSpots, RecordKeepsSpots, AddKeepsSpots DEF Turn, ServeTurns
<1> QED
  BY <1>1, <1>2, <1>3 DEF Next, StartOperator

LEMMA SpotsAlways == Spec => [](IInv /\ SpotsInv)
<1>1. Init => IInv /\ SpotsInv
  BY IInvInit, SpotsAtFirst
<1>2. IInv /\ SpotsInv /\ [Next]_vars => (IInv /\ SpotsInv)'
  BY IInvKept, SpotsKept
<1> QED
  BY <1>1, <1>2, PTL DEF Spec

LEMMA OneSpot ==
  ASSUME SpotsInv, NEW t \in spoken
  PROVE  \E x \in Spots : \A y \in Spots : t \in Content(y) <=> y = x
<1>1. PICK x \in Spots : t \in Content(x)
  BY DEF SpotsInv, Partition
<1>2. \A y \in Spots : t \in Content(y) => y = x
  BY <1>1 DEF SpotsInv, Partition
<1> QED
  BY <1>1, <1>2

\* Every piece of text is in exactly one place on its way into the history, for
\* any number of operators: the batchers, the pending response, the reply being
\* recorded, the history's entries or what a swap discarded (BroadcastOperatorText,
\* BroadcastOperatorDone and startOperator, local_operator.go).
THEOREM RecordedOnce == Spec => []RepliesRecordedOnce
<1>1. ASSUME SpotsInv, NEW t \in spoken PROVE Places(t) = 1
  <2> DEFINE B == {o \in Operators : t \in loop[o].buf}
             H == {o \in Operators : t \in loop[o].held}
             P == {s \in {<<pending, 1>>, <<recorded, 2>>, <<dropped, 3>>} : t \in s[1]}
  <2>1. PICK x \in Spots : \A y \in Spots : t \in Content(y) <=> y = x
    BY <1>1, OneSpot
  <2>2. \A o \in Operators : (o \in B <=> x = <<"buf", o>>) /\ (o \in H <=> x = <<"held", o>>)
    BY <2>1, SpotKinds, ContentIs
  <2>3. /\ t \in pending <=> x = <<"pending", 0>>
        /\ t \in recorded <=> x = <<"recorded", 0>>
        /\ t \in dropped <=> x = <<"dropped", 0>>
    BY <2>1, SpotKinds, ContentIs
  <2>4. /\ Cardinality({}) = 0
        /\ \A o \in Operators : Cardinality({o}) = 1
        /\ \A s : Cardinality({s}) = 1
    BY FS_EmptySet, FS_Singleton
  <2>8. Places(t) = Cardinality(B) + Cardinality(H) + Cardinality(P)
    BY DEF Places
  <2>9. /\ \A s : s \in P => s \in {<<pending, 1>>, <<recorded, 2>>, <<dropped, 3>>}
        /\ <<pending, 1>> \in P <=> x = <<"pending", 0>>
        /\ <<recorded, 2>> \in P <=> x = <<"recorded", 0>>
        /\ <<dropped, 3>> \in P <=> x = <<"dropped", 0>>
    BY <2>3
  <2>10. B \subseteq Operators /\ H \subseteq Operators
    OBVIOUS
  <2> HIDE DEF B, H, P
  <2>5. CASE \E o \in Operators : x = <<"buf", o>>
    <3>1. PICK o \in Operators : x = <<"buf", o>>
      BY <2>5
    <3>2. B = {o} /\ H = {} /\ P = {}
      BY <2>2, <2>9, <2>10, <3>1
    <3> QED
      BY <2>4, <2>8, <3>2
  <2>6. CASE \E o \in Operators : x = <<"held", o>>
    <3>1. PICK o \in Operators : x = <<"held", o>>
      BY <2>6
    <3>2. B = {} /\ H = {o} /\ P = {}
      BY <2>2, <2>9, <2>10, <3>1
    <3> QED
      BY <2>4, <2>8, <3>2
  <2>7. CASE x \in {<<"pending", 0>>, <<"recorded", 0>>, <<"dropped", 0>>}
    <3>1. B = {} /\ H = {}
      BY <2>2, <2>7, <2>10
    <3>2. P = {<<pending, 1>>} \/ P = {<<recorded, 2>>} \/ P = {<<dropped, 3>>}
      <4>1. CASE x = <<"pending", 0>>
        BY <2>9, <4>1
      <4>2. CASE x = <<"recorded", 0>>
        BY <2>9, <4>2
      <4>3. CASE x = <<"dropped", 0>>
        BY <2>9, <4>3
      <4> QED
        BY <2>7, <4>1, <4>2, <4>3
    <3>3. Cardinality(P) = 1
      BY <3>2, FS_Singleton
    <3> QED
      BY <2>4, <2>8, <3>1, <3>3
  <2> QED
    BY <2>5, <2>6, <2>7, SpotKinds
<1>2. SpotsInv => RepliesRecordedOnce
  BY <1>1 DEF RepliesRecordedOnce
<1> QED
  BY <1>2, SpotsAlways, PTL

----------------------------------------------------------------------------
(* Types.  That no more is said than MaxTexts needs the pieces the loops    *)
(* have reserved.                                                           *)

TypesInv ==
  /\ gate \in Turns /\ swap \in {"no", "cancelled", "cleared"}
  /\ stray \in BOOLEAN /\ events \in 0..MaxEvents
  /\ spoken \subseteq SomeTexts /\ heard \subseteq spoken \X Turns
  /\ Cardinality(spoken) + Cardinality(Reserved) <= MaxTexts

LEMMA ReservedIsFinite ==
  /\ IsFiniteSet(Reserved) /\ Cardinality(Reserved) \in Nat
  /\ IsFiniteSet(Reserved') /\ Cardinality(Reserved') \in Nat
<1>1. IsFiniteSet(Operators)
  BY FS_Interval DEF Operators
<1>2. Reserved \subseteq Operators /\ Reserved' \subseteq Operators
  BY DEF Reserved
<1> QED
  BY <1>1, <1>2, FS_Subset, FS_CardinalityType

\* One loop at most reserves a piece, if there are any left.
LEMMA BudgetIsKept ==
  ASSUME IInv, TypesInv, UNCHANGED spoken,
         \/ \A p \in Operators : loop'[p].pc \in Adding \cup {"notice"}
                                   => loop[p].pc \in Adding \cup {"notice"}
         \/ TextsLeft /\ \E o \in Operators : \A p \in Operators \ {o} : loop'[p] = loop[p]
  PROVE  Cardinality(spoken') + Cardinality(Reserved') <= MaxTexts
<1>1. Cardinality(spoken) \in Nat
  BY FS_CardinalityType DEF IInv, Types
<1>2. IsFiniteSet(Reserved) /\ Cardinality(Reserved) \in Nat /\ Cardinality(Reserved') \in Nat
  BY ReservedIsFinite
<1>3. Cardinality(spoken) + Cardinality(Reserved) <= MaxTexts
  BY DEF TypesInv
<1>4. CASE \A p \in Operators : loop'[p].pc \in Adding \cup {"notice"}
                                   => loop[p].pc \in Adding \cup {"notice"}
  <2>1. Reserved' \subseteq Reserved
    BY <1>4 DEF Reserved, Adding
  <2>2. Cardinality(Reserved') <= Cardinality(Reserved)
    BY <1>2, <2>1, FS_Subset
  <2> QED
    BY <1>1, <1>2, <1>3, <2>2
<1>5. ASSUME TextsLeft, NEW o \in Operators, \A p \in Operators \ {o} : loop'[p] = loop[p]
      PROVE  Cardinality(spoken') + Cardinality(Reserved') <= MaxTexts
  <2>1. Reserved' \subseteq Reserved \cup {o}
    BY <1>5 DEF Reserved, Adding
  <2>2. /\ IsFiniteSet(Reserved \cup {o})
        /\ Cardinality(Reserved \cup {o}) = Cardinality(Reserved)
             \/ Cardinality(Reserved \cup {o}) = Cardinality(Reserved) + 1
    BY <1>2, FS_AddElement
  <2>3. Cardinality(Reserved') <= Cardinality(Reserved \cup {o})
    BY <2>1, <2>2, FS_Subset
  <2>4. Cardinality(spoken) + Cardinality(Reserved) < MaxTexts
    BY <1>5 DEF TextsLeft
  <2> QED
    BY <1>1, <1>2, <2>2, <2>3, <2>4
<1> QED
  BY <1>4, <1>5

\* What is broadcast was said, under a turn's label or none.
LEMMA EmittedIsSaid ==
  ASSUME IInv, SpotsInv, TypesInv, NEW o \in Operators, Emit(o), UNCHANGED spoken
  PROVE  heard' \subseteq spoken' \X Turns
<1>1. loop[o].buf \subseteq spoken
  <2>1. \A x \in Spots : Content(x) \subseteq spoken
    BY DEF SpotsInv, Partition
  <2>2. <<"buf", o>> \in Spots /\ Content(<<"buf", o>>) = loop[o].buf
    BY SpotKinds, ContentIs
  <2> QED
    BY <2>1, <2>2
<1>2. loop[o].activeTurn \in Turns
  BY LoopFacts DEF Loops
<1>3. heard' = heard \cup {<<t, loop[o].activeTurn>> : t \in loop[o].buf}
  BY DEF Emit
<1> QED
  BY <1>1, <1>2, <1>3 DEF TypesInv

LEMMA TurnKeepsTypes ==
  ASSUME IInv, SpotsInv, TypesInv, NEW o \in Operators,
         \/ Exit(o) \/ EndTurn(o) \/ Label(o) \/ TakeEvent(o) \/ Announce(o)
         \/ TimerFires(o) \/ FlushTurn(o) \/ Release(o) \/ RecordReply(o)
  PROVE  TypesInv'
<1>1. loop \in [Operators -> Loops] /\ loop[o] \in Loops
  BY LoopFacts
<1>2. UNCHANGED <<spoken, swap, stray, events>>
  BY DEF Exit, EndTurn, Label, TakeEvent, Announce, TimerFires, FlushTurn, Release, RecordReply,
         serviceVars, textVars
<1>3. gate' \in Turns
  BY DEF Exit, EndTurn, Label, TakeEvent, Announce, TimerFires, FlushTurn, Release, RecordReply,
         serviceVars, textVars, TypesInv, Turns
<1>4. heard' \subseteq spoken' \X Turns
  <2>1. CASE TimerFires(o) \/ FlushTurn(o)
    BY <2>1, EmittedIsSaid DEF TimerFires, FlushTurn, Drained
  <2>2. CASE Exit(o) \/ EndTurn(o) \/ Label(o) \/ TakeEvent(o) \/ Announce(o) \/ Release(o) \/ RecordReply(o)
    <3>1. UNCHANGED heard
      BY <2>2 DEF Exit, EndTurn, Label, TakeEvent, Announce, Release, RecordReply, textVars
    <3> QED
      BY <1>2, <3>1 DEF TypesInv
  <2> QED
    BY <2>1, <2>2
<1>5. \/ \A p \in Operators : loop'[p].pc \in Adding \cup {"notice"}
                                => loop[p].pc \in Adding \cup {"notice"}
      \/ TextsLeft /\ \A p \in Operators \ {o} : loop'[p] = loop[p]
  <2> DEFINE Others == \A p \in Operators \ {o} : loop'[p] = loop[p]
             Goes(x) == Others /\ loop'[o].pc = x
  <2>1. CASE Exit(o)
    <3>1. Goes("exited")
      BY <1>1, <2>1 DEF Exit, LoopGoto, Loops
    <3> QED
      BY <3>1 DEF Adding
  <2>2. CASE EndTurn(o)
    <3>1. Goes("flush")
      BY <1>1, <2>2 DEF EndTurn, LoopGoto, Loops
    <3> QED
      BY <3>1 DEF Adding
  <2>3. CASE Label(o)
    <3>1. Others
      BY <1>1, <2>3 DEF Label
    <3> QED
      BY <2>3, <3>1 DEF Label, LoopAt, Adding
  <2>4. CASE TakeEvent(o)
    <3>1. PICK u, n, x : /\ loop' = [loop EXCEPT ![o].queue = u, ![o].turn = n, ![o].pc = x]
                         /\ x \in {"idle", "turn"} \/ (x = "notice" /\ TextsLeft)
      BY <2>4 DEF TakeEvent
    <3>2. Goes(x)
      BY <1>1, <3>1 DEF Loops
    <3> QED
      BY <3>1, <3>2 DEF Adding
  <2>5. CASE Announce(o)
    <3>1. Goes("idle")
      BY <1>1, <2>5 DEF Announce, Loops
    <3> QED
      BY <3>1 DEF Adding
  <2>6. CASE TimerFires(o)
    <3>1. Goes(loop[o].pc)
      BY <1>1, <2>6 DEF TimerFires, Loops
    <3> QED
      BY <3>1
  <2>7. CASE FlushTurn(o)
    <3>1. Goes("release")
      BY <1>1, <2>7 DEF FlushTurn, Loops
    <3> QED
      BY <3>1 DEF Adding
  <2>8. CASE Release(o)
    <3>1. Goes("record")
      BY <1>1, <2>8 DEF Release, Loops
    <3> QED
      BY <3>1 DEF Adding
  <2>9. CASE RecordReply(o)
    <3>1. Goes("announce")
      BY <1>1, <2>9 DEF RecordReply, Loops
    <3> QED
      BY <3>1 DEF Adding
  <2> QED
    BY <2>1, <2>2, <2>3, <2>4, <2>5, <2>6, <2>7, <2>8, <2>9
<1>6. Cardinality(spoken') + Cardinality(Reserved') <= MaxTexts
  BY <1>2, <1>5, BudgetIsKept
<1> QED
  BY <1>2, <1>3, <1>4, <1>6 DEF TypesInv

LEMMA AddKeepsTypes ==
  ASSUME IInv, SpotsInv, TypesInv, NEW o \in Operators, Add(o)
  PROVE  TypesInv'
<1>1. /\ loop \in [Operators -> Loops] /\ loop[o] \in Loops /\ loop[o].turn \in Turns
  BY LoopFacts
<1>2. /\ spoken' = spoken \cup {Text(o)} /\ UNCHANGED <<gate, swap, heard, stray, events>>
      /\ loop[o].pc \in Adding
  BY DEF Add, serviceVars
<1>3. Cardinality(spoken') = Cardinality(spoken) + 1 /\ Cardinality(spoken) \in Nat
  BY AddKeepsSpots, FS_CardinalityType DEF IInv, Types
<1>4. Text(o) \in SomeTexts
  BY <1>1, <1>3 DEF Text, SomeTexts, LoopAt
<1>5. Reserved' = Reserved \ {o}
  <2>1. /\ \A p \in Operators \ {o} : loop'[p] = loop[p]
        /\ loop'[o].pc \in {"turn", "idle"}
    <3> DEFINE t == Text(o)
    <3>1. loop' = [loop EXCEPT ![o].buf = @ \cup {t},
                               ![o].pc = IF @ = "adding" THEN "turn" ELSE "idle"]
      BY DEF Add
    <3> HIDE DEF t
    <3> QED
      BY <1>1, <3>1 DEF Loops
  <2> QED
    BY <2>1 DEF Reserved, Adding
<1>6. o \in Reserved
  BY <1>2 DEF Reserved
<1>7. Cardinality(Reserved') = Cardinality(Reserved) - 1
  BY <1>5, <1>6, ReservedIsFinite, FS_RemoveElement
<1>8. Cardinality(spoken') + Cardinality(Reserved') <= MaxTexts
  BY <1>3, <1>7, ReservedIsFinite DEF TypesInv
<1>9. spoken' \subseteq SomeTexts /\ heard' \subseteq spoken' \X Turns
  BY <1>2, <1>4 DEF TypesInv
<1> QED
  BY <1>2, <1>8, <1>9 DEF TypesInv

LEMMA OthersKeepTypes ==
  ASSUME IInv, TypesInv,
         \/ SystemEvent \/ SwapCancel \/ SwapClear \/ SwapInstall \/ UNCHANGED vars
         \/ \E m \in Calls : SendMessage(m) \/ SendFails(m)
  PROVE  TypesInv'
<1>1. loop \in [Operators -> Loops] /\ current \in Operators
  BY DEF IInv, Types
<1>2. UNCHANGED <<spoken, heard>>
  BY DEF SystemEvent, SwapCancel, SwapClear, SwapInstall, SendMessage, SendFails, ChooseOperator,
         TakeGate, Send, OpenGate, RecordMessage, textVars, vars
<1>3. /\ gate' \in Turns /\ swap' \in {"no", "cancelled", "cleared"} /\ stray' \in BOOLEAN
  <2>1. CASE SystemEvent \/ SwapCancel \/ SwapClear \/ SwapInstall \/ UNCHANGED vars
    BY <2>1 DEF SystemEvent, SwapCancel, SwapClear, SwapInstall, serviceVars, vars, TypesInv, Turns
  <2>2. ASSUME NEW m \in Calls, SendMessage(m) \/ SendFails(m)
        PROVE  gate' \in Turns /\ UNCHANGED swap /\ stray' \in BOOLEAN
    <3>1. CASE OpenGate(m)
      BY <3>1 DEF OpenGate, TypesInv, Turns
    <3>2. CASE TakeGate(m)
      BY <3>2 DEF TakeGate, TypesInv, Turns
    <3>3. CASE ChooseOperator(m) \/ Send(m) \/ RecordMessage(m) \/ SendFails(m)
      BY <3>3 DEF ChooseOperator, Send, RecordMessage, SendFails, serviceVars, TypesInv
    <3> QED
      BY <2>2, <3>1, <3>2, <3>3 DEF SendMessage
  <2> QED
    BY <2>1, <2>2 DEF TypesInv
<1>4. events' \in 0..MaxEvents
  <2>1. CASE SystemEvent
    BY <2>1 DEF SystemEvent, TypesInv
  <2>2. CASE ~SystemEvent
    <3>1. UNCHANGED events
      BY <2>2 DEF SwapCancel, SwapClear, SwapInstall, SendMessage, SendFails, ChooseOperator,
                  TakeGate, Send, OpenGate, RecordMessage, vars
    <3> QED
      BY <3>1 DEF TypesInv
  <2> QED
    BY <2>1, <2>2
<1>5. \A p \in Operators : loop'[p].pc = loop[p].pc
  <2>1. CASE SystemEvent
    <3>1. PICK u : loop' = [loop EXCEPT ![current].queue = u]
      BY <2>1 DEF SystemEvent
    <3> QED
      BY <1>1, <3>1 DEF Loops
  <2>2. CASE SwapCancel \/ SwapClear \/ SwapInstall \/ UNCHANGED vars
    BY <2>2 DEF SwapCancel, SwapClear, SwapInstall, vars
  <2>3. ASSUME NEW m \in Calls, Send(m) PROVE \A p \in Operators : loop'[p].pc = loop[p].pc
    <3>1. call[m].op \in Operators
      BY CallFacts
    <3>2. PICK u : loop' = [loop EXCEPT ![call[m].op].queue = u]
      BY <2>3 DEF Send
    <3> QED
      BY <1>1, <3>1, <3>2 DEF Loops
  <2>4. ASSUME NEW m \in Calls,
               \/ ChooseOperator(m) \/ TakeGate(m) \/ OpenGate(m) \/ RecordMessage(m)
               \/ SendFails(m)
        PROVE  UNCHANGED loop
    BY <2>4 DEF ChooseOperator, TakeGate, OpenGate, RecordMessage, SendFails
  <2> QED
    BY <2>1, <2>2, <2>3, <2>4 DEF SendMessage
<1>6. Cardinality(spoken') + Cardinality(Reserved') <= MaxTexts
  BY <1>2, <1>5, BudgetIsKept
<1> QED
  BY <1>2, <1>3, <1>4, <1>6 DEF TypesInv

LEMMA TypesAtFirst == Init => TypesInv
<1> SUFFICES ASSUME Init PROVE TypesInv
  OBVIOUS
<1>1. Reserved = {}
  BY DEF Init, NewLoop, Reserved, Adding
<1>2. Cardinality({}) = 0
  BY FS_EmptySet
<1>3. spoken = {} /\ heard = {}
  BY DEF Init
<1>4. Cardinality(spoken) + Cardinality(Reserved) <= MaxTexts
  BY <1>1, <1>2, <1>3
<1>5. gate \in Turns /\ swap \in {"no", "cancelled", "cleared"} /\ stray \in BOOLEAN
  BY DEF Init, Turns
<1>6. events \in 0..MaxEvents
  BY DEF Init
<1> QED
  BY <1>3, <1>4, <1>5, <1>6 DEF TypesInv

LEMMA TypesKept == IInv /\ SpotsInv /\ TypesInv /\ [Next]_vars => TypesInv'
<1> SUFFICES ASSUME IInv, SpotsInv, TypesInv, [Next]_vars PROVE TypesInv'
  OBVIOUS
<1>1. CASE \/ SystemEvent \/ SwapCancel \/ SwapClear \/ SwapInstall \/ UNCHANGED vars
           \/ \E m \in Calls : SendMessage(m) \/ SendFails(m)
  BY <1>1, OthersKeepTypes
<1>2. ASSUME NEW o \in Operators, Turn(o) \/ TimerFires(o) PROVE TypesInv'
  BY <1>2, TurnKeepsTypes, AddKeepsTypes DEF Turn, ServeTurns
<1> QED
  BY <1>1, <1>2 DEF Next, StartOperator

\* No interleaving of calls, loops, timers and swaps takes a variable outside its
\* type: in particular every piece of text is of a user's turn or of none.
THEOREM TypeCorrect == Spec => []TypeOK
<1>1. ASSUME IInv, SpotsInv, TypesInv PROVE TypeOK
  <2>1. Cardinality(spoken) \in Nat /\ Cardinality(spoken) <= MaxTexts
    BY ReservedIsFinite, FS_CardinalityType, <1>1 DEF IInv, Types, TypesInv
  <2>2. spoken \subseteq Texts
    <3>1. \A t \in spoken : t \in SomeTexts /\ t.n \in 1..MaxTexts
      BY <1>1, <2>1 DEF SpotsInv, Numbered, TypesInv
    <3> QED
      BY <3>1 DEF Texts, SomeTexts
  <2>3. /\ \A o \in Operators : loop[o].buf \subseteq Texts /\ loop[o].held \subseteq Texts
        /\ pending \subseteq Texts /\ recorded \subseteq Texts /\ dropped \subseteq Texts
    <3>1. \A x \in Spots : Content(x) \subseteq Texts
      BY <1>1, <2>2 DEF SpotsInv, Partition
    <3> QED
      BY <3>1, SpotKinds, ContentIs
  <2>4. loop \in [Operators -> LoopState]
    <3>1. loop \in [Operators -> Loops]
      BY <1>1 DEF IInv, Types
    <3>2. ASSUME NEW o \in Operators PROVE loop[o] \in LoopState
      <4>1. loop[o] \in Loops
        BY <3>1
      <4> QED
        BY <2>3, <4>1 DEF Loops, LoopState
    <3> QED
      BY <3>1, <3>2
  <2>5. heard \subseteq Texts \X Turns
    BY <1>1, <2>2 DEF TypesInv
  <2> QED
    BY <1>1, <2>2, <2>3, <2>4, <2>5 DEF TypeOK, IInv, Types, TypesInv
<1>2. Init => TypesInv
  BY TypesAtFirst
<1>3. (IInv /\ SpotsInv) /\ TypesInv /\ [Next]_vars => TypesInv'
  BY TypesKept
<1>4. (IInv /\ SpotsInv) /\ TypesInv => TypeOK
  BY <1>1
<1> QED
  BY <1>2, <1>3, <1>4, SpotsAlways, PTL DEF Spec

=============================================================================
