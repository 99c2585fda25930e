---------------------------- MODULE Conversation ----------------------------
(***************************************************************************)
(* The user's conversation with the operator: SendMessage and its one-turn *)
(* gate, the replacement of the operator at run time (startOperator), the  *)
(* batcher between the model's text and the broadcast                      *)
(* (internal/service/local_operator.go, batcher.go,                        *)
(* local_broadcast_operator.go), and as much of the operator's loop as     *)
(* decides what belongs to which turn (internal/operator/operator.go).     *)
(*                                                                         *)
(* A turn of a user has the id of the SendMessage call that asked for it;  *)
(* the turns the operator takes on its own have none.  An operator that is *)
(* replaced only learns of it from its context and may go on for a while.  *)
(***************************************************************************)
EXTENDS Integers, Sequences, FiniteSets

CONSTANTS Calls,        \* calls of SendMessage
          NoTurn,
          EventChSize,
          MaxSwaps,     \* bound: replacements of the operator
          MaxEvents,    \* bound: events from the rest of the system
          MaxTexts      \* bound: pieces of text the models produce

ASSUME CallsAssumption == NoTurn \notin Calls /\ Calls \cap {"decision", "completion"} = {}
ASSUME BoundsAssumption == /\ EventChSize \in Nat \ {0} /\ MaxSwaps \in Nat
                           /\ MaxEvents \in Nat /\ MaxTexts \in Nat

VARIABLES current,    \* LocalService.op
          swap,       \* the startOperator under way
          gate,       \* currentTurnID
          call,       \* SendMessage
          loop,       \* the operators: event loop, event channel, batcher
          pending,    \* pendingResponse
          spoken,     \* history: the pieces of text produced so far
          heard,      \* history: the pieces broadcast, and under which turn
          finished,   \* history: user turns whose end was broadcast
          recorded,   \* history: the pieces in entries of the chat history
          dropped,    \* history: the pieces a swap threw away
          stray,      \* history: a failed send has opened another call's gate
          events

serviceVars == <<current, swap, gate>>
textVars == <<pending, spoken, heard, finished, recorded, dropped>>
vars == <<current, swap, gate, call, loop, pending, spoken, heard, finished,
          recorded, dropped, stray, events>>

Operators == 1..(MaxSwaps + 1)
Turns == Calls \cup {NoTurn}
Events == Calls \cup {"decision", "completion"}  \* a user's message, or what the system reports
Texts == [n : 1..MaxTexts, turn : Turns, inTurn : BOOLEAN]

CallState == [pc : {"new", "chosen", "gated", "failed", "sent", "refused", "over"},
              op : Operators]
LoopState ==
  [pc : {"idle", "turn", "notice", "adding", "adding notice",
         "flush", "release", "record", "announce", "exited"},
   queue : Seq(Events),
   turn : Turns,              \* Operator.turnID
   activeTurn : Turns,        \* the label of what the batcher emits
   buf : SUBSET Texts,        \* the batcher; its timer runs while it holds text
   held : SUBSET Texts]       \* responseText, between the reset and the entry

TypeOK ==
  /\ current \in Operators
  /\ swap \in {"no", "cancelled", "cleared"}
  /\ gate \in Turns
  /\ call \in [Calls -> CallState]
  /\ loop \in [Operators -> LoopState]
  /\ pending \subseteq Texts
  /\ spoken \subseteq Texts
  /\ heard \subseteq Texts \X Turns
  /\ finished \subseteq Calls
  /\ recorded \subseteq Texts /\ dropped \subseteq Texts
  /\ stray \in BOOLEAN
  /\ events \in 0..MaxEvents

NewLoop == [pc |-> "idle", queue |-> <<>>, turn |-> NoTurn, activeTurn |-> NoTurn,
            buf |-> {}, held |-> {}]

Init ==
  /\ current = 1 /\ swap = "no" /\ gate = NoTurn
  /\ call = [m \in Calls |-> [pc |-> "new", op |-> 1]]
  /\ loop = [o \in Operators |-> NewLoop]
  /\ pending = {} /\ spoken = {} /\ heard = {} /\ finished = {}
  /\ recorded = {} /\ dropped = {}
  /\ stray = FALSE /\ events = 0

\* The context of an operator ends when its successor is being started.  Only that
\* of the operator of boot does not (serve.go:488 keeps its cancel function from
\* startOperator): the first operator may be that one, and nothing makes it exit.
Stopped(o) == o < current \/ (o = current /\ swap /= "no")

----------------------------------------------------------------------------
(* SendMessage.                                                            *)

CallAt(m, pc) == call[m].pc = pc
CallGoto(m, pc) == call' = [call EXCEPT ![m].pc = pc]

\* The operator is read under opMu, which startOperator holds throughout.
ChooseOperator(m) ==
  /\ CallAt(m, "new") /\ swap = "no"
  /\ call' = [call EXCEPT ![m].pc = "chosen", ![m].op = current]
  /\ UNCHANGED <<serviceVars, loop, textVars, stray, events>>

TakeGate(m) ==
  /\ CallAt(m, "chosen")
  /\ IF gate = NoTurn THEN gate' = m /\ CallGoto(m, "gated")
     ELSE UNCHANGED gate /\ CallGoto(m, "refused")
  /\ UNCHANGED <<current, swap, loop, textVars, stray, events>>

\* Operator.Send: the channel of an operator that nobody reads accepts, too.
Send(m) ==
  LET o == call[m].op IN
  /\ CallAt(m, "gated") /\ Len(loop[o].queue) < EventChSize
  /\ loop' = [loop EXCEPT ![o].queue = Append(@, m)]
  /\ CallGoto(m, "sent")
  /\ UNCHANGED <<serviceVars, textVars, stray, events>>

\* The caller's context ends first; then the gate is opened, whoever has it.
SendFails(m) ==
  /\ CallAt(m, "gated")
  /\ CallGoto(m, "failed")
  /\ UNCHANGED <<serviceVars, loop, textVars, stray, events>>

OpenGate(m) ==
  /\ CallAt(m, "failed")
  /\ gate' = NoTurn
  /\ stray' = (stray \/ gate \notin {m, NoTurn})
  /\ CallGoto(m, "over")
  /\ UNCHANGED <<current, swap, loop, textVars, events>>

\* The user's entry goes into the history, and the call returns the turn's id.
RecordMessage(m) ==
  /\ CallAt(m, "sent")
  /\ CallGoto(m, "over")
  /\ UNCHANGED <<serviceVars, loop, textVars, stray, events>>

----------------------------------------------------------------------------
(* startOperator.                                                          *)

SwapCancel ==
  /\ swap = "no" /\ current <= MaxSwaps
  /\ swap' = "cancelled"
  /\ UNCHANGED <<current, gate, call, loop, textVars, stray, events>>

SwapClear_KeepsGate ==
  /\ swap = "cancelled"
  /\ swap' = "cleared"
  /\ pending' = {} /\ dropped' = dropped \cup pending
  /\ UNCHANGED <<current, gate, call, loop, spoken, heard, finished, recorded, stray, events>>
SwapClear ==
  /\ swap = "cancelled"
  /\ swap' = "cleared"
  /\ gate' = NoTurn
  /\ pending' = {} /\ dropped' = dropped \cup pending
  /\ UNCHANGED <<current, call, loop, spoken, heard, finished, recorded, stray, events>>

\* The new operator has a loop, a channel and a batcher of its own.
SwapInstall ==
  /\ swap = "cleared"
  /\ swap' = "no" /\ current' = current + 1
  /\ UNCHANGED <<gate, call, loop, textVars, stray, events>>

----------------------------------------------------------------------------
(* The batcher: drained and emitted in one step, by its timer or by a      *)
(* turn's end (BroadcastOperatorText).                                     *)

Emit(o) == heard' = heard \cup {<<t, loop[o].activeTurn>> : t \in loop[o].buf}
Drained(o) == /\ pending' = pending \cup loop[o].buf
              /\ Emit(o)

TimerFires(o) ==
  /\ loop[o].buf /= {}
  /\ Drained(o)
  /\ loop' = [loop EXCEPT ![o].buf = {}]
  /\ UNCHANGED <<serviceVars, call, spoken, finished, recorded, dropped, stray, events>>

----------------------------------------------------------------------------
(* The operator's loop.                                                    *)

LoopAt(o, pc) == loop[o].pc = pc
LoopGoto(o, pc) == loop' = [loop EXCEPT ![o].pc = pc]

Adding == {"adding", "adding notice"}
Reserved == {o \in Operators : loop[o].pc \in Adding \cup {"notice"}}
TextsLeft == Cardinality(spoken) + Cardinality(Reserved) < MaxTexts

\* Events the rest of the system sends to the operator.
SystemEvent ==
  /\ events < MaxEvents /\ Len(loop[current].queue) < EventChSize
  /\ events' = events + 1
  /\ \E e \in {"decision", "completion"} :
       loop' = [loop EXCEPT ![current].queue = Append(@, e)]
  /\ UNCHANGED <<serviceVars, call, textVars, stray>>

\* run and handleEvent.  With an event and the end of its context both there,
\* the select may take either.  A completion may or may not be the job's end.
TakeEvent(o) ==
  /\ LoopAt(o, "idle") /\ loop[o].queue /= <<>>
  /\ LET e == Head(loop[o].queue) IN
     \E pc \in IF e = "completion" THEN {"idle"} \cup {pc \in {"notice"} : TextsLeft} ELSE {"turn"} :
       loop' = [loop EXCEPT ![o].queue = Tail(@),
                            ![o].turn = IF e \in Calls THEN e ELSE NoTurn,
                            ![o].pc = pc]
  /\ UNCHANGED <<serviceVars, call, textVars, stray, events>>

Exit(o) ==
  /\ LoopAt(o, "idle") /\ Stopped(o)
  /\ LoopGoto(o, "exited")
  /\ UNCHANGED <<serviceVars, call, textVars, stray, events>>

\* emitText: the label is stored first, then the text is added.  A job's end is
\* told outside of any turn.
Label(o) ==
  /\ loop[o].pc \in {"turn", "notice"} /\ (LoopAt(o, "turn") => TextsLeft)
  /\ loop' = [loop EXCEPT ![o].activeTurn = loop[o].turn,
                          ![o].pc = IF @ = "turn" THEN "adding" ELSE "adding notice"]
  /\ UNCHANGED <<serviceVars, call, textVars, stray, events>>

Text(o) == [n |-> Cardinality(spoken) + 1, turn |-> loop[o].turn, inTurn |-> LoopAt(o, "adding")]

Add(o) ==
  /\ loop[o].pc \in Adding
  /\ spoken' = spoken \cup {Text(o)}
  /\ loop' = [loop EXCEPT ![o].buf = @ \cup {Text(o)},
                          ![o].pc = IF @ = "adding" THEN "turn" ELSE "idle"]
  /\ UNCHANGED <<serviceVars, call, pending, heard, finished, recorded, dropped, stray, events>>

\* handleUserMessage returns: an answer without tools, an error, its limits, the
\* end of its context.  The deferred call forgets the turn and reports its end.
EndTurn(o) ==
  /\ LoopAt(o, "turn")
  /\ LoopGoto(o, "flush")
  /\ UNCHANGED <<serviceVars, call, textVars, stray, events>>

\* OnTurnDone: the batchers are flushed before the label is reset.
FlushTurn_ResetsFirst(o) ==
  /\ LoopAt(o, "flush")
  /\ pending' = pending \cup loop[o].buf
  /\ heard' = heard \cup {<<t, NoTurn>> : t \in loop[o].buf}
  /\ loop' = [loop EXCEPT ![o].buf = {}, ![o].activeTurn = NoTurn, ![o].pc = "release"]
  /\ UNCHANGED <<serviceVars, call, spoken, finished, recorded, dropped, stray, events>>
FlushTurn(o) ==
  /\ LoopAt(o, "flush")
  /\ Drained(o)
  /\ loop' = [loop EXCEPT ![o].buf = {}, ![o].activeTurn = NoTurn, ![o].pc = "release"]
  /\ UNCHANGED <<serviceVars, call, spoken, finished, recorded, dropped, stray, events>>

\* BroadcastOperatorDone: the gate opens for the turn that holds it only.
Opens_Always(turn) == TRUE
Opens(turn) == turn /= NoTurn /\ gate = turn

Release_KeepsResponse(o) ==
  /\ LoopAt(o, "release")
  /\ gate' = IF Opens(loop[o].turn) THEN NoTurn ELSE gate
  /\ loop' = [loop EXCEPT ![o].held = pending, ![o].pc = "record"]
  /\ UNCHANGED <<current, swap, call, textVars, stray, events>>
Release(o) ==
  /\ LoopAt(o, "release")
  /\ gate' = IF Opens(loop[o].turn) THEN NoTurn ELSE gate
  /\ loop' = [loop EXCEPT ![o].held = pending, ![o].pc = "record"]
  /\ pending' = {}
  /\ UNCHANGED <<current, swap, call, spoken, heard, finished, recorded, dropped, stray, events>>

RecordReply(o) ==
  /\ LoopAt(o, "record")
  /\ recorded' = recorded \cup loop[o].held
  /\ loop' = [loop EXCEPT ![o].held = {}, ![o].pc = "announce"]
  /\ UNCHANGED <<serviceVars, call, pending, spoken, heard, finished, dropped, stray, events>>

Announce(o) ==
  /\ LoopAt(o, "announce")
  /\ finished' = finished \cup ({loop[o].turn} \cap Calls)
  /\ loop' = [loop EXCEPT ![o].turn = NoTurn, ![o].pc = "idle"]
  /\ UNCHANGED <<serviceVars, call, pending, spoken, heard, recorded, dropped, stray, events>>

----------------------------------------------------------------------------

SendMessage(m) == \/ ChooseOperator(m) \/ TakeGate(m) \/ Send(m)
                  \/ OpenGate(m) \/ RecordMessage(m)
StartOperator == SwapClear \/ SwapInstall
ServeTurns(o) == \/ TakeEvent(o) \/ Label(o) \/ Add(o) \/ EndTurn(o)
                 \/ FlushTurn(o) \/ Release(o) \/ RecordReply(o) \/ Announce(o)
Turn(o) == ServeTurns(o) \/ Exit(o)

Next ==
  \/ SwapCancel \/ StartOperator \/ SystemEvent
  \/ \E m \in Calls : SendMessage(m) \/ SendFails(m)
  \/ \E o \in Operators : Turn(o) \/ TimerFires(o)

Spec == Init /\ [][Next]_vars

\* Goroutines run, and so does the loop, whose model calls end.  Nobody has to
\* send a message, to replace the operator or to give up, and an operator that is
\* replaced may serve for ever.
Fairness ==
  /\ WF_vars(StartOperator)
  /\ \A m \in Calls : WF_vars(CallAt(m, "chosen") /\ TakeGate(m)) /\ WF_vars(Send(m))
                      /\ WF_vars(OpenGate(m)) /\ WF_vars(RecordMessage(m))
  /\ \A o \in Operators : WF_vars(ServeTurns(o)) /\ WF_vars(TimerFires(o))
FairSpec == Spec /\ Fairness

----------------------------------------------------------------------------
(* Properties.                                                             *)

\* "a batch never straddles a turn boundary" (local_operator.go:286), as far as
\* the text of turns goes: what a turn produced was broadcast under its id, a
\* system turn's under none, though the timer, the loop and a replaced operator
\* emit at any time; and all of it was when the turn's end was broadcast.
TurnTextIsLabelled ==
  /\ \A h \in heard : h[1].inTurn => h[2] = h[1].turn
  /\ \A t \in spoken : t.inTurn /\ t.turn \in finished => <<t, t.turn>> \in heard

\* While the operator in office has a turn of a user queued or running, the gate
\* is closed on that turn: no other is accepted, a system turn that ends does
\* not open it, nor does a replaced operator.  Only a send to a replaced
\* operator that fails breaks this (stray).
Unfinished(o) ==
  (IF loop[o].turn \in Calls /\ loop[o].pc \in {"turn", "adding", "flush", "release"}
   THEN {loop[o].turn} ELSE {})
  \cup (Calls \cap {loop[o].queue[i] : i \in DOMAIN loop[o].queue})
InOffice == IF swap = "no" THEN Unfinished(current) ELSE {}
GateCoversTurn == stray \/ \A m \in InOffice : gate = m

\* What the models say gets into the history once: every piece is in one batcher,
\* in the pending response, in a reply that is being recorded, in an entry, or
\* was thrown away by a swap, and never in two of them.
Places(t) ==
  Cardinality({o \in Operators : t \in loop[o].buf}) + Cardinality({o \in Operators : t \in loop[o].held})
  + Cardinality({s \in {<<pending, 1>>, <<recorded, 2>>, <<dropped, 3>>} : t \in s[1]})
RepliesRecordedOnce == \A t \in spoken : Places(t) = 1

\* A turn the operator in office has taken on opens the gate again.
ServedTurnOpensGate ==
  \A m \in Calls : gate = m /\ m \in InOffice ~> gate /= m

\* "release the SendMessage gate here - otherwise every future SendMessage
\* returns 'turn already in progress' until the server restarts"
\* (local_operator.go:260).
GateOpens == \A m \in Calls : gate = m ~> gate /= m
=============================================================================
