----------------------------- MODULE Histories -----------------------------
(***************************************************************************)
(* The message histories of the two kinds of model sessions and what keeps *)
(* them within the context window.  The operator's is cut at a fixed       *)
(* length, saved after every message, restored after a crash and, between  *)
(* turns, replaced by a handoff (internal/operator/operator.go,            *)
(* handoff.go).  A worker's is compacted between its model calls and       *)
(* copied to a transcript (internal/runtime/session.go,                    *)
(* session_compact.go).  Both use internal/contextwindow/history.go.       *)
(*                                                                         *)
(* Sizes are abstracted: whether a history is over its budget, and whether *)
(* a summary call succeeds, is a choice.  A message has a number; what the *)
(* program itself writes into a history has the number 0.                  *)
(***************************************************************************)
EXTENDS Integers, Sequences, FiniteSets, FiniteSetsExt

CONSTANTS MaxMessages,    \* of the operator's history
          KeepTurns,      \* compactKeepTurns
          MaxCalls,       \* tool calls in one answer of the model
          ArchiveKeep,    \* archiveKeep: archives that are not pruned
          MaxSaid,        \* bound: messages of the session
          MaxTalk,        \* bound: of these in an operator's, whose disk adds states
          MaxCompactions, \* bound: compactions or handoffs
          MaxCrashes      \* bound: crashes of the server

\* A round of calls and results fits into the operator's history.
ASSUME SizesAssumption == /\ KeepTurns \in Nat \ {0} /\ MaxCalls \in Nat
                          /\ MaxMessages \in Nat /\ MaxCalls < MaxMessages
                          /\ ArchiveKeep \in Nat \ {0}
ASSUME BoundsAssumption == /\ MaxSaid \in Nat \ {0} /\ MaxTalk \in Nat
                           /\ MaxCompactions \in Nat /\ MaxCrashes \in Nat

VARIABLES kind,      \* whose history it is
          messages,
          pc,
          left,      \* tools of the round still to be run
          unsaved,   \* the operator has a message that is to be saved next
          saveFailed, \* its last save failed
          file,      \* the operator's session file
          archives,  \* what the archives of handoffs hold, the oldest first
          pruned,    \* history: messages of archives that were deleted
          cut,       \* history: messages cut by the window, a crash or a restart
          rows,      \* the worker's transcript, without superseded rows
          said,      \* history: every message, as it was appended
          spent      \* compactions and crashes so far

diskVars == <<saveFailed, file, archives, pruned, cut>>
vars == <<kind, messages, pc, left, unsaved, diskVars, rows, said, spent>>

Tools == {"spawn_worker", "other"}
CallLists == UNION {[1..k -> Tools] : k \in 0..MaxCalls}
Message == [n : 0..MaxSaid, role : {"user", "assistant", "tool"}, calls : CallLists,
            of : (0..MaxSaid) \X (0..MaxCalls), text : {"full", "stub"}]

Plain(n, role) == [n |-> n, role |-> role, calls |-> <<>>, of |-> <<0, 0>>, text |-> "full"]
User(n) == Plain(n, "user")
Answer(n, calls) == [Plain(n, "assistant") EXCEPT !.calls = calls]
Result(n, of) == [Plain(n, "tool") EXCEPT !.of = of]
Synthetic == User(0)

ArchivesTypeOK ==
  saveFailed \in BOOLEAN /\ archives \in Seq(SUBSET Message) /\ pruned \subseteq Message
TypeOK ==
  /\ kind \in {"operator", "worker"}
  /\ pc \in {"idle", "calling", "tools", "handoff", "down"}
  /\ left \in 0..MaxCalls /\ unsaved \in BOOLEAN
  /\ \A s \in {messages, file, rows, said} : s \in Seq(Message)
  /\ ArchivesTypeOK /\ cut \subseteq Message
  /\ spent \in [{"compaction", "crash"} -> Nat]

Init ==
  /\ kind \in {"operator", "worker"}
  /\ said = IF kind = "worker" THEN <<User(1)>> ELSE <<>>
  /\ messages = said /\ rows = said
  /\ pc = IF kind = "worker" THEN "calling" ELSE "idle"
  /\ left = 0 /\ unsaved = FALSE /\ saveFailed = FALSE
  /\ file = <<>> /\ archives = <<>> /\ pruned = {} /\ cut = {}
  /\ spent = [k \in {"compaction", "crash"} |-> 0]

----------------------------------------------------------------------------
(* contextwindow/history.go                                                *)

Elements(s) == {s[i] : i \in DOMAIN s}
From(s, i) == SubSeq(s, i, Len(s))
IsBoundary(m) == m.role = "user" \/ (m.role = "assistant" /\ m.calls = <<>>)
Boundaries(s) == {i \in DOMAIN s : IsBoundary(s[i])}

\* A window without a boundary begins after its leading results.
TailFromSafeBoundary_AnyStart(s) == s
TailFromSafeBoundary(s) ==
  LET starts == IF Boundaries(s) /= {} THEN Boundaries(s)
                ELSE {i \in DOMAIN s : s[i].role /= "tool"}
  IN  IF starts = {} THEN <<>> ELSE From(s, Min(starts))

TruncateMessages(s) ==
  IF Len(s) <= MaxMessages THEN s ELSE TailFromSafeBoundary(From(s, Len(s) - MaxMessages + 1))

\* operator.go: what a crash in the middle of a turn has left is dropped.
TrimIncompleteTail(s) ==
  IF Boundaries(s) = {} THEN <<>> ELSE SubSeq(s, 1, Max(Boundaries(s)))

(* runtime/session_compact.go                                              *)

\* The KeepTurns-th answer from the end; the first message if there are fewer.
Answers(s) == {i \in DOMAIN s : s[i].role = "assistant"}
ProtectedTailStart(s) ==
  IF Cardinality(Answers(s)) < KeepTurns THEN 1
  ELSE CHOOSE i \in Answers(s) : Cardinality({j \in Answers(s) : j >= i}) = KeepTurns

ToolName(s, id) == LET i == CHOOSE i \in DOMAIN s : s[i].n = id[1] IN s[i].calls[id[2]]
Elided(s) == {i \in DOMAIN s : /\ i < ProtectedTailStart(s) /\ s[i].role = "tool"
                               /\ ToolName(s, s[i].of) /= "spawn_worker"
                               /\ s[i].text = "full"}
ElideToolResults(s) ==
  [i \in DOMAIN s |-> IF i \in Elided(s) THEN [s[i] EXCEPT !.text = "stub"] ELSE s[i]]

RebuildHistory_TwiceTask(s, summary) ==
  <<s[1]>> \o summary \o TailFromSafeBoundary(From(s, ProtectedTailStart(s)))
RebuildHistory(s, summary) ==
  LET window == TailFromSafeBoundary(From(s, ProtectedTailStart(s)))
      tail == IF Len(window) = Len(s) THEN Tail(window) ELSE window
  IN  <<s[1]>> \o summary \o tail

----------------------------------------------------------------------------
(* The turn loop, the same for both.  The operator's history is cut at once *)
(* and saved by the next step (persistSession), a worker's goes into the   *)
(* transcript.                                                             *)

Next1 == Len(said) + 1
AppendMessage(m) ==
  LET longer == Append(messages, m) IN
  /\ Len(said) < MaxSaid /\ (kind = "operator" => Len(said) < MaxTalk) /\ ~unsaved
  /\ said' = Append(said, m)
  /\ IF kind = "operator"
     THEN /\ messages' = TruncateMessages(longer)
          /\ cut' = cut \cup (Elements(longer) \ Elements(TruncateMessages(longer)))
          /\ unsaved' = TRUE
          /\ UNCHANGED rows
     ELSE /\ messages' = longer
          /\ rows' = Append(rows, m)
          /\ UNCHANGED <<cut, unsaved>>
  /\ UNCHANGED <<kind, saveFailed, file, archives, pruned, spent>>

\* A save that fails leaves the file as it was, with a warning.
PersistSession ==
  /\ unsaved /\ pc /= "down"
  /\ unsaved' = FALSE
  /\ \/ file' = messages /\ saveFailed' = FALSE
     \/ file' = file /\ saveFailed' = TRUE
  /\ UNCHANGED <<kind, messages, pc, left, archives, pruned, cut, rows, said, spent>>

HandleUserMessage ==
  /\ kind = "operator" /\ pc = "idle"
  /\ AppendMessage(User(Next1))
  /\ pc' = "calling" /\ UNCHANGED left

\* The model answers; without tools the turn is over.
CollectResponse ==
  /\ pc = "calling"
  /\ \E calls \in CallLists :
       /\ AppendMessage(Answer(Next1, calls))
       /\ left' = Len(calls)
       /\ pc' = IF calls = <<>> THEN "idle" ELSE "tools"

\* Results follow in the order of the calls, errors and cancelled ones included.
Caller == CHOOSE m \in Elements(said) : /\ m.role = "assistant"
                                        /\ \A u \in Elements(said) : u.role = "assistant" => u.n <= m.n
ExecuteTool ==
  /\ pc = "tools"
  /\ AppendMessage(Result(Next1, <<Caller.n, Len(Caller.calls) - left + 1>>))
  /\ left' = left - 1
  /\ pc' = IF left = 1 THEN "calling" ELSE "tools"

\* An error, a limit or the end of the context ends the turn or the session
\* where it is.
GiveUp ==
  /\ pc = "calling" /\ ~unsaved
  /\ pc' = "idle"
  /\ UNCHANGED <<kind, messages, left, unsaved, diskVars, rows, said, spent>>

----------------------------------------------------------------------------
(* The operator: handoff (maybeCompact, compact), crash and restart.       *)

Spend(k, max) == spent[k] < max /\ spent' = [spent EXCEPT ![k] = @ + 1]

Archived(s) == UNION Elements(s)
Newest(s) == IF Len(s) <= ArchiveKeep THEN s ELSE From(s, Len(s) - ArchiveKeep + 1)

\* A failure to write the archive ends the handoff here; one to delete the old
\* ones leaves them.
Archive_FailureIgnored ==
  /\ kind = "operator" /\ pc = "idle" /\ ~unsaved /\ Len(messages) > 1
  /\ Spend("compaction", MaxCompactions)
  /\ archives' \in {archives, Append(archives, Elements(messages))} /\ pc' = "handoff"
  /\ UNCHANGED <<kind, messages, left, unsaved, saveFailed, file, pruned, cut, rows, said>>
Archive ==
  LET all == Append(archives, Elements(messages)) IN
  /\ kind = "operator" /\ pc = "idle" /\ ~unsaved /\ Len(messages) > 1
  /\ Spend("compaction", MaxCompactions)
  /\ \/ /\ archives' \in {all, Newest(all)}
        /\ pruned' = pruned \cup (Archived(all) \ Archived(archives'))
        /\ pc' = "handoff"
     \/ UNCHANGED <<archives, pruned, pc>>
  /\ UNCHANGED <<kind, messages, left, unsaved, saveFailed, file, cut, rows, said>>

Handoff ==
  /\ pc = "handoff"
  /\ messages' = <<Synthetic>> /\ unsaved' = TRUE
  /\ pc' = "idle"
  /\ UNCHANGED <<kind, left, diskVars, rows, said, spent>>

Crash ==
  /\ kind = "operator" /\ pc /= "down"
  /\ Spend("crash", MaxCrashes)
  /\ pc' = "down" /\ messages' = <<>> /\ left' = 0
  /\ unsaved' = FALSE /\ saveFailed' = FALSE
  /\ cut' = cut \cup (Elements(messages) \ Elements(file))
  /\ UNCHANGED <<kind, file, archives, pruned, rows, said>>

Restored == TrimIncompleteTail(TruncateMessages(file))

LoadSession ==
  /\ pc = "down"
  /\ messages' = Restored
  /\ cut' = cut \cup (Elements(file) \ Elements(Restored))
  /\ pc' = "idle"
  /\ UNCHANGED <<kind, left, unsaved, saveFailed, file, archives, pruned, rows, said, spent>>

----------------------------------------------------------------------------
(* The worker: compaction before a model call, or after the model refused   *)
(* one as too large.                                                       *)

CompactTier1 ==
  /\ kind = "worker" /\ pc = "calling" /\ Elided(messages) /= {}
  /\ Spend("compaction", MaxCompactions)
  /\ messages' = ElideToolResults(messages)
  /\ UNCHANGED <<kind, pc, left, unsaved, diskVars, rows, said>>

\* All rows are superseded, then the new history is written again.
Rebuilt(summary) == RebuildHistory(ElideToolResults(messages), summary)
CompactTier2_KeepsRows ==
  /\ kind = "worker" /\ pc = "calling"
  /\ Spend("compaction", MaxCompactions)
  /\ \E summary \in {<<>>, <<Synthetic>>} :
       messages' = Rebuilt(summary) /\ rows' = rows \o summary
  /\ UNCHANGED <<kind, pc, left, unsaved, diskVars, said>>
CompactTier2 ==
  /\ kind = "worker" /\ pc = "calling"
  /\ Spend("compaction", MaxCompactions)
  /\ \E summary \in {<<>>, <<Synthetic>>} :
       messages' = Rebuilt(summary) /\ rows' = Rebuilt(summary)
  /\ UNCHANGED <<kind, pc, left, unsaved, diskVars, said>>

----------------------------------------------------------------------------

Next ==
  \/ PersistSession \/ HandleUserMessage \/ CollectResponse \/ ExecuteTool \/ GiveUp
  \/ Archive \/ Handoff \/ Crash \/ LoadSession
  \/ CompactTier1 \/ CompactTier2

Spec == Init /\ [][Next]_vars

----------------------------------------------------------------------------
(* Properties.                                                             *)

\* Every result follows the answer that asked for it, at its place, and every
\* call has its result: what a provider accepts.
WellFormed(s) ==
  /\ \A i \in DOMAIN s : s[i].role = "tool" =>
       LET k == s[i].of[2] IN /\ i - k \in DOMAIN s
                              /\ s[i - k].n = s[i].of[1] /\ k \in DOMAIN s[i - k].calls
  /\ \A i \in DOMAIN s : \A k \in DOMAIN s[i].calls :
       i + k \in DOMAIN s /\ s[i + k].role = "tool" /\ s[i + k].of = <<s[i].n, k>>

\* Whenever the model may be called, the history is one it accepts and, for the
\* operator, within its length: the cut after every message, the trim after a
\* crash in the middle of a round, handoffs and both kinds of compaction keep
\* calls and results together (history.go:28).
HistoryIsWellFormed ==
  /\ pc \in {"idle", "calling"} => WellFormed(messages)
  /\ kind = "operator" => Len(messages) <= MaxMessages

\* A worker keeps its task, once and first, and the last KeepTurns turns as they
\* were said, through any number of compactions of both tiers.  What a child has
\* answered is there in full or not at all: tier 1 spares it, tier 2 drops it
\* together with its call (session_compact.go:15, 186, 224, 240).
RecentSaid == From(said, Max({2, ProtectedTailStart(said)}))
WorkingSetSurvives ==
  kind = "worker" =>
    /\ messages[1] = said[1] /\ \A i \in DOMAIN messages : messages[i].n = 1 => i = 1
    /\ Len(messages) > Len(RecentSaid)
    /\ From(messages, Len(messages) - Len(RecentSaid) + 1) = RecentSaid
    /\ \A i \in DOMAIN messages :
         messages[i].text = "stub" => ToolName(said, messages[i].of) /= "spawn_worker"

\* "the non-superseded set an exact mirror of what the model sees"
\* (session_compact.go:162), except for the texts that were elided since and the
\* marker row a compaction leaves.
TranscriptMirrorsHistory ==
  kind = "worker" =>
    /\ Len(rows) = Len(messages)
    /\ \A i \in DOMAIN rows : rows[i].n = messages[i].n /\ rows[i].of = messages[i].of

\* "archiving before mutation is the handoff's safety contract" (handoff.go:51):
\* what a handoff replaces is in an archive that is still there.  No message
\* leaves the operator's memory but into an archive, by the window or by a crash;
\* what has left the disk too was in an archive that was pruned.  And unless the
\* last save failed, a crash costs one message at most, the one to be saved.
ConversationIsOnDisk ==
  kind = "operator" =>
    LET kept == Archived(archives) \cup pruned \cup cut IN
    /\ pc = "handoff" => Elements(messages) \subseteq Archived(archives)
    /\ pc /= "down" => Elements(said) \subseteq Elements(messages) \cup kept
    /\ ~unsaved /\ ~saveFailed => Elements(said) \subseteq Elements(file) \cup kept
    /\ ~saveFailed => Cardinality(Elements(messages) \ Elements(file)) <= 1
=============================================================================
