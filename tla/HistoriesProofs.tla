--------------------------- MODULE HistoriesProofs --------------------------
(***************************************************************************)
(* Proofs about Histories, for any length of a session, of the operator's  *)
(* history and of a round of calls, and any number of compactions and      *)
(* crashes: what is said is on disk, the transcript follows the history,   *)
(* and the model is only ever given a history it accepts.                  *)
(***************************************************************************)
EXTENDS Histories, FiniteSetTheorems, SequenceTheorems, WellFoundedInduction, TLAPS

LEMMA Sizes == /\ KeepTurns \in Nat /\ 1 <= KeepTurns /\ MaxCalls \in Nat
               /\ MaxMessages \in Nat /\ MaxCalls < MaxMessages /\ MaxSaid \in Nat /\ 1 <= MaxSaid
               /\ MaxCompactions \in Nat /\ MaxCrashes \in Nat
               /\ ArchiveKeep \in Nat /\ 1 <= ArchiveKeep
  BY SizesAssumption, BoundsAssumption

----------------------------------------------------------------------------
(* The invariants.                                                         *)

\* The message at i, if it is a result, follows the answer that asked for it at
\* its place; the calls of an answer have their results, as far as s reaches.
Answered(s) == \A i \in DOMAIN s : s[i].role = "tool" =>
                 /\ s[i].of[2] >= 1 /\ i - s[i].of[2] \in DOMAIN s
                 /\ s[i - s[i].of[2]].n = s[i].of[1]
                 /\ s[i].of[2] <= Len(s[i - s[i].of[2]].calls)
Asked(s) == \A i, j \in DOMAIN s : i < j /\ j <= i + Len(s[i].calls) =>
              s[j].role = "tool" /\ s[j].of = <<s[i].n, j - i>>
Chained(s) == Answered(s) /\ Asked(s)

\* No call still waits for its result; or only those of the answer at q do, and
\* there are l of them.
Closed(s) == \A i \in DOMAIN s : i + Len(s[i].calls) <= Len(s)
OpenAt(s, q, l) == /\ q \in DOMAIN s /\ q + Len(s[q].calls) = Len(s) + l
                   /\ \A i \in DOMAIN s : i /= q => i + Len(s[i].calls) <= Len(s)

\* Only an answer calls tools.
CallsAreAnswers(s) == \A i \in DOMAIN s : s[i].role /= "assistant" => s[i].calls = <<>>

\* The number of a message is its place in what was said; the last answer of it.
IsNumbered(s) == \A i \in DOMAIN s : s[i].n = i
IsLastAnswer(c) == /\ c \in DOMAIN said /\ said[c].role = "assistant"
                   /\ \A j \in DOMAIN said : said[j].role = "assistant" => j <= c

\* While tools run, the last answer is the open one.
RoundInv ==
  /\ pc /= "tools" => left = 0 /\ Closed(messages)
  /\ pc = "tools" => /\ left >= 1
                     /\ \E c \in DOMAIN said, q \in DOMAIN messages :
                          /\ IsLastAnswer(c) /\ OpenAt(messages, q, left)
                          /\ messages[q].n = c /\ messages[q].calls = said[c].calls

\* A session file may end in the middle of a round.
FileInv == /\ Chained(file) /\ CallsAreAnswers(file)
           /\ \/ Closed(file)
              \/ \E q \in DOMAIN file, l \in 0..MaxCalls : OpenAt(file, q, l)

KindInv ==
  /\ kind = "operator" => Len(messages) <= MaxMessages /\ Len(file) <= MaxMessages
  /\ kind = "worker" => /\ messages /= <<>> /\ messages[1] = User(1)
                        /\ pc \in {"idle", "calling", "tools"}

ChainInv == /\ TypeOK /\ IsNumbered(said) /\ Chained(messages) /\ CallsAreAnswers(messages)
            /\ RoundInv /\ FileInv /\ KindInv

\* No message leaves the operator's memory but into an archive or a known cut; its
\* file holds its memory unless a save is due or has failed, up to the message
\* whose save is due; a handoff replaces what is in an archive.
Kept == Archived(archives) \cup pruned \cup cut
DiskInv ==
  kind = "operator" =>
    /\ pc /= "down" => Elements(said) \subseteq Elements(messages) \cup Kept
    /\ ~unsaved /\ ~saveFailed => Elements(said) \subseteq Elements(file) \cup Kept
    /\ ~unsaved /\ ~saveFailed => Elements(messages) \subseteq Elements(file)
    /\ ~saveFailed => \E m \in Message : Elements(messages) \subseteq Elements(file) \cup {m}
    /\ pc = "down" => ~unsaved /\ ~saveFailed
    /\ pc = "handoff" => Elements(messages) \subseteq Archived(archives)

----------------------------------------------------------------------------
(* Numbers and sequences.                                                  *)

\* A set of naturals that is not empty has a least element, and a greatest one
\* if it is bounded.
LEMMA LeastElement ==
  ASSUME NEW T \in SUBSET Nat, T /= {}
  PROVE  Min(T) \in T /\ \A y \in T : Min(T) <= y
<1> DEFINE R == OpToRel(<, Nat)
<1>1. IsWellFoundedOn(R, Nat)
  BY NatLessThanWellFounded
<1>2. \A x, y \in Nat : y < x => <<y, x>> \in R
  BY DEF OpToRel
<1> HIDE DEF R
<1>3. PICK x \in T : \A y \in T : ~ (<<y, x>> \in R)
  BY <1>1, WFMin
<1>4. \A y \in T : ~(y < x)
  BY <1>2, <1>3
<1>5. \A y \in T : x <= y
  BY <1>4
<1> QED
  BY <1>5 DEF Min

LEMMA GreatestElement ==
  ASSUME NEW b \in Nat, NEW T \in SUBSET (0..b), T /= {}
  PROVE  Max(T) \in T /\ \A y \in T : y <= Max(T)
<1> DEFINE U == {b - y : y \in T}
<1>1. U \in SUBSET Nat /\ U /= {}
  <2>1. \A y \in T : b - y \in Nat
    OBVIOUS
  <2>2. PICK z \in T : TRUE
    OBVIOUS
  <2>3. b - z \in U
    OBVIOUS
  <2> QED
    BY <2>1, <2>3
<1>2. Min(U) \in U /\ \A u \in U : Min(U) <= u
  BY <1>1, LeastElement
<1>3. PICK x \in T : Min(U) = b - x
  BY <1>2
<1>4. \A y \in T : b - x <= b - y
  BY <1>2, <1>3
<1>5. \A y \in T : y <= x
  BY <1>4
<1>6. \A y \in T : x >= y
  BY <1>5
<1> QED
  BY <1>5, <1>6 DEF Max

LEMMA ElementsOfAppend ==
  ASSUME NEW S, NEW s \in Seq(S), NEW m \in S
  PROVE  /\ Append(s, m) \in Seq(S) /\ Len(Append(s, m)) = Len(s) + 1
         /\ DOMAIN Append(s, m) = 1..(Len(s) + 1)
         /\ \A i \in DOMAIN s : Append(s, m)[i] = s[i]
         /\ Append(s, m)[Len(s) + 1] = m
         /\ Elements(Append(s, m)) = Elements(s) \cup {m}
<1> DEFINE t == Append(s, m)
<1>1. /\ t \in Seq(S) /\ Len(s) \in Nat /\ Len(t) = Len(s) + 1
      /\ DOMAIN s = 1..Len(s) /\ DOMAIN t = 1..(Len(s) + 1)
  OBVIOUS
<1>2. t[Len(s) + 1] = m /\ \A i \in 1..Len(s) : t[i] = s[i]
  OBVIOUS
<1> HIDE DEF t
<1>3. 1..(Len(s) + 1) = (1..Len(s)) \cup {Len(s) + 1}
  BY <1>1
<1>4. Elements(t) = Elements(s) \cup {m}
  BY <1>1, <1>2, <1>3 DEF Elements
<1> QED
  BY <1>1, <1>2, <1>4 DEF t

\* Places that move together.
LEMMA MovedInside ==
  ASSUME NEW n \in Nat, NEW b \in 1..(n + 1), NEW i \in 1..(n - b + 1)
  PROVE  i + b - 1 \in 1..n /\ b + i - 1 = i + b - 1
  OBVIOUS

LEMMA MovedBack ==
  ASSUME NEW n \in Nat, NEW b \in 1..n, NEW p \in 1..n, b <= p
  PROVE  p - b + 1 \in 1..(n - b + 1) /\ (p - b + 1) + b - 1 = p
  OBVIOUS

LEMMA MovedTogether ==
  ASSUME NEW i \in Int, NEW j \in Int, NEW b \in Int, NEW l \in Int, i < j, j <= i + l
  PROVE  /\ i + b - 1 < j + b - 1 /\ j + b - 1 <= (i + b - 1) + l
         /\ (j + b - 1) - (i + b - 1) = j - i
  OBVIOUS

\* The rest of a sequence from one of its places, and its beginning up to one.
LEMMA RestOf ==
  ASSUME NEW S, NEW s \in Seq(S), NEW b \in 1..(Len(s) + 1)
  PROVE  /\ From(s, b) \in Seq(S) /\ Len(From(s, b)) = Len(s) - b + 1
         /\ DOMAIN From(s, b) = 1..(Len(s) - b + 1)
         /\ \A i \in DOMAIN From(s, b) : i + b - 1 \in DOMAIN s /\ From(s, b)[i] = s[i + b - 1]
         /\ Elements(From(s, b)) \subseteq Elements(s)
<1> DEFINE t == From(s, b)
<1>1. Len(s) \in Nat /\ DOMAIN s = 1..Len(s) /\ b \in Nat /\ 1 <= b /\ b <= Len(s) + 1
  OBVIOUS
<1>2. /\ t \in Seq(S) /\ Len(t) = Len(s) - b + 1 /\ DOMAIN t = 1..(Len(s) - b + 1)
      /\ \A i \in DOMAIN t : t[i] = s[b + i - 1]
  BY <1>1 DEF From
<1> HIDE DEF t
<1>3. \A i \in DOMAIN t : i + b - 1 \in DOMAIN s /\ b + i - 1 = i + b - 1
  BY <1>1, <1>2, MovedInside
<1>4. \A i \in DOMAIN t : t[i] = s[i + b - 1]
  BY <1>2, <1>3
<1>5. Elements(t) \subseteq Elements(s)
  BY <1>3, <1>4 DEF Elements
<1> QED
  BY <1>2, <1>3, <1>4, <1>5 DEF t

LEMMA BeginningOf ==
  ASSUME NEW S, NEW s \in Seq(S), NEW b \in DOMAIN s
  PROVE  /\ SubSeq(s, 1, b) \in Seq(S) /\ Len(SubSeq(s, 1, b)) = b
         /\ DOMAIN SubSeq(s, 1, b) = 1..b
         /\ \A i \in 1..b : i \in DOMAIN s /\ SubSeq(s, 1, b)[i] = s[i]
<1>1. Len(s) \in Nat /\ DOMAIN s = 1..Len(s) /\ b \in 1..Len(s)
  OBVIOUS
<1> QED
  BY <1>1

USE Sizes

\* The calls of an answer are a sequence of at most MaxCalls tools.
LEMMA CallsAreSequences ==
  ASSUME NEW c \in CallLists
  PROVE  c \in Seq(Tools) /\ Len(c) \in 0..MaxCalls /\ DOMAIN c = 1..Len(c)
<1>1. PICK k \in 0..MaxCalls : c \in [1..k -> Tools]
  BY DEF CallLists
<1>2. k \in Nat /\ c \in Seq(Tools)
  BY <1>1
<1>3. Len(c) = k
  BY <1>1, <1>2
<1> QED
  BY <1>1, <1>2, <1>3

LEMMA NoCalls == <<>> \in CallLists /\ Len(<<>>) = 0
<1>1. <<>> \in [1..0 -> Tools]
  OBVIOUS
<1> QED
  BY <1>1 DEF CallLists

----------------------------------------------------------------------------
(* Messages.                                                               *)

LEMMA FieldsOf ==
  ASSUME NEW m \in Message
  PROVE  /\ m.n \in 0..MaxSaid /\ m.role \in {"user", "assistant", "tool"}
         /\ m.calls \in CallLists /\ Len(m.calls) \in 0..MaxCalls /\ DOMAIN m.calls = 1..Len(m.calls)
         /\ m.of[1] \in 0..MaxSaid /\ m.of[2] \in 0..MaxCalls /\ m.text \in {"full", "stub"}
         /\ Len(m.calls) \in Nat /\ m.of[2] \in Nat
<1>1. m.n \in 0..MaxSaid /\ m.role \in {"user", "assistant", "tool"} /\ m.calls \in CallLists
  BY DEF Message
<1>2. m.of \in (0..MaxSaid) \X (0..MaxCalls) /\ m.text \in {"full", "stub"}
  BY DEF Message
<1>3. Len(m.calls) \in 0..MaxCalls /\ DOMAIN m.calls = 1..Len(m.calls)
  BY <1>1, CallsAreSequences
<1> QED
  BY <1>1, <1>2, <1>3

LEMMA PlainMessages ==
  ASSUME NEW n \in 0..MaxSaid, NEW r \in {"user", "assistant", "tool"}
  PROVE  /\ Plain(n, r) \in Message
         /\ Plain(n, r).n = n /\ Plain(n, r).role = r /\ Plain(n, r).calls = <<>>
         /\ Plain(n, r).of = <<0, 0>> /\ Plain(n, r).text = "full"
  BY NoCalls DEF Plain, Message

LEMMA UserMessages ==
  ASSUME NEW n \in 0..MaxSaid
  PROVE  /\ User(n) \in Message /\ User(n).n = n /\ User(n).role = "user"
         /\ User(n).calls = <<>> /\ User(n).text = "full"
  BY PlainMessages DEF User

LEMMA AnswerMessages ==
  ASSUME NEW n \in 0..MaxSaid, NEW calls \in CallLists
  PROVE  /\ Answer(n, calls) \in Message /\ Answer(n, calls).n = n
         /\ Answer(n, calls).role = "assistant" /\ Answer(n, calls).calls = calls
         /\ Answer(n, calls).text = "full"
  BY NoCalls DEF Answer, Plain, Message

LEMMA ResultMessages ==
  ASSUME NEW n \in 0..MaxSaid, NEW c \in 0..MaxSaid, NEW k \in 0..MaxCalls
  PROVE  /\ Result(n, <<c, k>>) \in Message /\ Result(n, <<c, k>>).n = n
         /\ Result(n, <<c, k>>).role = "tool" /\ Result(n, <<c, k>>).calls = <<>>
         /\ Result(n, <<c, k>>).of = <<c, k>> /\ Result(n, <<c, k>>).text = "full"
  BY NoCalls DEF Result, Plain, Message

\* A boundary calls no tool and is not a result of one.
LEMMA BoundariesAreClosed ==
  ASSUME NEW s \in Seq(Message), CallsAreAnswers(s), NEW b \in DOMAIN s, IsBoundary(s[b])
  PROVE  s[b].role /= "tool" /\ Len(s[b].calls) = 0
  BY NoCalls DEF IsBoundary, CallsAreAnswers

HIDE Sizes

----------------------------------------------------------------------------
(* Pieces of a history: what starts at anything but a result, and what ends *)
(* at a boundary, keeps calls and results together.                        *)

LEMMA NothingIsChained == /\ <<>> \in Seq(Message) /\ Chained(<<>>) /\ CallsAreAnswers(<<>>) /\ Closed(<<>>)
  BY DEF Chained, Answered, Asked, CallsAreAnswers, Closed

\* No call of an earlier answer waits for a result past a message that is none.
LEMMA CallsEndBefore ==
  ASSUME NEW s \in Seq(Message), Asked(s), NEW b \in DOMAIN s, s[b].role /= "tool",
         NEW i \in DOMAIN s, i < b
  PROVE  i + Len(s[i].calls) < b
<1>1. s[i] \in Message /\ i \in Int /\ b \in Int
  OBVIOUS
<1>2. Len(s[i].calls) \in Nat
  BY <1>1, FieldsOf
<1>3. ~(b <= i + Len(s[i].calls))
  BY DEF Asked
<1> QED
  BY <1>1, <1>2, <1>3

LEMMA RestIsChained ==
  ASSUME NEW s \in Seq(Message), Chained(s), CallsAreAnswers(s),
         NEW b \in DOMAIN s, s[b].role /= "tool"
  PROVE  /\ From(s, b) \in Seq(Message) /\ Chained(From(s, b)) /\ CallsAreAnswers(From(s, b))
         /\ Closed(s) => Closed(From(s, b))
<1> DEFINE t == From(s, b)
<1>1. /\ Len(s) \in Nat /\ DOMAIN s = 1..Len(s) /\ b \in 1..(Len(s) + 1) /\ b \in 1..Len(s)
      /\ \A i \in DOMAIN s : s[i] \in Message
  OBVIOUS
<1>2. /\ t \in Seq(Message) /\ Len(t) = Len(s) - b + 1 /\ DOMAIN t = 1..(Len(s) - b + 1)
      /\ \A i \in DOMAIN t : i + b - 1 \in DOMAIN s /\ t[i] = s[i + b - 1]
  BY <1>1, RestOf
<1> HIDE DEF t
<1>3. Answered(t)
  <2> SUFFICES ASSUME NEW i \in DOMAIN t, t[i].role = "tool"
               PROVE  /\ t[i].of[2] >= 1 /\ i - t[i].of[2] \in DOMAIN t
                      /\ t[i - t[i].of[2]].n = t[i].of[1]
                      /\ t[i].of[2] <= Len(t[i - t[i].of[2]].calls)
    BY DEF Answered
  <2>1. PICK p \in DOMAIN s : p = i + b - 1 /\ t[i] = s[p]
    BY <1>2
  <2>2. PICK k : k = s[p].of[2]
    OBVIOUS
  <2>3. /\ k \in Nat /\ k >= 1 /\ p - k \in DOMAIN s
        /\ s[p - k].n = s[p].of[1] /\ k <= Len(s[p - k].calls)
    BY <1>1, <2>1, <2>2, FieldsOf DEF Chained, Answered
  <2>4. p - k >= b
    <3> SUFFICES ASSUME p - k < b
                 PROVE  FALSE
      BY <1>1, <2>1, <2>3
    <3>1. (p - k) + Len(s[p - k].calls) < b
      BY <2>3, CallsEndBefore DEF Chained
    <3>2. PICK l \in Nat : l = Len(s[p - k].calls)
      BY <1>1, <2>3, FieldsOf
    <3>3. k <= l /\ (p - k) + l < b
      BY <2>3, <3>1, <3>2
    <3>4. b <= p /\ p \in Int /\ b \in Int
      BY <1>1, <1>2, <2>1
    <3> QED
      BY <2>3, <3>2, <3>3, <3>4
  <2>5. i - k \in DOMAIN t /\ (i - k) + b - 1 = p - k
    <3>1. p - k \in 1..Len(s) /\ b <= p - k
      BY <1>1, <2>3, <2>4
    <3>2. /\ (p - k) - b + 1 \in 1..(Len(s) - b + 1)
          /\ ((p - k) - b + 1) + b - 1 = p - k
      BY <1>1, <3>1, MovedBack
    <3>3. p = i + b - 1 /\ i \in Int /\ b \in Int /\ k \in Int
      BY <1>1, <1>2, <2>1, <2>3
    <3>4. (p - k) - b + 1 = i - k
      BY <3>3
    <3> QED
      BY <1>2, <3>2, <3>4
  <2>6. t[i - k] = s[p - k]
    BY <1>2, <2>5
  <2> QED
    BY <2>1, <2>2, <2>3, <2>5, <2>6
<1>4. Asked(t)
  <2> SUFFICES ASSUME NEW i \in DOMAIN t, NEW j \in DOMAIN t, i < j, j <= i + Len(t[i].calls)
               PROVE  t[j].role = "tool" /\ t[j].of = <<t[i].n, j - i>>
    BY DEF Asked
  <2>1. PICK p \in DOMAIN s : p = i + b - 1 /\ t[i] = s[p]
    BY <1>2
  <2>2. PICK r \in DOMAIN s : r = j + b - 1 /\ t[j] = s[r]
    BY <1>2
  <2>3. PICK l \in Nat : l = Len(s[p].calls)
    BY <1>1, FieldsOf
  <2>4. j <= i + l
    BY <2>1, <2>3
  <2>5. i \in Int /\ j \in Int /\ b \in Int
    BY <1>1, <1>2
  <2>8. p = i + b - 1 /\ r = j + b - 1
    BY <2>1, <2>2
  <2>9. p \in Int /\ r \in Int /\ l \in Int
    BY <2>5, <2>8
  <2>6. p < r /\ r <= p + l /\ r - p = j - i
    BY <2>4, <2>5, <2>8, <2>9, MovedTogether
  <2>7. p < r /\ r <= p + Len(s[p].calls) /\ r - p = j - i
    BY <2>3, <2>6
  <2> QED
    BY <2>1, <2>2, <2>7 DEF Chained, Asked
<1>5. CallsAreAnswers(t)
  BY <1>2 DEF CallsAreAnswers
<1>6. ASSUME Closed(s)
      PROVE  Closed(t)
  <2> SUFFICES ASSUME NEW i \in DOMAIN t
               PROVE  i + Len(t[i].calls) <= Len(t)
    BY DEF Closed
  <2>1. PICK p \in DOMAIN s : p = i + b - 1 /\ t[i] = s[p]
    BY <1>2
  <2>2. p + Len(s[p].calls) <= Len(s) /\ Len(s[p].calls) \in Nat
    BY <1>1, <1>6, FieldsOf DEF Closed
  <2> QED
    BY <1>1, <1>2, <2>1, <2>2
<1> QED
  BY <1>2, <1>3, <1>4, <1>5, <1>6 DEF Chained, t

\* The answer whose results are still missing stays in such a piece.
LEMMA RestIsOpen ==
  ASSUME NEW s \in Seq(Message), Chained(s), CallsAreAnswers(s),
         NEW b \in DOMAIN s, s[b].role /= "tool",
         NEW q \in DOMAIN s, NEW l \in Nat, OpenAt(s, q, l)
  PROVE  /\ b <= q /\ q - b + 1 \in DOMAIN From(s, b)
         /\ From(s, b)[q - b + 1] = s[q] /\ OpenAt(From(s, b), q - b + 1, l)
<1> DEFINE t == From(s, b)
<1>1. /\ Len(s) \in Nat /\ DOMAIN s = 1..Len(s) /\ b \in 1..(Len(s) + 1) /\ b \in 1..Len(s)
      /\ q \in 1..Len(s) /\ \A i \in DOMAIN s : s[i] \in Message
  OBVIOUS
<1>2. /\ t \in Seq(Message) /\ Len(t) = Len(s) - b + 1 /\ DOMAIN t = 1..(Len(s) - b + 1)
      /\ \A i \in DOMAIN t : i + b - 1 \in DOMAIN s /\ t[i] = s[i + b - 1]
  BY <1>1, RestOf
<1> HIDE DEF t
<1>3. \A i \in DOMAIN s : Len(s[i].calls) \in Nat
  BY <1>1, FieldsOf
<1>4. /\ q + Len(s[q].calls) = Len(s) + l
      /\ \A i \in DOMAIN s : i /= q => i + Len(s[i].calls) <= Len(s)
  BY DEF OpenAt
<1>5. b <= q
  <2> SUFFICES ASSUME q < b
               PROVE  FALSE
    BY <1>1
  <2>1. q + Len(s[q].calls) < b
    BY CallsEndBefore DEF Chained
  <2> QED
    BY <1>1, <1>3, <1>4, <2>1
<1>6. q - b + 1 \in DOMAIN t /\ (q - b + 1) + b - 1 = q
  BY <1>1, <1>2, <1>5
<1>7. t[q - b + 1] = s[q]
  BY <1>2, <1>6
<1>8. (q - b + 1) + Len(t[q - b + 1].calls) = Len(t) + l
  <2>1. PICK k \in Nat : k = Len(s[q].calls)
    BY <1>3
  <2>2. q + k = Len(s) + l /\ Len(t[q - b + 1].calls) = k
    BY <1>4, <1>7, <2>1
  <2>3. Len(t) = Len(s) - b + 1 /\ Len(s) \in Int /\ b \in Int /\ q \in Int /\ k \in Int
    BY <1>1, <1>2, <2>1
  <2>4. PICK n \in Int : n = Len(s)
    BY <2>3
  <2>5. q + k = n + l
    BY <2>2, <2>4
  <2>6. (q - b + 1) + k = (n - b + 1) + l
    BY <2>3, <2>4, <2>5
  <2> QED
    BY <2>2, <2>3, <2>4, <2>6
<1>9. ASSUME NEW i \in DOMAIN t, i /= q - b + 1
      PROVE  i + Len(t[i].calls) <= Len(t)
  <2>1. PICK p \in DOMAIN s : p = i + b - 1 /\ t[i] = s[p]
    BY <1>2
  <2>2. p /= q
    BY <1>1, <1>2, <1>9, <2>1
  <2>3. PICK k \in Nat : k = Len(s[p].calls)
    BY <1>3
  <2>4. p + k <= Len(s) /\ Len(t[i].calls) = k
    BY <1>4, <2>1, <2>2, <2>3
  <2>5. /\ Len(t) = Len(s) - b + 1 /\ p = i + b - 1 /\ Len(s) \in Int /\ b \in Int
        /\ i \in Int /\ k \in Int
    BY <1>1, <1>2, <2>1, <2>3
  <2> QED
    BY <2>4, <2>5
<1> QED
  BY <1>5, <1>6, <1>7, <1>8, <1>9 DEF OpenAt, t

LEMMA BeginningIsChained ==
  ASSUME NEW s \in Seq(Message), Chained(s), CallsAreAnswers(s),
         NEW b \in DOMAIN s, IsBoundary(s[b])
  PROVE  /\ SubSeq(s, 1, b) \in Seq(Message) /\ Chained(SubSeq(s, 1, b))
         /\ CallsAreAnswers(SubSeq(s, 1, b)) /\ Closed(SubSeq(s, 1, b))
<1> DEFINE t == SubSeq(s, 1, b)
<1>1. Len(s) \in Nat /\ DOMAIN s = 1..Len(s) /\ b \in 1..Len(s) /\ \A i \in DOMAIN s : s[i] \in Message
  OBVIOUS
<1>2. t \in Seq(Message) /\ Len(t) = b /\ DOMAIN t = 1..b /\ \A i \in 1..b : i \in DOMAIN s /\ t[i] = s[i]
  BY BeginningOf
<1> HIDE DEF t
<1>3. \A i \in DOMAIN s : Len(s[i].calls) \in Nat
  BY <1>1, FieldsOf
<1>4. Answered(t)
  <2> SUFFICES ASSUME NEW i \in DOMAIN t, t[i].role = "tool"
               PROVE  /\ t[i].of[2] >= 1 /\ i - t[i].of[2] \in DOMAIN t
                      /\ t[i - t[i].of[2]].n = t[i].of[1]
                      /\ t[i].of[2] <= Len(t[i - t[i].of[2]].calls)
    BY DEF Answered
  <2>1. i \in DOMAIN s /\ t[i] = s[i]
    BY <1>2
  <2>2. PICK k : k = s[i].of[2]
    OBVIOUS
  <2>3. /\ k \in Nat /\ k >= 1 /\ i - k \in DOMAIN s
        /\ s[i - k].n = s[i].of[1] /\ k <= Len(s[i - k].calls)
    BY <1>1, <2>1, <2>2, FieldsOf DEF Chained, Answered
  <2>4. i - k \in 1..b
    BY <1>1, <1>2, <2>3
  <2>5. t[i - k] = s[i - k]
    BY <1>2, <2>4
  <2> QED
    BY <1>2, <2>1, <2>2, <2>3, <2>4, <2>5
<1>5. Asked(t)
  BY <1>2 DEF Chained, Asked
<1>6. CallsAreAnswers(t)
  BY <1>2 DEF CallsAreAnswers
<1>7. Closed(t)
  <2> SUFFICES ASSUME NEW i \in 1..b
               PROVE  i + Len(s[i].calls) <= b
    BY <1>2 DEF Closed
  <2>1. s[b].role /= "tool" /\ Len(s[b].calls) = 0
    BY BoundariesAreClosed
  <2>2. CASE i = b
    BY <1>1, <2>1, <2>2
  <2>3. CASE i < b
    <3>1. i + Len(s[i].calls) < b
      BY <1>2, <2>1, <2>3, CallsEndBefore DEF Chained
    <3> QED
      BY <1>1, <1>2, <1>3, <3>1
  <2> QED
    BY <1>1, <2>2, <2>3
<1> QED
  BY <1>2, <1>4, <1>5, <1>6, <1>7 DEF Chained, t

\* A message that is no result goes to the end of a closed history.
LEMMA LongerByAMessage ==
  ASSUME NEW s \in Seq(Message), Chained(s), CallsAreAnswers(s), Closed(s),
         NEW m \in Message, m.role /= "tool", m.role /= "assistant" => m.calls = <<>>
  PROVE  /\ Append(s, m) \in Seq(Message) /\ Chained(Append(s, m)) /\ CallsAreAnswers(Append(s, m))
         /\ m.calls = <<>> => Closed(Append(s, m))
         /\ OpenAt(Append(s, m), Len(s) + 1, Len(m.calls))
<1> DEFINE t == Append(s, m)
<1>1. /\ Len(s) \in Nat /\ DOMAIN s = 1..Len(s) /\ \A i \in DOMAIN s : s[i] \in Message
  OBVIOUS
<1>2. /\ t \in Seq(Message) /\ Len(t) = Len(s) + 1 /\ DOMAIN t = 1..(Len(s) + 1)
      /\ \A i \in DOMAIN s : t[i] = s[i]
      /\ t[Len(s) + 1] = m
  BY ElementsOfAppend
<1> HIDE DEF t
<1>3. \A i \in DOMAIN t : t[i] \in Message /\ Len(t[i].calls) \in Nat
  <2>1. \A i \in DOMAIN t : t[i] \in Message
    BY <1>2
  <2> QED
    BY <2>1, FieldsOf
<1>4. \A i \in DOMAIN t : i \in DOMAIN s \/ (i = Len(s) + 1 /\ t[i] = m)
  BY <1>1, <1>2
<1>5. \A i \in DOMAIN s : t[i] = s[i] /\ i + Len(t[i].calls) <= Len(s)
  BY <1>2 DEF Closed
<1>6. Answered(t)
  <2> SUFFICES ASSUME NEW i \in DOMAIN t, t[i].role = "tool"
               PROVE  /\ t[i].of[2] >= 1 /\ i - t[i].of[2] \in DOMAIN t
                      /\ t[i - t[i].of[2]].n = t[i].of[1]
                      /\ t[i].of[2] <= Len(t[i - t[i].of[2]].calls)
    BY DEF Answered
  <2>1. i \in DOMAIN s /\ t[i] = s[i]
    BY <1>4, <1>5
  <2>2. PICK k : k = s[i].of[2]
    OBVIOUS
  <2>3. /\ k >= 1 /\ i - k \in DOMAIN s
        /\ s[i - k].n = s[i].of[1] /\ k <= Len(s[i - k].calls)
    BY <2>1, <2>2 DEF Chained, Answered
  <2>4. i - k \in DOMAIN t /\ t[i - k] = s[i - k]
    BY <1>1, <1>2, <2>3
  <2> QED
    BY <2>1, <2>2, <2>3, <2>4
<1>7. Asked(t)
  <2> SUFFICES ASSUME NEW i \in DOMAIN t, NEW j \in DOMAIN t, i < j, j <= i + Len(t[i].calls)
               PROVE  t[j].role = "tool" /\ t[j].of = <<t[i].n, j - i>>
    BY DEF Asked
  <2>1. i \in DOMAIN s /\ t[i] = s[i]
    BY <1>1, <1>2, <1>4
  <2>2. i + Len(t[i].calls) <= Len(s)
    BY <1>5, <2>1
  <2>3. PICK l \in Nat : l = Len(t[i].calls)
    BY <1>3
  <2>4. j <= i + l /\ i + l <= Len(s)
    BY <2>2, <2>3
  <2>5. j \in DOMAIN s /\ t[j] = s[j]
    BY <1>1, <1>2, <2>3, <2>4
  <2> QED
    BY <2>1, <2>5 DEF Chained, Asked
<1>8. CallsAreAnswers(t)
  BY <1>2, <1>4 DEF CallsAreAnswers
<1>9. m.calls = <<>> => Closed(t)
  <2> SUFFICES ASSUME m.calls = <<>>, NEW i \in DOMAIN t
               PROVE  i + Len(t[i].calls) <= Len(t)
    BY DEF Closed
  <2>1. CASE i \in DOMAIN s
    <3>1. PICK l \in Nat : l = Len(t[i].calls)
      BY <1>3
    <3>2. i + l <= Len(s)
      BY <1>5, <2>1, <3>1
    <3> QED
      BY <1>1, <1>2, <3>1, <3>2
  <2>2. CASE i = Len(s) + 1 /\ t[i] = m
    <3>1. Len(t[i].calls) = 0
      BY <2>2, NoCalls
    <3>2. i = Len(t) /\ i \in Int /\ i + 0 <= Len(t)
      BY <1>1, <1>2, <2>2
    <3> QED
      BY <3>1, <3>2
  <2> QED
    BY <1>4, <2>1, <2>2
<1>10. OpenAt(t, Len(s) + 1, Len(m.calls))
  <2>1. Len(s) + 1 \in DOMAIN t
    BY <1>1, <1>2
  <2>2. ASSUME NEW i \in DOMAIN t, i /= Len(s) + 1
        PROVE  i + Len(t[i].calls) <= Len(t)
    <3>1. i \in DOMAIN s
      BY <1>4, <2>2
    <3>2. PICK l \in Nat : l = Len(t[i].calls)
      BY <1>3
    <3>3. i + l <= Len(s)
      BY <1>5, <3>1, <3>2
    <3> QED
      BY <1>1, <1>2, <3>1, <3>2, <3>3
  <2> QED
    BY <1>2, <2>1, <2>2 DEF OpenAt
<1> QED
  BY <1>2, <1>6, <1>7, <1>8, <1>9, <1>10 DEF Chained, t

\* The next result goes to the end of a history that waits for it.
LEMMA LongerByAResult ==
  ASSUME NEW s \in Seq(Message), Chained(s), CallsAreAnswers(s),
         NEW q \in DOMAIN s, NEW l \in Nat, 1 <= l, OpenAt(s, q, l),
         NEW m \in Message, m.role = "tool", m.calls = <<>>,
         m.of = <<s[q].n, Len(s[q].calls) - l + 1>>
  PROVE  /\ Append(s, m) \in Seq(Message) /\ Chained(Append(s, m)) /\ CallsAreAnswers(Append(s, m))
         /\ l = 1 => Closed(Append(s, m))
         /\ q \in DOMAIN Append(s, m) /\ Append(s, m)[q] = s[q] /\ OpenAt(Append(s, m), q, l - 1)
<1> DEFINE t == Append(s, m)
<1>1. /\ Len(s) \in Nat /\ DOMAIN s = 1..Len(s) /\ \A i \in DOMAIN s : s[i] \in Message
  OBVIOUS
<1>2. /\ t \in Seq(Message) /\ Len(t) = Len(s) + 1 /\ DOMAIN t = 1..(Len(s) + 1)
      /\ \A i \in DOMAIN s : t[i] = s[i]
      /\ t[Len(s) + 1] = m
  BY ElementsOfAppend
<1> HIDE DEF t
<1>3. \A i \in DOMAIN t : t[i] \in Message /\ Len(t[i].calls) \in Nat
  <2>1. \A i \in DOMAIN t : t[i] \in Message
    BY <1>2
  <2> QED
    BY <2>1, FieldsOf
<1>4. \A i \in DOMAIN t : i \in DOMAIN s \/ (i = Len(s) + 1 /\ t[i] = m)
  BY <1>1, <1>2
<1>5. \A i \in DOMAIN s : t[i] = s[i] /\ (i /= q => i + Len(t[i].calls) <= Len(s))
  BY <1>2 DEF OpenAt
<1>6. PICK c \in Nat : c = Len(s[q].calls)
  BY <1>2, <1>3, <1>5
<1>7. q + c = Len(s) + l /\ q \in 1..Len(s)
  BY <1>1, <1>6 DEF OpenAt
<1>8. PICK k \in Nat : k = c - l + 1 /\ Len(s) + 1 - k = q /\ 1 <= k /\ k <= c
  BY <1>1, <1>7
<1>9. m.of = <<s[q].n, k>> /\ m.of[1] = s[q].n /\ m.of[2] = k
  BY <1>6, <1>8
<1>10. q \in DOMAIN t /\ t[q] = s[q]
  BY <1>1, <1>2
<1>11. Answered(t)
  <2> SUFFICES ASSUME NEW i \in DOMAIN t, t[i].role = "tool"
               PROVE  /\ t[i].of[2] >= 1 /\ i - t[i].of[2] \in DOMAIN t
                      /\ t[i - t[i].of[2]].n = t[i].of[1]
                      /\ t[i].of[2] <= Len(t[i - t[i].of[2]].calls)
    BY DEF Answered
  <2>1. CASE i \in DOMAIN s
    <3>1. t[i] = s[i]
      BY <1>5, <2>1
    <3>2. PICK g : g = s[i].of[2]
      OBVIOUS
    <3>3. /\ g >= 1 /\ i - g \in DOMAIN s
          /\ s[i - g].n = s[i].of[1] /\ g <= Len(s[i - g].calls)
      BY <2>1, <3>1, <3>2 DEF Chained, Answered
    <3>4. i - g \in DOMAIN t /\ t[i - g] = s[i - g]
      BY <1>1, <1>2, <3>3
    <3> QED
      BY <3>1, <3>2, <3>3, <3>4
  <2>2. CASE i = Len(s) + 1 /\ t[i] = m
    <3>1. t[i].of[1] = s[q].n /\ t[i].of[2] = k /\ i - k = q
      BY <1>8, <1>9, <2>2
    <3>2. t[i - k].n = s[q].n /\ Len(t[i - k].calls) = c
      BY <1>6, <1>10, <3>1
    <3> QED
      BY <1>8, <1>10, <3>1, <3>2
  <2> QED
    BY <1>4, <2>1, <2>2
<1>12. Asked(t)
  <2> SUFFICES ASSUME NEW i \in DOMAIN t, NEW j \in DOMAIN t, i < j, j <= i + Len(t[i].calls)
               PROVE  t[j].role = "tool" /\ t[j].of = <<t[i].n, j - i>>
    BY DEF Asked
  <2>1. i \in DOMAIN s /\ t[i] = s[i]
    BY <1>1, <1>2, <1>4
  <2>2. CASE j \in DOMAIN s
    BY <1>5, <2>1, <2>2 DEF Chained, Asked
  <2>3. CASE j = Len(s) + 1 /\ t[j] = m
    <3>1. PICK d \in Nat : d = Len(t[i].calls)
      BY <1>3
    <3>2. j <= i + d
      BY <3>1
    <3>3. i = q
      BY <1>1, <1>5, <2>1, <2>3, <3>1, <3>2
    <3>4. j - i = k
      BY <1>1, <1>7, <1>8, <2>3, <3>3
    <3> QED
      BY <1>9, <1>10, <2>3, <3>3, <3>4
  <2> QED
    BY <1>4, <2>2, <2>3
<1>13. CallsAreAnswers(t)
  BY <1>2, <1>4 DEF CallsAreAnswers
<1>14. OpenAt(t, q, l - 1)
  <2>1. q + Len(t[q].calls) = Len(t) + (l - 1)
    BY <1>1, <1>2, <1>6, <1>7, <1>10
  <2>2. ASSUME NEW i \in DOMAIN t, i /= q
        PROVE  i + Len(t[i].calls) <= Len(t)
    <3>1. PICK d \in Nat : d = Len(t[i].calls)
      BY <1>3
    <3>2. CASE i \in DOMAIN s
      <4>1. i + d <= Len(s)
        BY <1>5, <2>2, <3>1, <3>2
      <4> QED
        BY <1>1, <1>2, <3>1, <3>2, <4>1
    <3>3. CASE i = Len(s) + 1 /\ t[i] = m
      <4>1. Len(t[i].calls) = 0
        BY <3>3, NoCalls
      <4>2. i = Len(t) /\ i \in Int /\ i + 0 <= Len(t)
        BY <1>1, <1>2, <3>3
      <4> QED
        BY <4>1, <4>2
    <3> QED
      BY <1>4, <3>2, <3>3
  <2> QED
    BY <1>10, <2>1, <2>2 DEF OpenAt
<1>15. l = 1 => Closed(t)
  <2> SUFFICES ASSUME l = 1, NEW i \in DOMAIN t
               PROVE  i + Len(t[i].calls) <= Len(t)
    BY DEF Closed
  <2>1. q + Len(t[q].calls) = Len(t) + 0
    BY <1>14 DEF OpenAt
  <2> QED
    BY <1>1, <1>2, <1>14, <2>1 DEF OpenAt
<1> QED
  BY <1>2, <1>10, <1>11, <1>12, <1>13, <1>14, <1>15 DEF Chained, t

----------------------------------------------------------------------------
(* What cuts a history.                                                    *)

USE Sizes

LEMMA RestOfRest ==
  ASSUME NEW s \in Seq(Message), NEW a \in 1..(Len(s) + 1), NEW b \in DOMAIN From(s, a)
  PROVE  a + b - 1 \in DOMAIN s /\ From(s, a)[b] = s[a + b - 1]
         /\ From(From(s, a), b) = From(s, a + b - 1)
<1> DEFINE t == From(s, a)
           u == From(t, b)
           v == From(s, a + b - 1)
<1>1. Len(s) \in Nat /\ DOMAIN s = 1..Len(s)
  OBVIOUS
<1>2. /\ t \in Seq(Message) /\ Len(t) = Len(s) - a + 1 /\ DOMAIN t = 1..(Len(s) - a + 1)
      /\ \A i \in DOMAIN t : i + a - 1 \in DOMAIN s /\ t[i] = s[i + a - 1]
  BY RestOf
<1>13. b \in DOMAIN t
  OBVIOUS
<1> HIDE DEF t
<1>3. PICK n \in Nat : n = Len(s)
  BY <1>1
<1>4. a \in Int /\ 1 <= a /\ a <= n + 1 /\ b \in 1..(n - a + 1)
  BY <1>2, <1>3, <1>13
<1>5. /\ b \in 1..(n - a + 2) /\ a + b - 1 \in 1..n /\ a + b - 1 \in 1..(n + 1)
      /\ b + a - 1 = a + b - 1
      /\ (n - a + 1) - b + 1 = n - (a + b - 1) + 1
  BY <1>4
<1>6. b \in 1..(Len(t) + 1) /\ a + b - 1 \in 1..(Len(s) + 1)
  BY <1>2, <1>3, <1>4, <1>5
<1>10. /\ u \in Seq(Message) /\ Len(u) = Len(t) - b + 1
       /\ DOMAIN u = 1..(Len(t) - b + 1)
       /\ \A i \in DOMAIN u : i + b - 1 \in DOMAIN t /\ u[i] = t[i + b - 1]
  <2>1. t \in Seq(Message) /\ b \in 1..(Len(t) + 1)
    BY <1>2, <1>6
  <2> QED
    BY ONLY <2>1, RestOf
<1>11. /\ v \in Seq(Message) /\ Len(v) = Len(s) - (a + b - 1) + 1
       /\ DOMAIN v = 1..(Len(s) - (a + b - 1) + 1)
       /\ \A i \in DOMAIN v : v[i] = s[i + (a + b - 1) - 1]
  <2> HIDE DEF v
  <2>1. PICK c \in 1..(Len(s) + 1) : c = a + b - 1
    BY <1>6
  <2>2. v = From(s, c)
    BY <2>1 DEF v
  <2>3. /\ v \in Seq(Message) /\ Len(v) = Len(s) - c + 1
        /\ DOMAIN v = 1..(Len(s) - c + 1)
        /\ \A i \in DOMAIN v : v[i] = s[i + c - 1]
    BY <2>2, RestOf
  <2> QED
    BY <2>1, <2>3
<1> HIDE DEF u, v
<1>12. Len(u) = Len(v) /\ DOMAIN u = DOMAIN v /\ DOMAIN u = 1..Len(u)
  BY <1>2, <1>3, <1>5, <1>10, <1>11
<1>7. ASSUME NEW i \in 1..Len(u)
      PROVE  u[i] = v[i]
  <2>1. i \in DOMAIN u /\ i \in DOMAIN v /\ i \in Int /\ a \in Int /\ b \in Int
    BY <1>4, <1>12
  <2>2. (i + b - 1) + a - 1 = i + (a + b - 1) - 1
    BY <2>1
  <2>3. u[i] = t[i + b - 1] /\ i + b - 1 \in DOMAIN t
    BY <1>10, <2>1
  <2>4. t[i + b - 1] = s[(i + b - 1) + a - 1]
    BY <1>2, <2>3
  <2>5. v[i] = s[i + (a + b - 1) - 1]
    BY <1>11, <2>1
  <2> QED
    BY <2>2, <2>3, <2>4, <2>5
<1>8. u = v
  BY <1>10, <1>11, <1>12, <1>7, SeqEqual
<1>9. a + b - 1 \in DOMAIN s /\ t[b] = s[a + b - 1]
  <2>1. b + a - 1 \in DOMAIN s /\ t[b] = s[b + a - 1]
    BY <1>2, <1>13
  <2> QED
    BY <1>5, <2>1
<1> QED
  BY <1>8, <1>9 DEF t, u, v

\* The tail begins at a boundary or, without one, after the leading results: never
\* at a result.
LEMMA SafeTail ==
  ASSUME NEW s \in Seq(Message), NEW a \in 1..(Len(s) + 1)
  PROVE  \/ /\ TailFromSafeBoundary(From(s, a)) = <<>>
            /\ \A i \in DOMAIN s : a <= i => s[i].role = "tool"
         \/ \E b \in DOMAIN s : /\ a <= b /\ s[b].role /= "tool"
                                /\ TailFromSafeBoundary(From(s, a)) = From(s, b)
<1> DEFINE t == From(s, a)
           starts == IF Boundaries(t) /= {} THEN Boundaries(t)
                     ELSE {i \in DOMAIN t : t[i].role /= "tool"}
<1>1. /\ Len(s) \in Nat /\ DOMAIN s = 1..Len(s) /\ a \in Int /\ 1 <= a
      /\ t \in Seq(Message) /\ DOMAIN t = 1..(Len(s) - a + 1)
      /\ \A i \in DOMAIN t : i + a - 1 \in DOMAIN s /\ t[i] = s[i + a - 1]
  BY RestOf
<1>2. TailFromSafeBoundary(t) = IF starts = {} THEN <<>> ELSE From(t, Min(starts))
  BY DEF TailFromSafeBoundary
<1>3. \A i \in starts : i \in DOMAIN t /\ t[i].role /= "tool"
  BY DEF Boundaries, IsBoundary
<1> HIDE DEF t
<1>4. CASE starts = {}
  <2>1. TailFromSafeBoundary(t) = <<>>
    BY <1>2, <1>4
  <2>2. \A i \in DOMAIN t : t[i].role = "tool"
    BY <1>4
  <2>3. ASSUME NEW i \in DOMAIN s, a <= i
        PROVE  s[i].role = "tool"
    <3>1. i - a + 1 \in DOMAIN t /\ (i - a + 1) + a - 1 = i
      BY <1>1, <2>3
    <3> QED
      BY <1>1, <2>2, <3>1
  <2> QED
    BY <2>1, <2>3 DEF t
<1>5. CASE starts /= {}
  <2> DEFINE m == Min(starts)
  <2>1. starts \in SUBSET Nat
    BY <1>1, <1>3
  <2> HIDE DEF starts
  <2>2. m \in starts
    BY <1>5, <2>1, LeastElement
  <2>3. m \in DOMAIN t /\ t[m].role /= "tool" /\ TailFromSafeBoundary(t) = From(t, m)
    BY <1>2, <1>3, <1>5, <2>2
  <2> HIDE DEF m
  <2>4. a + m - 1 \in DOMAIN s /\ t[m] = s[a + m - 1] /\ From(t, m) = From(s, a + m - 1)
    BY <2>3, RestOfRest DEF t
  <2>5. a <= a + m - 1
    BY <1>1, <2>3
  <2>6. /\ a <= a + m - 1 /\ s[a + m - 1].role /= "tool"
        /\ TailFromSafeBoundary(t) = From(s, a + m - 1)
    BY <2>3, <2>4, <2>5
  <2> QED
    BY <2>4, <2>6 DEF t
<1> QED
  BY <1>4, <1>5

\* The operator's history after a cut is one of at most MaxMessages messages, whose
\* calls and results are together; the round that is not over is in it.
LEMMA TruncatedIsChained ==
  ASSUME NEW s \in Seq(Message), Chained(s), CallsAreAnswers(s)
  PROVE  /\ TruncateMessages(s) \in Seq(Message) /\ Chained(TruncateMessages(s))
         /\ CallsAreAnswers(TruncateMessages(s)) /\ Len(TruncateMessages(s)) <= MaxMessages
         /\ Closed(s) => Closed(TruncateMessages(s))
<1>1. CASE Len(s) <= MaxMessages
  BY <1>1 DEF TruncateMessages
<1>2. CASE ~(Len(s) <= MaxMessages)
  <2> DEFINE a == Len(s) - MaxMessages + 1
  <2>1. Len(s) \in Nat /\ DOMAIN s = 1..Len(s) /\ a \in 1..(Len(s) + 1)
    BY <1>2
  <2>2. TruncateMessages(s) = TailFromSafeBoundary(From(s, a))
    BY <1>2 DEF TruncateMessages
  <2> HIDE DEF a
  <2>3. CASE TruncateMessages(s) = <<>>
    BY <2>3, NothingIsChained
  <2>4. CASE \E b \in DOMAIN s : /\ a <= b /\ s[b].role /= "tool" /\ TruncateMessages(s) = From(s, b)
    <3>1. PICK b \in DOMAIN s : a <= b /\ s[b].role /= "tool" /\ TruncateMessages(s) = From(s, b)
      BY <2>4
    <3>2. /\ From(s, b) \in Seq(Message) /\ Chained(From(s, b)) /\ CallsAreAnswers(From(s, b))
          /\ Closed(s) => Closed(From(s, b))
      BY <3>1, RestIsChained
    <3>3. Len(From(s, b)) = Len(s) - b + 1
      BY <2>1, RestOf
    <3>4. Len(s) - b + 1 <= MaxMessages
      BY <2>1, <3>1 DEF a
    <3> QED
      BY <3>1, <3>2, <3>3, <3>4
  <2> QED
    BY <2>1, <2>2, <2>3, <2>4, SafeTail
<1> QED
  BY <1>1, <1>2

LEMMA TruncatedIsOpen ==
  ASSUME NEW s \in Seq(Message), Chained(s), CallsAreAnswers(s),
         NEW q \in DOMAIN s, NEW l \in Nat, 1 <= l, OpenAt(s, q, l)
  PROVE  \E p \in DOMAIN TruncateMessages(s) :
           TruncateMessages(s)[p] = s[q] /\ OpenAt(TruncateMessages(s), p, l)
<1>1. CASE Len(s) <= MaxMessages
  BY <1>1 DEF TruncateMessages
<1>2. CASE ~(Len(s) <= MaxMessages)
  <2> DEFINE a == Len(s) - MaxMessages + 1
  <2>1. Len(s) \in Nat /\ DOMAIN s = 1..Len(s) /\ a \in 1..(Len(s) + 1)
    BY <1>2
  <2>2. TruncateMessages(s) = TailFromSafeBoundary(From(s, a))
    BY <1>2 DEF TruncateMessages
  <2>3. PICK c \in 0..MaxCalls : c = Len(s[q].calls)
    BY FieldsOf
  <2>4. q + c = Len(s) + l
    BY <2>3 DEF OpenAt
  <2>5. a <= q /\ 1 <= c
    BY <2>1, <2>3, <2>4
  <2>6. s[q].role /= "tool"
    BY <2>3, <2>5, NoCalls DEF CallsAreAnswers
  <2> HIDE DEF a
  <2>7. PICK b \in DOMAIN s : s[b].role /= "tool" /\ TruncateMessages(s) = From(s, b)
    BY <2>1, <2>2, <2>5, <2>6, SafeTail
  <2>8. /\ q - b + 1 \in DOMAIN From(s, b)
        /\ From(s, b)[q - b + 1] = s[q] /\ OpenAt(From(s, b), q - b + 1, l)
    BY <2>7, RestIsOpen
  <2> QED
    BY <2>7, <2>8
<1> QED
  BY <1>1, <1>2

\* What a crash in the middle of a round has left is dropped: the rest is closed.
LEMMA TrimmedIsClosed ==
  ASSUME NEW s \in Seq(Message), Chained(s), CallsAreAnswers(s)
  PROVE  /\ TrimIncompleteTail(s) \in Seq(Message) /\ Chained(TrimIncompleteTail(s))
         /\ CallsAreAnswers(TrimIncompleteTail(s)) /\ Closed(TrimIncompleteTail(s))
         /\ Len(TrimIncompleteTail(s)) <= Len(s)
<1>1. Len(s) \in Nat /\ DOMAIN s = 1..Len(s)
  OBVIOUS
<1>2. CASE Boundaries(s) = {}
  BY <1>1, <1>2, NothingIsChained DEF TrimIncompleteTail
<1>3. CASE Boundaries(s) /= {}
  <2> DEFINE m == Max(Boundaries(s))
  <2>1. Boundaries(s) \in SUBSET (0..Len(s))
    BY <1>1 DEF Boundaries
  <2>2. m \in Boundaries(s)
    BY <1>1, <1>3, <2>1, GreatestElement
  <2>3. TrimIncompleteTail(s) = SubSeq(s, 1, m)
    BY <1>3 DEF TrimIncompleteTail
  <2> HIDE DEF m
  <2>4. m \in DOMAIN s /\ IsBoundary(s[m])
    BY <2>2 DEF Boundaries
  <2>5. Len(SubSeq(s, 1, m)) = m
    BY <2>4, BeginningOf
  <2>6. m <= Len(s)
    BY <1>1, <2>4
  <2> QED
    BY <2>3, <2>4, <2>5, <2>6, BeginningIsChained
<1> QED
  BY <1>2, <1>3

----------------------------------------------------------------------------
(* Compaction.                                                             *)

\* Elision changes nothing but the text of results.
LEMMA ElidedMessages ==
  ASSUME NEW s \in Seq(Message)
  PROVE  /\ ElideToolResults(s) \in Seq(Message) /\ Len(ElideToolResults(s)) = Len(s)
         /\ DOMAIN ElideToolResults(s) = DOMAIN s
         /\ \A i \in DOMAIN s : /\ ElideToolResults(s)[i].n = s[i].n
                                /\ ElideToolResults(s)[i].role = s[i].role
                                /\ ElideToolResults(s)[i].calls = s[i].calls
                                /\ ElideToolResults(s)[i].of = s[i].of
         /\ \A i \in DOMAIN s : i \notin Elided(s) => ElideToolResults(s)[i] = s[i]
<1> DEFINE t == ElideToolResults(s)
<1>1. Len(s) \in Nat /\ DOMAIN s = 1..Len(s) /\ \A i \in DOMAIN s : s[i] \in Message
  OBVIOUS
<1>2. \A i \in DOMAIN s : t[i] = IF i \in Elided(s) THEN [s[i] EXCEPT !.text = "stub"] ELSE s[i]
  BY DEF ElideToolResults
<1>3. DOMAIN t = DOMAIN s
  BY DEF ElideToolResults
<1>4. t = [i \in 1..Len(s) |-> t[i]]
  BY <1>1 DEF ElideToolResults
<1> HIDE DEF t
<1>5. ASSUME NEW m \in Message
      PROVE  /\ [m EXCEPT !.text = "stub"] \in Message
             /\ [m EXCEPT !.text = "stub"].n = m.n /\ [m EXCEPT !.text = "stub"].role = m.role
             /\ [m EXCEPT !.text = "stub"].calls = m.calls /\ [m EXCEPT !.text = "stub"].of = m.of
  BY <1>5 DEF Message
<1>6. \A i \in 1..Len(s) : t[i] \in Message
  BY <1>1, <1>2, <1>5
<1>7. t \in Seq(Message) /\ Len(t) = Len(s)
  BY <1>1, <1>4, <1>6
<1>8. \A i \in DOMAIN s : t[i].n = s[i].n /\ t[i].role = s[i].role
                          /\ t[i].calls = s[i].calls /\ t[i].of = s[i].of
  BY <1>1, <1>2, <1>5
<1> QED
  BY <1>2, <1>3, <1>7, <1>8 DEF t

LEMMA ElidedIsChained ==
  ASSUME NEW s \in Seq(Message), Chained(s), CallsAreAnswers(s), Closed(s)
  PROVE  /\ ElideToolResults(s) \in Seq(Message) /\ Chained(ElideToolResults(s))
         /\ CallsAreAnswers(ElideToolResults(s)) /\ Closed(ElideToolResults(s))
<1> DEFINE t == ElideToolResults(s)
<1>1. /\ t \in Seq(Message) /\ Len(t) = Len(s) /\ DOMAIN t = DOMAIN s
      /\ \A i \in DOMAIN s : /\ t[i].n = s[i].n /\ t[i].role = s[i].role
                             /\ t[i].calls = s[i].calls /\ t[i].of = s[i].of
  BY ElidedMessages
<1> HIDE DEF t
<1>2. Answered(t)
  BY <1>1 DEF Chained, Answered
<1>3. Asked(t)
  BY <1>1 DEF Chained, Asked
<1>4. CallsAreAnswers(t) /\ Closed(t)
  BY <1>1 DEF CallsAreAnswers, Closed
<1> QED
  BY <1>1, <1>2, <1>3, <1>4 DEF Chained, t

\* What goes before a closed history without calling a tool.
LEMMA WithAMessageBefore ==
  ASSUME NEW t \in Seq(Message), Chained(t), CallsAreAnswers(t), Closed(t),
         NEW m \in Message, m.role = "user", m.calls = <<>>
  PROVE  /\ <<m>> \o t \in Seq(Message) /\ Chained(<<m>> \o t) /\ CallsAreAnswers(<<m>> \o t)
         /\ Closed(<<m>> \o t) /\ (<<m>> \o t)[1] = m /\ <<m>> \o t /= <<>>
         /\ Len(<<m>> \o t) = Len(t) + 1
<1> DEFINE u == <<m>> \o t
<1>1. Len(t) \in Nat /\ DOMAIN t = 1..Len(t) /\ \A i \in DOMAIN t : t[i] \in Message
  OBVIOUS
<1>2. <<m>> \in Seq(Message) /\ Len(<<m>>) = 1 /\ <<m>>[1] = m
  OBVIOUS
<1>3. /\ u \in Seq(Message) /\ Len(u) = 1 + Len(t)
      /\ \A i \in 1..(1 + Len(t)) : u[i] = IF i <= 1 THEN <<m>>[i] ELSE t[i - 1]
  BY <1>2, ConcatProperties
<1> HIDE DEF u
<1>4. /\ Len(u) = Len(t) + 1 /\ DOMAIN u = 1..(Len(t) + 1) /\ u[1] = m
      /\ \A i \in DOMAIN u : \/ i = 1 /\ u[i] = m
                             \/ i - 1 \in DOMAIN t /\ u[i] = t[i - 1]
  BY <1>1, <1>2, <1>3
<1>5. Len(m.calls) = 0
  BY NoCalls
<1>6. \A i \in DOMAIN u : i \in Int /\ Len(u[i].calls) \in Nat
  <2>1. \A i \in DOMAIN u : i \in Int /\ u[i] \in Message
    BY <1>3
  <2> QED
    BY <2>1, FieldsOf
<1>7. Answered(u)
  <2> SUFFICES ASSUME NEW i \in DOMAIN u, u[i].role = "tool"
               PROVE  /\ u[i].of[2] >= 1 /\ i - u[i].of[2] \in DOMAIN u
                      /\ u[i - u[i].of[2]].n = u[i].of[1]
                      /\ u[i].of[2] <= Len(u[i - u[i].of[2]].calls)
    BY DEF Answered
  <2>1. i - 1 \in DOMAIN t /\ u[i] = t[i - 1]
    BY <1>4
  <2>2. PICK p \in DOMAIN t : p = i - 1 /\ u[i] = t[p]
    BY <2>1
  <2>3. PICK g \in Nat : g = t[p].of[2]
    BY <1>1, FieldsOf
  <2>4. /\ g >= 1 /\ p - g \in DOMAIN t
        /\ t[p - g].n = t[p].of[1] /\ g <= Len(t[p - g].calls)
    BY <2>2, <2>3 DEF Chained, Answered
  <2>5. i - g \in DOMAIN u /\ i - g /= 1 /\ (i - g) - 1 = p - g
    <3>1. p = i - 1 /\ i \in Int /\ g \in Int /\ p - g \in 1..Len(t)
      BY <1>1, <1>6, <2>2, <2>3, <2>4
    <3>2. (i - g) - 1 = p - g /\ i - g \in 1..(Len(t) + 1) /\ i - g /= 1
      BY <1>1, <3>1
    <3> QED
      BY <1>4, <3>2
  <2>6. u[i - g] = t[p - g]
    BY <1>4, <2>5
  <2> QED
    BY <2>2, <2>3, <2>4, <2>5, <2>6
<1>8. Asked(u)
  <2> SUFFICES ASSUME NEW i \in DOMAIN u, NEW j \in DOMAIN u, i < j, j <= i + Len(u[i].calls)
               PROVE  u[j].role = "tool" /\ u[j].of = <<u[i].n, j - i>>
    BY DEF Asked
  <2>1. PICK l \in Nat : l = Len(u[i].calls)
    BY <1>6
  <2>2. j <= i + l
    BY <2>1
  <2>3. i /= 1 /\ j /= 1
    BY <1>4, <1>5, <1>6, <2>1, <2>2
  <2>4. PICK p \in DOMAIN t : p = i - 1 /\ u[i] = t[p]
    BY <1>4, <2>3
  <2>5. PICK r \in DOMAIN t : r = j - 1 /\ u[j] = t[r]
    BY <1>4, <2>3
  <2>6. p < r /\ r <= p + l /\ r - p = j - i
    BY <1>6, <2>1, <2>2, <2>4, <2>5
  <2>7. p < r /\ r <= p + Len(t[p].calls)
    BY <2>1, <2>4, <2>6
  <2> QED
    BY <2>4, <2>5, <2>6, <2>7 DEF Chained, Asked
<1>9. CallsAreAnswers(u)
  BY <1>4 DEF CallsAreAnswers
<1>10. Closed(u)
  <2> SUFFICES ASSUME NEW i \in DOMAIN u
               PROVE  i + Len(u[i].calls) <= Len(u)
    BY DEF Closed
  <2>1. PICK l \in Nat : l = Len(u[i].calls)
    BY <1>6
  <2>2. CASE i = 1 /\ u[i] = m
    BY <1>1, <1>4, <1>5, <2>1, <2>2
  <2>3. CASE i - 1 \in DOMAIN t /\ u[i] = t[i - 1]
    <3>1. (i - 1) + l <= Len(t)
      BY <2>1, <2>3 DEF Closed
    <3> QED
      BY <1>1, <1>4, <1>6, <2>1, <3>1
  <2> QED
    BY <1>4, <2>2, <2>3
<1> QED
  BY <1>3, <1>4, <1>7, <1>8, <1>9, <1>10 DEF Chained, u

\* The answers from x on; the protected tail starts where there are KeepTurns.
AnswersFrom(s, x) == {j \in Answers(s) : j >= x}

LEMMA AnswersAreFinite ==
  ASSUME NEW s \in Seq(Message)
  PROVE  /\ Answers(s) \in SUBSET (1..Len(s)) /\ IsFiniteSet(Answers(s))
         /\ Cardinality(Answers(s)) \in Nat
         /\ \A x \in Nat : /\ IsFiniteSet(AnswersFrom(s, x))
                           /\ Cardinality(AnswersFrom(s, x)) \in Nat
<1>1. Len(s) \in Nat /\ DOMAIN s = 1..Len(s)
  OBVIOUS
<1>2. Answers(s) \in SUBSET (1..Len(s))
  BY <1>1 DEF Answers
<1>3. IsFiniteSet(1..Len(s))
  BY <1>1, FS_Interval
<1>4. IsFiniteSet(Answers(s))
  BY <1>2, <1>3, FS_Subset
<1>5. \A x \in Nat : AnswersFrom(s, x) \in SUBSET Answers(s)
  BY DEF AnswersFrom
<1>6. \A x \in Nat : IsFiniteSet(AnswersFrom(s, x))
  BY <1>4, <1>5, FS_Subset
<1> QED
  BY <1>2, <1>4, <1>6, FS_CardinalityType

LEMMA TailStart ==
  ASSUME NEW s \in Seq(Message), ~(Cardinality(Answers(s)) < KeepTurns)
  PROVE  /\ ProtectedTailStart(s) \in Answers(s)
         /\ Cardinality(AnswersFrom(s, ProtectedTailStart(s))) = KeepTurns
<1> DEFINE A == Answers(s)
           C(x) == Cardinality(AnswersFrom(s, x))
           G == {x \in A : C(x) >= KeepTurns}
<1>1. /\ Len(s) \in Nat /\ A \in SUBSET (1..Len(s)) /\ IsFiniteSet(A)
      /\ Cardinality(A) \in Nat /\ Cardinality(A) >= KeepTurns
      /\ KeepTurns \in Nat /\ KeepTurns >= 1
  <2>1. Len(s) \in Nat /\ KeepTurns \in Nat /\ KeepTurns >= 1
    OBVIOUS
  <2>2. A \in SUBSET (1..Len(s)) /\ IsFiniteSet(A) /\ Cardinality(A) \in Nat
    BY AnswersAreFinite
  <2>3. ~(Cardinality(A) < KeepTurns)
    OBVIOUS
  <2> HIDE DEF A
  <2>4. Cardinality(A) >= KeepTurns
    BY <2>1, <2>2, <2>3
  <2> QED
    BY <2>1, <2>2, <2>4
<1>2. \A x \in Nat : IsFiniteSet(AnswersFrom(s, x)) /\ C(x) \in Nat
  BY AnswersAreFinite
<1>3. A \in SUBSET Nat /\ A /= {}
  BY <1>1, FS_EmptySet
<1>4. G /= {}
  <2>1. Min(A) \in A /\ \A y \in A : Min(A) <= y
    BY <1>3, LeastElement
  <2>2. AnswersFrom(s, Min(A)) = A
    BY <1>3, <2>1 DEF AnswersFrom
  <2> QED
    BY <1>1, <2>1, <2>2
<1>5. G \in SUBSET (0..Len(s))
  BY <1>1
<1> DEFINE x == Max(G)
<1> HIDE DEF A, G
<1>6. x \in G /\ \A y \in G : y <= x
  BY <1>1, <1>4, <1>5, GreatestElement
<1> HIDE DEF x
<1>7. x \in A /\ x \in Nat /\ C(x) >= KeepTurns /\ C(x) \in Nat
  BY <1>2, <1>3, <1>6 DEF G
<1>8. C(x) = KeepTurns
  <2> SUFFICES ASSUME C(x) > KeepTurns
               PROVE  FALSE
    BY <1>1, <1>7
  <2> DEFINE H == AnswersFrom(s, x) \ {x}
  <2>1. x \in AnswersFrom(s, x)
    BY <1>7 DEF AnswersFrom, A
  <2>2. Cardinality(H) = C(x) - 1 /\ IsFiniteSet(H)
    BY <1>2, <1>7, <2>1, FS_RemoveElement
  <2>3. Cardinality(H) >= KeepTurns
    BY <1>1, <1>7, <2>2
  <2>4. H \in SUBSET Nat
    BY <1>3 DEF AnswersFrom, A
  <2> HIDE DEF H
  <2>5. H /= {}
    BY <1>1, <2>2, <2>3, FS_EmptySet
  <2>6. Min(H) \in H /\ \A y \in H : Min(H) <= y
    BY <2>4, <2>5, LeastElement
  <2>7. PICK y \in H : \A z \in H : y <= z
    BY <2>6
  <2>8. y \in A /\ y > x /\ y \in Nat
    BY <1>3, <1>7, <2>4, <2>7 DEF H, AnswersFrom, A
  <2>9. AnswersFrom(s, y) = H
    <3>1. \A z \in A : z >= y => z \in H
      BY <1>3, <1>7, <2>8 DEF H, AnswersFrom, A
    <3>2. \A z \in H : z \in A /\ z >= y
      BY <2>4, <2>7, <2>8 DEF H, AnswersFrom, A
    <3> QED
      BY <3>1, <3>2 DEF AnswersFrom, A
  <2>10. y \in G
    BY <2>3, <2>8, <2>9 DEF G
  <2> QED
    BY <1>6, <1>7, <2>8, <2>10
<1>9. ProtectedTailStart(s)
        = CHOOSE i \in Answers(s) : Cardinality({j \in Answers(s) : j >= i}) = KeepTurns
  BY DEF ProtectedTailStart
<1>10. \E i \in Answers(s) : Cardinality({j \in Answers(s) : j >= i}) = KeepTurns
  BY <1>7, <1>8 DEF AnswersFrom, A
<1> QED
  BY <1>9, <1>10 DEF AnswersFrom

LEMMA TailStartsInside ==
  ASSUME NEW s \in Seq(Message), s /= <<>>
  PROVE  ProtectedTailStart(s) \in DOMAIN s
<1>1. CASE Cardinality(Answers(s)) < KeepTurns
  <2>1. 1 \in DOMAIN s
    OBVIOUS
  <2> QED
    BY <1>1, <2>1 DEF ProtectedTailStart
<1>2. CASE ~(Cardinality(Answers(s)) < KeepTurns)
  BY <1>2, TailStart DEF Answers
<1> QED
  BY <1>1, <1>2

\* Without its first message a history starts at the second.
LEMMA TailIsRest ==
  ASSUME NEW s \in Seq(Message), s /= <<>>
  PROVE  Tail(s) = From(s, 2)
  BY DEF From

\* The parts of a rebuilt history: the task, the summary or none, and a piece of the
\* history that starts at no result.
LEMMA RebuiltTail ==
  ASSUME NEW s \in Seq(Message), Chained(s), CallsAreAnswers(s), Closed(s),
         s /= <<>>, s[1].calls = <<>>
  PROVE  \E t \in Seq(Message) :
           /\ Chained(t) /\ CallsAreAnswers(t) /\ Closed(t)
           /\ \A summary : RebuildHistory(s, summary) = <<s[1]>> \o summary \o t
<1> DEFINE p == ProtectedTailStart(s)
           window == TailFromSafeBoundary(From(s, p))
           tail == IF Len(window) = Len(s) THEN Tail(window) ELSE window
<1>1. Len(s) \in Nat /\ DOMAIN s = 1..Len(s) /\ 1 <= Len(s)
  OBVIOUS
<1>2. p \in DOMAIN s /\ p \in 1..(Len(s) + 1)
  BY <1>1, TailStartsInside
<1>3. \A summary : RebuildHistory(s, summary) = <<s[1]>> \o summary \o tail
  BY DEF RebuildHistory
<1> HIDE DEF p
<1>4. \/ window = <<>>
      \/ \E b \in DOMAIN s : s[b].role /= "tool" /\ window = From(s, b)
  BY <1>2, SafeTail
<1> HIDE DEF window
<1>5. tail \in Seq(Message) /\ Chained(tail) /\ CallsAreAnswers(tail) /\ Closed(tail)
  <2>1. CASE window = <<>>
    <3>1. tail = <<>>
      BY <1>1, <2>1
    <3> QED
      BY <3>1, NothingIsChained
  <2>2. CASE \E b \in DOMAIN s : s[b].role /= "tool" /\ window = From(s, b)
    <3>1. PICK b \in DOMAIN s : s[b].role /= "tool" /\ window = From(s, b)
      BY <2>2
    <3>2. Len(window) = Len(s) - b + 1
      BY <1>1, <3>1, RestOf
    <3>3. CASE Len(window) = Len(s)
      <4>1. b = 1
        BY <1>1, <3>2, <3>3
      <4>2. window = s
        BY <1>1, <3>1, <4>1, SubSeqFull DEF From
      <4>3. tail = From(s, 2)
        BY <3>3, <4>2, TailIsRest
      <4>4. CASE Len(s) = 1
        <5>1. From(s, 2) = <<>>
          BY <4>4, SubSeqEmpty DEF From
        <5> QED
          BY <4>3, <5>1, NothingIsChained
      <4>5. CASE 2 <= Len(s)
        <5>1. 1 \in DOMAIN s /\ 2 \in DOMAIN s
          BY <1>1, <4>5
        <5>2. s[2].role /= "tool"
          <6> SUFFICES ASSUME s[2].role = "tool"
                       PROVE  FALSE
            OBVIOUS
          <6>1. s[2] \in Message
            BY <5>1
          <6>2. PICK g \in Nat : g = s[2].of[2]
            BY <6>1, FieldsOf
          <6>3. g >= 1 /\ 2 - g \in DOMAIN s /\ g <= Len(s[2 - g].calls)
            BY <5>1, <6>2 DEF Chained, Answered
          <6>4. g = 1
            BY <1>1, <6>2, <6>3
          <6> QED
            BY <6>3, <6>4, NoCalls
        <5> QED
          BY <4>3, <5>1, <5>2, RestIsChained
      <4> QED
        BY <1>1, <4>4, <4>5
    <3>4. CASE Len(window) /= Len(s)
      BY <3>1, <3>4, RestIsChained
    <3> QED
      BY <3>3, <3>4
  <2> QED
    BY <1>4, <2>1, <2>2
<1> HIDE DEF tail
<1> QED
  BY <1>3, <1>5

LEMMA TwoBefore ==
  ASSUME NEW S, NEW a \in S, NEW b \in S, NEW s \in Seq(S)
  PROVE  (<<a>> \o <<b>>) \o s = <<a>> \o (<<b>> \o s)
  OBVIOUS

LEMMA RebuiltIsChained ==
  ASSUME NEW s \in Seq(Message), Chained(s), CallsAreAnswers(s), Closed(s),
         s /= <<>>, s[1] = User(1), NEW summary \in {<<>>, <<Synthetic>>}
  PROVE  /\ RebuildHistory(s, summary) \in Seq(Message) /\ Chained(RebuildHistory(s, summary))
         /\ CallsAreAnswers(RebuildHistory(s, summary)) /\ Closed(RebuildHistory(s, summary))
         /\ RebuildHistory(s, summary) /= <<>> /\ RebuildHistory(s, summary)[1] = s[1]
<1>1. s[1] \in Message /\ s[1].role = "user" /\ s[1].calls = <<>>
  BY DEF User, Plain
<1>2. PICK t \in Seq(Message) :
           /\ Chained(t) /\ CallsAreAnswers(t) /\ Closed(t)
           /\ \A x : RebuildHistory(s, x) = <<s[1]>> \o x \o t
  BY <1>1, RebuiltTail
<1>3. Synthetic \in Message /\ Synthetic.role = "user" /\ Synthetic.calls = <<>>
  BY UserMessages DEF Synthetic
<1>4. <<s[1]>> \in Seq(Message) /\ <<Synthetic>> \in Seq(Message)
  BY <1>1, <1>3
<1>5. CASE summary = <<>>
  <2>1. RebuildHistory(s, summary) = <<s[1]>> \o t
    BY <1>2, <1>4, <1>5, ConcatEmptySeq
  <2> QED
    BY <1>1, <1>2, <2>1, WithAMessageBefore
<1>6. CASE summary = <<Synthetic>>
  <2> DEFINE u == <<Synthetic>> \o t
  <2>1. RebuildHistory(s, summary) = <<s[1]>> \o u
    <3>1. RebuildHistory(s, summary) = (<<s[1]>> \o <<Synthetic>>) \o t
      BY <1>2, <1>6
    <3>2. (<<s[1]>> \o <<Synthetic>>) \o t = <<s[1]>> \o (<<Synthetic>> \o t)
      BY <1>1, <1>3, TwoBefore
    <3> QED
      BY <3>1, <3>2
  <2>2. u \in Seq(Message) /\ Chained(u) /\ CallsAreAnswers(u) /\ Closed(u)
    BY <1>2, <1>3, WithAMessageBefore
  <2> HIDE DEF u
  <2> QED
    BY <1>1, <2>1, <2>2, WithAMessageBefore
<1> QED
  BY <1>5, <1>6

----------------------------------------------------------------------------
(* The steps keep the history one a model accepts.                         *)

\* The answer the tools of a round belong to is the last one.
LEMMA CallerIs ==
  ASSUME said \in Seq(Message), IsNumbered(said), NEW c, IsLastAnswer(c)
  PROVE  Caller = said[c]
<1>1. c \in DOMAIN said /\ DOMAIN said = 1..Len(said) /\ Len(said) \in Nat
  BY DEF IsLastAnswer
<1>2. \A j \in DOMAIN said : j \in Int /\ said[j].n = j /\ (said[j].role = "assistant" => j <= c)
  BY <1>1 DEF IsNumbered, IsLastAnswer
<1>3. said[c] \in Elements(said) /\ said[c].role = "assistant"
  BY <1>1 DEF Elements, IsLastAnswer
<1>4. \A u \in Elements(said) : u.role = "assistant" => u.n <= said[c].n
  BY <1>1, <1>2 DEF Elements
<1>5. ASSUME NEW m \in Elements(said), m.role = "assistant",
             \A u \in Elements(said) : u.role = "assistant" => u.n <= m.n
      PROVE  m = said[c]
  <2>1. PICK j \in DOMAIN said : m = said[j]
    BY DEF Elements
  <2>2. j <= c /\ c <= j
    BY <1>1, <1>2, <1>3, <1>5, <2>1
  <2> QED
    BY <1>1, <1>2, <2>1, <2>2
<1>6. Caller \in Elements(said) /\ Caller.role = "assistant"
      /\ \A u \in Elements(said) : u.role = "assistant" => u.n <= Caller.n
  BY <1>3, <1>4 DEF Caller
<1> QED
  BY <1>5, <1>6

\* What every message does: said, history and file after an append.
\* A save changes nothing in the archives; whatever it does is remembered.
LEMMA ArchivesUntouched ==
  ASSUME ArchivesTypeOK, archives' = archives, pruned' = pruned,
         saveFailed' = saveFailed \/ saveFailed' = TRUE \/ saveFailed' = FALSE
  PROVE  ArchivesTypeOK'
<1>1. saveFailed' \in BOOLEAN
  <2>1. saveFailed \in BOOLEAN
    BY DEF ArchivesTypeOK
  <2> QED
    BY <2>1
<1> QED
  BY <1>1 DEF ArchivesTypeOK

LEMMA AppendKeeps ==
  ASSUME ChainInv, NEW m \in Message, m.n = Next1, AppendMessage(m),
         Chained(Append(messages, m)), CallsAreAnswers(Append(messages, m))
  PROVE  /\ kind' = kind /\ kind' \in {"operator", "worker"} /\ unsaved' \in BOOLEAN
         /\ spent' \in [{"compaction", "crash"} -> Nat]
         /\ messages' \in Seq(Message) /\ file' \in Seq(Message) /\ rows' \in Seq(Message)
         /\ said' \in Seq(Message) /\ ArchivesTypeOK' /\ cut' \subseteq Message
         /\ IsNumbered(said)' /\ Chained(messages)' /\ CallsAreAnswers(messages)' /\ FileInv'
         /\ said' = Append(said, m)
         /\ Closed(Append(messages, m)) => Closed(messages)'
         /\ kind' = "operator" => Len(messages') <= MaxMessages /\ Len(file') <= MaxMessages
         /\ kind' = "worker" => messages' /= <<>> /\ messages'[1] = User(1)
<1> DEFINE t == Append(messages, m)
<1>1. /\ kind \in {"operator", "worker"} /\ unsaved \in BOOLEAN
      /\ spent \in [{"compaction", "crash"} -> Nat]
      /\ messages \in Seq(Message) /\ file \in Seq(Message) /\ rows \in Seq(Message)
      /\ said \in Seq(Message) /\ ArchivesTypeOK /\ cut \subseteq Message
  BY DEF ChainInv, TypeOK
<1>2. /\ t \in Seq(Message) /\ Len(t) = Len(messages) + 1 /\ DOMAIN t = 1..(Len(messages) + 1)
      /\ \A i \in DOMAIN messages : t[i] = messages[i]
      /\ Elements(t) = Elements(messages) \cup {m}
  BY <1>1, ElementsOfAppend
<1>3. Chained(t) /\ CallsAreAnswers(t)
  OBVIOUS
<1>10. ArchivesTypeOK'
  BY <1>1, ArchivesUntouched DEF AppendMessage
<1>4. /\ kind' = kind /\ file' = file /\ spent' = spent
      /\ said' = Append(said, m)
      /\ kind = "operator" =>
           /\ messages' = TruncateMessages(t) /\ rows' = rows /\ unsaved' = TRUE
           /\ cut' = cut \cup (Elements(t) \ Elements(TruncateMessages(t)))
      /\ kind /= "operator" =>
           /\ messages' = t /\ rows' = Append(rows, m) /\ cut' = cut /\ unsaved' = unsaved
  BY DEF AppendMessage
<1> HIDE DEF t
<1>5. /\ said' \in Seq(Message) /\ Append(rows, m) \in Seq(Message)
      /\ DOMAIN said' = 1..(Len(said) + 1) /\ said'[Len(said) + 1] = m
      /\ \A i \in DOMAIN said : said'[i] = said[i]
  BY <1>1, <1>4, ElementsOfAppend
<1>6. IsNumbered(said')
  <2>1. IsNumbered(said) /\ m.n = Len(said) + 1 /\ DOMAIN said = 1..Len(said) /\ Len(said) \in Nat
    BY <1>1 DEF ChainInv, Next1
  <2> QED
    BY <1>5, <2>1 DEF IsNumbered
<1>7. FileInv'
  BY <1>4 DEF ChainInv, FileInv
<1>8. CASE kind = "operator"
  <2>1. messages' = TruncateMessages(t)
    BY <1>4, <1>8
  <2>2. /\ messages' \in Seq(Message) /\ Chained(messages') /\ CallsAreAnswers(messages')
        /\ Len(messages') <= MaxMessages
        /\ Closed(t) => Closed(messages')
    BY <1>2, <1>3, <2>1, TruncatedIsChained
  <2>4. cut' \subseteq Message
    <3>1. Elements(t) \subseteq Message
      BY <1>2 DEF Elements
    <3> QED
      BY <1>1, <1>4, <1>8, <3>1
  <2>5. Len(file') <= MaxMessages /\ rows' \in Seq(Message) /\ unsaved' \in BOOLEAN
    BY <1>1, <1>4, <1>8 DEF ChainInv, KindInv
  <2> QED
    BY <1>1, <1>4, <1>5, <1>6, <1>7, <1>8, <1>10, <2>2, <2>4, <2>5 DEF t
<1>9. CASE kind = "worker"
  <2>1. messages' = t /\ rows' \in Seq(Message) /\ cut' = cut /\ unsaved' = unsaved
    BY <1>4, <1>5, <1>9
  <2>2. messages /= <<>> /\ messages[1] = User(1)
    BY <1>9 DEF ChainInv, KindInv
  <2>3. t /= <<>> /\ t[1] = User(1)
    BY <1>1, <1>2, <2>2
  <2> QED
    BY <1>1, <1>2, <1>3, <1>4, <1>5, <1>6, <1>7, <1>9, <1>10, <2>1, <2>3 DEF t
<1> QED
  BY <1>1, <1>8, <1>9

\* The answer whose round is not over stays in the history.
LEMMA AppendKeepsOpen ==
  ASSUME ChainInv, NEW m \in Message, AppendMessage(m),
         Chained(Append(messages, m)), CallsAreAnswers(Append(messages, m)),
         NEW q \in DOMAIN Append(messages, m), NEW l \in Nat, 1 <= l,
         OpenAt(Append(messages, m), q, l)
  PROVE  \E p \in DOMAIN messages' : /\ messages'[p] = Append(messages, m)[q]
                                     /\ OpenAt(messages', p, l)
<1>1. messages \in Seq(Message)
  BY DEF ChainInv, TypeOK
<1>2. Append(messages, m) \in Seq(Message)
  BY <1>1, ElementsOfAppend
<1>3. messages' = TruncateMessages(Append(messages, m)) \/ messages' = Append(messages, m)
  BY DEF AppendMessage
<1>4. CASE messages' = TruncateMessages(Append(messages, m))
  BY <1>2, <1>4, TruncatedIsOpen
<1>5. CASE messages' = Append(messages, m)
  BY <1>5
<1> QED
  BY <1>3, <1>4, <1>5

LEMMA UserKeepsChain ==
  ASSUME ChainInv, HandleUserMessage
  PROVE  ChainInv'
<1>1. /\ messages \in Seq(Message) /\ said \in Seq(Message)
      /\ Chained(messages) /\ CallsAreAnswers(messages)
  BY DEF ChainInv, TypeOK
<1>2. kind = "operator" /\ pc = "idle" /\ pc' = "calling" /\ left' = left /\ left = 0
      /\ Closed(messages) /\ AppendMessage(User(Next1))
  BY DEF HandleUserMessage, ChainInv, RoundInv
<1>3. Next1 \in 0..MaxSaid
  BY <1>1, <1>2 DEF AppendMessage, Next1
<1> DEFINE m == User(Next1)
<1>4. m \in Message /\ m.n = Next1 /\ m.role = "user" /\ m.calls = <<>> /\ AppendMessage(m)
  BY <1>2, <1>3, UserMessages
<1> HIDE DEF m
<1>5. Chained(Append(messages, m)) /\ CallsAreAnswers(Append(messages, m)) /\ Closed(Append(messages, m))
  BY <1>1, <1>2, <1>4, LongerByAMessage
<1>6. /\ kind' = kind /\ kind' \in {"operator", "worker"} /\ unsaved' \in BOOLEAN
      /\ spent' \in [{"compaction", "crash"} -> Nat]
      /\ messages' \in Seq(Message) /\ file' \in Seq(Message) /\ rows' \in Seq(Message)
      /\ said' \in Seq(Message) /\ ArchivesTypeOK' /\ cut' \subseteq Message
      /\ IsNumbered(said)' /\ Chained(messages)' /\ CallsAreAnswers(messages)' /\ FileInv'
      /\ Closed(messages)'
      /\ kind' = "operator" => Len(messages') <= MaxMessages /\ Len(file') <= MaxMessages
  BY <1>4, <1>5, AppendKeeps
<1>7. TypeOK'
  BY <1>2, <1>6 DEF TypeOK
<1>8. RoundInv'
  BY <1>2, <1>6 DEF RoundInv
<1>9. KindInv'
  BY <1>2, <1>6 DEF KindInv
<1> QED
  BY <1>6, <1>7, <1>8, <1>9 DEF ChainInv

LEMMA AnswerKeepsChain ==
  ASSUME ChainInv, CollectResponse
  PROVE  ChainInv'
<1>1. /\ messages \in Seq(Message) /\ said \in Seq(Message)
      /\ Chained(messages) /\ CallsAreAnswers(messages)
  BY DEF ChainInv, TypeOK
<1>2. PICK calls \in CallLists : /\ AppendMessage(Answer(Next1, calls))
                                 /\ left' = Len(calls)
                                 /\ pc' = IF calls = <<>> THEN "idle" ELSE "tools"
  BY DEF CollectResponse
<1>3. Closed(messages) /\ pc = "calling"
  BY DEF CollectResponse, ChainInv, RoundInv
<1>4. Next1 \in 0..MaxSaid /\ Next1 = Len(said) + 1 /\ Len(said) \in Nat
  BY <1>1, <1>2 DEF AppendMessage, Next1
<1> DEFINE m == Answer(Next1, calls)
           t == Append(messages, m)
           q == Len(messages) + 1
<1>5. /\ m \in Message /\ m.n = Next1 /\ m.role = "assistant" /\ m.calls = calls
      /\ AppendMessage(m)
  BY <1>2, <1>4, AnswerMessages
<1> HIDE DEF m
<1>6. /\ Chained(t) /\ CallsAreAnswers(t)
      /\ calls = <<>> => Closed(t)
      /\ OpenAt(t, q, Len(calls))
  BY <1>1, <1>3, <1>5, LongerByAMessage
<1>7. q \in DOMAIN t /\ t[q] = m
  BY <1>1, <1>5, ElementsOfAppend
<1> HIDE DEF q
<1>8. /\ kind' = kind /\ kind' \in {"operator", "worker"} /\ unsaved' \in BOOLEAN
      /\ spent' \in [{"compaction", "crash"} -> Nat]
      /\ messages' \in Seq(Message) /\ file' \in Seq(Message) /\ rows' \in Seq(Message)
      /\ said' \in Seq(Message) /\ ArchivesTypeOK' /\ cut' \subseteq Message
      /\ IsNumbered(said)' /\ Chained(messages)' /\ CallsAreAnswers(messages)' /\ FileInv'
      /\ said' = Append(said, m)
      /\ Closed(t) => Closed(messages)'
      /\ kind' = "operator" => Len(messages') <= MaxMessages /\ Len(file') <= MaxMessages
      /\ kind' = "worker" => messages' /= <<>> /\ messages'[1] = User(1)
  BY <1>5, <1>6, AppendKeeps
<1>9. Len(calls) \in 0..MaxCalls /\ (calls /= <<>> => 1 <= Len(calls)) /\ (calls = <<>> => Len(calls) = 0)
  <2>1. calls \in Seq(Tools) /\ Len(calls) \in 0..MaxCalls
    BY CallsAreSequences
  <2>2. calls /= <<>> => Len(calls) \in Nat \ {0}
    BY <2>1, EmptySeq
  <2> QED
    BY <2>1, <2>2, NoCalls
<1>13. ASSUME calls /= <<>>
       PROVE  \E p \in DOMAIN messages' : messages'[p] = m /\ OpenAt(messages', p, Len(calls))
  <2>1. \E p \in DOMAIN messages' : messages'[p] = t[q] /\ OpenAt(messages', p, Len(calls))
    BY <1>5, <1>6, <1>7, <1>9, <1>13, AppendKeepsOpen
  <2> QED
    BY <1>7, <2>1
<1> HIDE DEF t
<1>10. TypeOK'
  BY <1>2, <1>8, <1>9 DEF TypeOK
<1>11. RoundInv'
  <2>1. CASE calls = <<>>
    <3>1. pc' = "idle" /\ left' = 0 /\ Closed(messages)'
      BY <1>2, <1>6, <1>8, <1>9, <2>1
    <3> QED
      BY <3>1 DEF RoundInv
  <2>2. CASE calls /= <<>>
    <3>1. PICK p \in DOMAIN messages' : messages'[p] = m /\ OpenAt(messages', p, Len(calls))
      BY <1>13, <2>2
    <3>2. /\ DOMAIN said' = 1..(Len(said) + 1) /\ said'[Next1] = m
      BY <1>1, <1>4, <1>5, <1>8, ElementsOfAppend
    <3>4. PICK c : c = Next1
      OBVIOUS
    <3>5. c \in DOMAIN said' /\ IsLastAnswer(c)'
      <4>1. /\ Next1 \in DOMAIN said' /\ said'[Next1].role = "assistant"
            /\ \A j \in DOMAIN said' : j <= Next1
        BY <1>4, <1>5, <3>2
      <4> QED
        BY <3>4, <4>1 DEF IsLastAnswer
    <3>6. messages'[p].n = c /\ messages'[p].calls = said'[c].calls
      BY <1>5, <3>1, <3>2, <3>4
    <3>7. pc' = "tools" /\ 1 <= left' /\ OpenAt(messages', p, left')
      BY <1>2, <1>9, <2>2, <3>1
    <3> QED
      BY <1>9, <3>5, <3>6, <3>7 DEF RoundInv
  <2> QED
    BY <2>1, <2>2
<1>12. KindInv'
  BY <1>2, <1>8 DEF KindInv
<1> QED
  BY <1>8, <1>10, <1>11, <1>12 DEF ChainInv

LEMMA ToolKeepsChain ==
  ASSUME ChainInv, ExecuteTool
  PROVE  ChainInv'
<1>1. /\ messages \in Seq(Message) /\ said \in Seq(Message) /\ IsNumbered(said)
      /\ Chained(messages) /\ CallsAreAnswers(messages)
      /\ left \in 0..MaxCalls /\ 1 <= left /\ left \in Nat
  BY DEF ChainInv, TypeOK, ExecuteTool, RoundInv
<1>2. PICK c \in DOMAIN said, q \in DOMAIN messages :
           /\ IsLastAnswer(c) /\ OpenAt(messages, q, left)
           /\ messages[q].n = c /\ messages[q].calls = said[c].calls
  BY DEF ChainInv, ExecuteTool, RoundInv
<1>3. Caller = said[c] /\ said[c].n = c /\ said[c].role = "assistant"
  BY <1>1, <1>2, CallerIs DEF IsNumbered, IsLastAnswer
<1> DEFINE k == Len(said[c].calls) - left + 1
           m == Result(Next1, <<c, k>>)
           t == Append(messages, m)
<1>4. AppendMessage(m) /\ left' = left - 1 /\ pc' = IF left = 1 THEN "calling" ELSE "tools"
  BY <1>3 DEF ExecuteTool
<1>5. Next1 \in 0..MaxSaid /\ Next1 = Len(said) + 1 /\ Len(said) \in Nat
  BY <1>1, <1>4 DEF AppendMessage, Next1
<1>6. PICK l \in 0..MaxCalls : l = Len(said[c].calls)
  BY <1>1, <1>2, FieldsOf
<1>7. left <= l
  <2>1. Len(messages) \in Nat /\ q \in 1..Len(messages)
    BY <1>1, <1>2
  <2>2. q + l = Len(messages) + left
    BY <1>2, <1>6 DEF OpenAt
  <2> QED
    BY <1>1, <1>6, <2>1, <2>2
<1>8. k \in 0..MaxCalls
  BY <1>1, <1>6, <1>7
<1>9. c \in 0..MaxSaid
  BY <1>1, <1>2, <1>3, FieldsOf
<1>10. /\ m \in Message /\ m.n = Next1 /\ m.role = "tool" /\ m.calls = <<>> /\ m.of = <<c, k>>
  BY <1>5, <1>8, <1>9, ResultMessages
<1>11. m.of = <<messages[q].n, Len(messages[q].calls) - left + 1>>
  BY <1>2, <1>10
<1> HIDE DEF m, k
<1>12. /\ Chained(t) /\ CallsAreAnswers(t)
       /\ left = 1 => Closed(t)
       /\ q \in DOMAIN t /\ t[q] = messages[q] /\ OpenAt(t, q, left - 1)
  <2>1. /\ messages \in Seq(Message) /\ Chained(messages) /\ CallsAreAnswers(messages)
        /\ q \in DOMAIN messages /\ left \in Nat /\ 1 <= left /\ OpenAt(messages, q, left)
    BY <1>1, <1>2
  <2>2. /\ m \in Message /\ m.role = "tool" /\ m.calls = <<>>
        /\ m.of = <<messages[q].n, Len(messages[q].calls) - left + 1>>
    BY <1>10, <1>11
  <2> QED
    BY ONLY <2>1, <2>2, LongerByAResult
<1>13. /\ kind' = kind /\ kind' \in {"operator", "worker"} /\ unsaved' \in BOOLEAN
       /\ spent' \in [{"compaction", "crash"} -> Nat]
       /\ messages' \in Seq(Message) /\ file' \in Seq(Message) /\ rows' \in Seq(Message)
       /\ said' \in Seq(Message) /\ ArchivesTypeOK' /\ cut' \subseteq Message
       /\ IsNumbered(said)' /\ Chained(messages)' /\ CallsAreAnswers(messages)' /\ FileInv'
       /\ said' = Append(said, m)
       /\ Closed(t) => Closed(messages)'
       /\ kind' = "operator" => Len(messages') <= MaxMessages /\ Len(file') <= MaxMessages
       /\ kind' = "worker" => messages' /= <<>> /\ messages'[1] = User(1)
  BY <1>4, <1>10, <1>12, AppendKeeps
<1>17. ASSUME left /= 1
       PROVE  \E p \in DOMAIN messages' : /\ messages'[p] = messages[q]
                                          /\ OpenAt(messages', p, left - 1)
  <2>1. left - 1 \in Nat /\ 1 <= left - 1
    BY <1>1, <1>17
  <2>2. \E p \in DOMAIN messages' : messages'[p] = t[q] /\ OpenAt(messages', p, left - 1)
    BY <1>4, <1>10, <1>12, <2>1, AppendKeepsOpen
  <2> QED
    BY <1>12, <2>2
<1> HIDE DEF t
<1>14. TypeOK'
  <2>1. left' \in 0..MaxCalls
    BY <1>1, <1>4
  <2> QED
    BY <1>4, <1>13, <2>1 DEF TypeOK
<1>15. RoundInv'
  <2>1. CASE left = 1
    <3>1. pc' = "calling" /\ left' = 0 /\ Closed(messages)'
      BY <1>4, <1>12, <1>13, <2>1
    <3> QED
      BY <3>1 DEF RoundInv
  <2>2. CASE left /= 1
    <3>1. left - 1 \in Nat /\ 1 <= left - 1
      BY <1>1, <2>2
    <3>2. PICK p \in DOMAIN messages' : messages'[p] = messages[q] /\ OpenAt(messages', p, left - 1)
      BY <1>17, <2>2
    <3>3. /\ DOMAIN said' = 1..(Len(said) + 1) /\ said'[Len(said) + 1] = m
          /\ \A i \in DOMAIN said : said'[i] = said[i]
      BY <1>1, <1>10, <1>13, ElementsOfAppend
    <3>4. c \in DOMAIN said' /\ said'[c] = said[c]
      BY <1>1, <1>2, <1>5, <3>3
    <3>5. \A j \in DOMAIN said' : said'[j].role = "assistant" => j <= c
      <4>1. \A j \in DOMAIN said' : j \in DOMAIN said \/ said'[j] = m
        BY <1>1, <1>5, <3>3
      <4> QED
        BY <1>2, <1>10, <3>3, <4>1 DEF IsLastAnswer
    <3>6. IsLastAnswer(c)'
      BY <1>3, <3>4, <3>5 DEF IsLastAnswer
    <3>7. messages'[p].n = c /\ messages'[p].calls = said'[c].calls
      BY <1>2, <3>2, <3>4
    <3>8. pc' = "tools" /\ 1 <= left' /\ OpenAt(messages', p, left')
      BY <1>4, <2>2, <3>1, <3>2
    <3> QED
      BY <3>1, <1>4, <3>4, <3>6, <3>7, <3>8 DEF RoundInv
  <2> QED
    BY <2>1, <2>2
<1>16. KindInv'
  BY <1>4, <1>13 DEF KindInv
<1> QED
  BY <1>13, <1>14, <1>15, <1>16 DEF ChainInv

LEMMA PersistKeepsChain ==
  ASSUME ChainInv, PersistSession
  PROVE  ChainInv'
<1>1. /\ unsaved' = FALSE /\ kind' = kind /\ messages' = messages /\ pc' = pc
      /\ left' = left /\ cut' = cut /\ rows' = rows /\ said' = said
      /\ spent' = spent
  BY DEF PersistSession
<1>7. file' = messages \/ file' = file
  BY DEF PersistSession
<1>8. ArchivesTypeOK'
  BY ArchivesUntouched DEF ChainInv, TypeOK, PersistSession
<1>2. TypeOK'
  BY <1>1, <1>7, <1>8 DEF ChainInv, TypeOK
<1>3. IsNumbered(said)' /\ Chained(messages)' /\ CallsAreAnswers(messages)'
  BY <1>1 DEF ChainInv
<1>4. RoundInv'
  BY <1>1 DEF ChainInv, RoundInv, IsLastAnswer
<1>5. FileInv'
  <2>4. CASE file' = file
    BY <2>4 DEF ChainInv, FileInv
  <2>5. SUFFICES ASSUME file' = messages PROVE FileInv'
    BY <1>7, <2>4
  <2>1. Chained(file') /\ CallsAreAnswers(file')
    BY <2>5 DEF ChainInv
  <2>2. CASE pc = "tools"
    <3>1. PICK q \in DOMAIN messages : OpenAt(messages, q, left)
      BY <2>2 DEF ChainInv, RoundInv
    <3>2. left \in 0..MaxCalls
      BY DEF ChainInv, TypeOK
    <3> QED
      BY <2>5, <2>1, <3>1, <3>2 DEF FileInv
  <2>3. CASE pc /= "tools"
    BY <2>5, <2>1, <2>3 DEF ChainInv, RoundInv, FileInv
  <2> QED
    BY <2>2, <2>3
<1>6. KindInv'
  BY <1>1, <1>7 DEF ChainInv, KindInv
<1> QED
  BY <1>2, <1>3, <1>4, <1>5, <1>6 DEF ChainInv

\* What changes neither history, file nor conversation and ends no round keeps it.
LEMMA RestKeepsChain ==
  ASSUME ChainInv, kind' = kind, messages' = messages, file' = file, said' = said, rows' = rows,
         left' = left, unsaved' = unsaved, cut' = cut, ArchivesTypeOK',
         spent' \in [{"compaction", "crash"} -> Nat],
         \/ pc' = pc
         \/ pc /= "tools" /\ pc' = "idle"
         \/ pc /= "tools" /\ pc' = "handoff" /\ kind = "operator"
  PROVE  ChainInv'
<1>1. TypeOK'
  BY DEF ChainInv, TypeOK
<1>2. IsNumbered(said)' /\ Chained(messages)' /\ CallsAreAnswers(messages)' /\ FileInv'
  BY DEF ChainInv, FileInv
<1>3. RoundInv'
  <2>1. CASE pc' = pc
    BY <2>1 DEF ChainInv, RoundInv, IsLastAnswer
  <2>2. CASE pc /= "tools" /\ pc' /= "tools"
    BY <2>2 DEF ChainInv, RoundInv
  <2> QED
    BY <2>1, <2>2
<1>4. KindInv'
  BY DEF ChainInv, KindInv
<1> QED
  BY <1>1, <1>2, <1>3, <1>4 DEF ChainInv

LEMMA SpendingIsTyped ==
  ASSUME TypeOK, NEW k \in {"compaction", "crash"}, NEW max \in Nat, Spend(k, max)
  PROVE  spent' \in [{"compaction", "crash"} -> Nat]
  BY DEF TypeOK, Spend

\* What is kept of the archives are archives, the newest one among them.
LEMMA NewestAreKept ==
  ASSUME NEW S, NEW s \in Seq(S), NEW e \in S, NEW k, k \in {Append(s, e), Newest(Append(s, e))}
  PROVE  k \in Seq(S) /\ e \in Elements(k) /\ Elements(k) \subseteq Elements(s) \cup {e}
<1> DEFINE t == Append(s, e)
<1>1. /\ t \in Seq(S) /\ Len(t) = Len(s) + 1 /\ DOMAIN t = 1..(Len(s) + 1)
      /\ t[Len(s) + 1] = e /\ Elements(t) = Elements(s) \cup {e} /\ Len(s) \in Nat
  BY ElementsOfAppend
<1> HIDE DEF t
<1>2. CASE k = t
  <2>1. e \in Elements(t)
    BY <1>1
  <2> QED
    BY <1>1, <1>2, <2>1
<1>3. CASE k = Newest(t) /\ ~(Len(t) <= ArchiveKeep)
  <2>1. PICK b \in Nat : b = Len(t) - ArchiveKeep + 1
    BY <1>1, <1>3
  <2>2. b \in 1..(Len(t) + 1) /\ b <= Len(t) /\ Len(t) \in Nat
    BY <1>1, <1>3, <2>1
  <2>3. k = From(t, b)
    BY <1>3, <2>1 DEF Newest
  <2>4. /\ k \in Seq(S) /\ DOMAIN k = 1..(Len(t) - b + 1) /\ Elements(k) \subseteq Elements(t)
        /\ \A i \in DOMAIN k : k[i] = t[i + b - 1]
    BY <1>1, <2>2, <2>3, RestOf
  <2>5. PICK i \in Nat : i = Len(t) - b + 1
    BY <2>2
  <2>6. i \in DOMAIN k /\ i + b - 1 = Len(s) + 1
    BY <1>1, <2>2, <2>4, <2>5
  <2>7. k[i] = e
    BY <1>1, <2>4, <2>6
  <2>8. e \in Elements(k)
    BY <2>6, <2>7 DEF Elements
  <2> QED
    BY <1>1, <2>4, <2>8
<1>4. CASE k = Newest(t) /\ Len(t) <= ArchiveKeep
  BY <1>2, <1>4 DEF Newest
<1> QED
  BY <1>2, <1>3, <1>4 DEF t

LEMMA ArchivingIsTyped ==
  ASSUME TypeOK, Archive
  PROVE  ArchivesTypeOK'
<1>1. CASE archives' = archives /\ pruned' = pruned
  BY <1>1, ArchivesUntouched DEF TypeOK, Archive
<1>2. CASE /\ archives' \in {Append(archives, Elements(messages)),
                             Newest(Append(archives, Elements(messages)))}
           /\ pruned' = pruned \cup (Archived(Append(archives, Elements(messages)))
                                      \ Archived(archives'))
  <2>1. /\ archives \in Seq(SUBSET Message) /\ pruned \subseteq Message
        /\ saveFailed \in BOOLEAN /\ saveFailed' = saveFailed
    BY DEF TypeOK, ArchivesTypeOK, Archive
  <2>2. Elements(messages) \in SUBSET Message
    BY DEF TypeOK, Elements
  <2> DEFINE t == Append(archives, Elements(messages))
  <2>3. t \in Seq(SUBSET Message)
    BY <2>1, <2>2
  <2>4. Archived(t) \subseteq Message
    BY <2>3 DEF Archived, Elements
  <2>5. archives' \in Seq(SUBSET Message)
    BY <1>2, <2>1, <2>2, NewestAreKept
  <2>6. pruned' \subseteq Message
    BY <1>2, <2>1, <2>4
  <2>7. saveFailed' \in BOOLEAN
    BY <2>1
  <2> QED
    BY <2>5, <2>6, <2>7 DEF ArchivesTypeOK
<1> QED
  BY <1>1, <1>2 DEF Archive

LEMMA ArchiveKeepsChain ==
  ASSUME ChainInv, Archive
  PROVE  ChainInv'
<1>1. TypeOK /\ MaxCompactions \in Nat
  BY DEF ChainInv
<1>2. spent' \in [{"compaction", "crash"} -> Nat]
  BY <1>1, SpendingIsTyped DEF Archive
<1>3. ArchivesTypeOK'
  BY <1>1, ArchivingIsTyped
<1> QED
  BY <1>2, <1>3, RestKeepsChain DEF Archive

LEMMA HandoffKeepsChain ==
  ASSUME ChainInv, Handoff
  PROVE  ChainInv'
<1>1. /\ messages' = <<Synthetic>> /\ unsaved' = TRUE /\ pc' = "idle" /\ kind' = kind
      /\ left' = left /\ file' = file /\ cut' = cut /\ rows' = rows
      /\ said' = said /\ spent' = spent
  BY DEF Handoff, diskVars
<1>10. ArchivesTypeOK'
  BY ArchivesUntouched DEF Handoff, diskVars, ChainInv, TypeOK
<1>2. kind = "operator" /\ left = 0
  BY DEF Handoff, ChainInv, TypeOK, KindInv, RoundInv
<1>3. Synthetic \in Message /\ Synthetic.role = "user" /\ Synthetic.calls = <<>>
  BY UserMessages DEF Synthetic
<1>4. <<Synthetic>> = Append(<<>>, Synthetic) /\ Len(<<Synthetic>>) = 1
  OBVIOUS
<1>5. /\ messages' \in Seq(Message) /\ Chained(messages') /\ CallsAreAnswers(messages')
      /\ Closed(messages') /\ Len(messages') = 1
  <2>1. \A t : t = Append(<<>>, Synthetic) =>
          t \in Seq(Message) /\ Chained(t) /\ CallsAreAnswers(t) /\ Closed(t)
    BY <1>3, NothingIsChained, LongerByAMessage
  <2> QED
    BY <1>1, <1>4, <2>1
<1>6. TypeOK'
  BY <1>1, <1>2, <1>5, <1>10 DEF ChainInv, TypeOK
<1>7. IsNumbered(said)' /\ FileInv'
  BY <1>1 DEF ChainInv, FileInv
<1>8. RoundInv'
  BY <1>1, <1>2, <1>5 DEF RoundInv
<1>9. KindInv'
  BY <1>1, <1>2, <1>5 DEF ChainInv, KindInv
<1> QED
  BY <1>5, <1>6, <1>7, <1>8, <1>9 DEF ChainInv

LEMMA CrashKeepsChain ==
  ASSUME ChainInv, Crash
  PROVE  ChainInv'
<1>1. /\ kind = "operator" /\ kind' = kind /\ pc' = "down" /\ messages' = <<>> /\ unsaved' = FALSE
      /\ left' = 0 /\ file' = file /\ rows' = rows /\ said' = said
      /\ cut' = cut \cup (Elements(messages) \ Elements(file))
  BY DEF Crash
<1>10. ArchivesTypeOK'
  BY ArchivesUntouched DEF Crash, ChainInv, TypeOK
<1>2. TypeOK /\ MaxCrashes \in Nat
  BY DEF ChainInv
<1>3. spent' \in [{"compaction", "crash"} -> Nat]
  BY <1>2, SpendingIsTyped DEF Crash
<1>4. cut' \subseteq Message
  <2>1. Elements(messages) \subseteq Message /\ cut \subseteq Message
    BY <1>2 DEF TypeOK, Elements
  <2> QED
    BY <1>1, <2>1
<1>5. /\ messages' \in Seq(Message) /\ Chained(messages') /\ CallsAreAnswers(messages')
      /\ Closed(messages') /\ Len(messages') = 0
  BY <1>1, NothingIsChained
<1>6. TypeOK'
  <2>1. /\ kind' \in {"operator", "worker"} /\ left' \in 0..MaxCalls /\ unsaved' \in BOOLEAN
        /\ pc' \in {"idle", "calling", "tools", "handoff", "down"} /\ ArchivesTypeOK'
        /\ file' \in Seq(Message) /\ rows' \in Seq(Message) /\ said' \in Seq(Message)
    <3>1. unsaved' \in BOOLEAN
      BY <1>1
    <3>2. left' \in 0..MaxCalls
      BY <1>1
    <3> QED
      BY <1>1, <1>2, <1>10, <3>1, <3>2 DEF TypeOK
  <2> QED
    BY <1>3, <1>4, <1>5, <2>1 DEF TypeOK
<1>7. IsNumbered(said)' /\ FileInv'
  BY <1>1 DEF ChainInv, FileInv
<1>8. RoundInv'
  BY <1>1, <1>5 DEF RoundInv
<1>9. KindInv'
  BY <1>1, <1>5 DEF ChainInv, KindInv
<1> QED
  BY <1>5, <1>6, <1>7, <1>8, <1>9 DEF ChainInv

LEMMA RestoredIsClosed ==
  ASSUME file \in Seq(Message), Chained(file), CallsAreAnswers(file)
  PROVE  /\ Restored \in Seq(Message) /\ Chained(Restored) /\ CallsAreAnswers(Restored)
         /\ Closed(Restored) /\ Len(Restored) <= MaxMessages
<1> DEFINE t == TruncateMessages(file)
<1>1. t \in Seq(Message) /\ Chained(t) /\ CallsAreAnswers(t) /\ Len(t) <= MaxMessages
  BY TruncatedIsChained
<1>2. Restored = TrimIncompleteTail(t)
  BY DEF Restored
<1> HIDE DEF t
<1>3. /\ TrimIncompleteTail(t) \in Seq(Message) /\ Chained(TrimIncompleteTail(t))
      /\ CallsAreAnswers(TrimIncompleteTail(t)) /\ Closed(TrimIncompleteTail(t))
      /\ Len(TrimIncompleteTail(t)) <= Len(t)
  BY <1>1, TrimmedIsClosed
<1>4. Len(TrimIncompleteTail(t)) \in Nat /\ Len(t) \in Nat /\ MaxMessages \in Nat
  BY <1>1, <1>3
<1>5. Len(TrimIncompleteTail(t)) <= MaxMessages
  BY <1>1, <1>3, <1>4
<1> QED
  BY <1>2, <1>3, <1>5

LEMMA LoadKeepsChain ==
  ASSUME ChainInv, LoadSession
  PROVE  ChainInv'
<1>1. /\ messages' = Restored /\ pc' = "idle" /\ kind' = kind /\ left' = left
      /\ unsaved' = unsaved /\ file' = file /\ rows' = rows
      /\ said' = said /\ spent' = spent
      /\ cut' = cut \cup (Elements(file) \ Elements(Restored))
  BY DEF LoadSession
<1>9. ArchivesTypeOK'
  BY ArchivesUntouched DEF LoadSession, ChainInv, TypeOK
<1>2. TypeOK /\ kind = "operator" /\ left = 0
  BY DEF LoadSession, ChainInv, TypeOK, KindInv, RoundInv
<1>3. /\ messages' \in Seq(Message) /\ Chained(messages') /\ CallsAreAnswers(messages')
      /\ Closed(messages') /\ Len(messages') <= MaxMessages
  BY <1>1, <1>2, RestoredIsClosed DEF ChainInv, FileInv, TypeOK
<1>4. cut' \subseteq Message
  <2>1. Elements(file) \subseteq Message /\ cut \subseteq Message
    BY <1>2 DEF TypeOK, Elements
  <2> QED
    BY <1>1, <2>1
<1>5. TypeOK'
  BY <1>1, <1>2, <1>3, <1>4, <1>9 DEF TypeOK
<1>6. IsNumbered(said)' /\ FileInv'
  BY <1>1 DEF ChainInv, FileInv
<1>7. RoundInv'
  BY <1>1, <1>2, <1>3 DEF RoundInv
<1>8. KindInv'
  BY <1>1, <1>2, <1>3 DEF ChainInv, KindInv
<1> QED
  BY <1>3, <1>5, <1>6, <1>7, <1>8 DEF ChainInv

\* A worker's history after one of the two compactions.
LEMMA CompactedKeepsChain ==
  ASSUME ChainInv, kind = "worker", kind' = kind, pc = "calling", pc' = pc, left' = left,
         unsaved' = unsaved, file' = file, ArchivesTypeOK', cut' = cut, said' = said,
         spent' \in [{"compaction", "crash"} -> Nat],
         rows' \in Seq(Message), messages' \in Seq(Message), Chained(messages'),
         CallsAreAnswers(messages'), Closed(messages'), messages' /= <<>>, messages'[1] = User(1)
  PROVE  ChainInv'
<1>1. TypeOK'
  BY DEF ChainInv, TypeOK
<1>2. IsNumbered(said)' /\ FileInv'
  BY DEF ChainInv, FileInv
<1>3. RoundInv'
  BY DEF ChainInv, RoundInv
<1>4. KindInv'
  BY DEF ChainInv, KindInv
<1> QED
  BY <1>1, <1>2, <1>3, <1>4 DEF ChainInv

\* The task is never elided.
LEMMA ElidedKeepsTask ==
  ASSUME NEW s \in Seq(Message), s /= <<>>, s[1] = User(1)
  PROVE  ElideToolResults(s)[1] = User(1) /\ ElideToolResults(s) /= <<>>
<1>1. s[1].role = "user" /\ 1 \in DOMAIN s /\ Len(s) /= 0
  BY DEF User, Plain
<1>2. 1 \notin Elided(s)
  BY <1>1 DEF Elided
<1>3. ElideToolResults(s)[1] = s[1] /\ Len(ElideToolResults(s)) = Len(s)
  BY <1>1, <1>2, ElidedMessages
<1> QED
  BY <1>1, <1>3

LEMMA Tier1KeepsChain ==
  ASSUME ChainInv, CompactTier1
  PROVE  ChainInv'
<1>1. /\ kind = "worker" /\ pc = "calling" /\ messages' = ElideToolResults(messages)
      /\ kind' = kind /\ pc' = pc /\ left' = left /\ unsaved' = unsaved /\ file' = file
      /\ cut' = cut /\ said' = said /\ rows' = rows
  BY DEF CompactTier1, diskVars
<1>6. ArchivesTypeOK'
  BY ArchivesUntouched DEF CompactTier1, diskVars, ChainInv, TypeOK
<1>2. TypeOK /\ MaxCompactions \in Nat
  BY DEF ChainInv
<1>3. spent' \in [{"compaction", "crash"} -> Nat]
  BY <1>2, SpendingIsTyped DEF CompactTier1
<1>4. /\ messages \in Seq(Message) /\ Chained(messages) /\ CallsAreAnswers(messages)
      /\ Closed(messages) /\ messages /= <<>> /\ messages[1] = User(1) /\ rows \in Seq(Message)
  BY <1>1 DEF ChainInv, TypeOK, RoundInv, KindInv
<1>5. /\ messages' \in Seq(Message) /\ Chained(messages') /\ CallsAreAnswers(messages')
      /\ Closed(messages') /\ messages' /= <<>> /\ messages'[1] = User(1)
  BY <1>1, <1>4, ElidedIsChained, ElidedKeepsTask
<1> QED
  BY <1>1, <1>3, <1>4, <1>5, <1>6, CompactedKeepsChain

LEMMA Tier2KeepsChain ==
  ASSUME ChainInv, CompactTier2
  PROVE  ChainInv'
<1>1. PICK summary \in {<<>>, <<Synthetic>>} :
           messages' = Rebuilt(summary) /\ rows' = Rebuilt(summary)
  BY DEF CompactTier2
<1>2. /\ kind = "worker" /\ pc = "calling"
      /\ kind' = kind /\ pc' = pc /\ left' = left /\ unsaved' = unsaved /\ file' = file
      /\ cut' = cut /\ said' = said
  BY DEF CompactTier2, diskVars
<1>9. ArchivesTypeOK'
  BY ArchivesUntouched DEF CompactTier2, diskVars, ChainInv, TypeOK
<1>3. TypeOK /\ MaxCompactions \in Nat
  BY DEF ChainInv
<1>4. spent' \in [{"compaction", "crash"} -> Nat]
  BY <1>3, SpendingIsTyped DEF CompactTier2
<1>5. /\ messages \in Seq(Message) /\ Chained(messages) /\ CallsAreAnswers(messages)
      /\ Closed(messages) /\ messages /= <<>> /\ messages[1] = User(1)
  BY <1>2 DEF ChainInv, TypeOK, RoundInv, KindInv
<1> DEFINE s == ElideToolResults(messages)
<1>6. /\ s \in Seq(Message) /\ Chained(s) /\ CallsAreAnswers(s) /\ Closed(s)
      /\ s /= <<>> /\ s[1] = User(1)
  BY <1>5, ElidedIsChained, ElidedKeepsTask
<1>7. Rebuilt(summary) = RebuildHistory(s, summary)
  BY DEF Rebuilt
<1> HIDE DEF s
<1>8. /\ Rebuilt(summary) \in Seq(Message) /\ Chained(Rebuilt(summary))
      /\ CallsAreAnswers(Rebuilt(summary)) /\ Closed(Rebuilt(summary))
      /\ Rebuilt(summary) /= <<>> /\ Rebuilt(summary)[1] = User(1)
  BY <1>1, <1>6, <1>7, RebuiltIsChained
<1> QED
  BY <1>1, <1>2, <1>4, <1>8, <1>9, CompactedKeepsChain

LEMMA ChainAtFirst ==
  ASSUME Init
  PROVE  ChainInv
<1>1. /\ kind \in {"operator", "worker"} /\ left = 0 /\ unsaved = FALSE /\ file = <<>>
      /\ cut = {} /\ spent \in [{"compaction", "crash"} -> Nat]
      /\ messages = said /\ rows = said
      /\ said = IF kind = "worker" THEN <<User(1)>> ELSE <<>>
      /\ pc = IF kind = "worker" THEN "calling" ELSE "idle"
  BY DEF Init
<1>2. User(1) \in Message /\ User(1).n = 1 /\ User(1).role = "user" /\ User(1).calls = <<>>
  BY UserMessages
<1>3. <<User(1)>> = Append(<<>>, User(1)) /\ Len(<<User(1)>>) = 1 /\ <<User(1)>>[1] = User(1)
      /\ <<User(1)>> /= <<>> /\ DOMAIN <<User(1)>> = {1}
  OBVIOUS
<1>4. /\ said \in Seq(Message) /\ Chained(said) /\ CallsAreAnswers(said) /\ Closed(said)
  <2>1. \A t : t = Append(<<>>, User(1)) =>
          t \in Seq(Message) /\ Chained(t) /\ CallsAreAnswers(t) /\ Closed(t)
    BY <1>2, NothingIsChained, LongerByAMessage
  <2> QED
    BY <1>1, <1>3, <2>1, NothingIsChained
<1>5. IsNumbered(said)
  BY <1>1, <1>2, <1>3 DEF IsNumbered
<1>6. TypeOK
  <2>1. /\ messages \in Seq(Message) /\ file \in Seq(Message) /\ rows \in Seq(Message)
        /\ cut \subseteq Message
    BY <1>1, <1>4, NothingIsChained
  <2>3. ArchivesTypeOK
    <3>1. archives = <<>> /\ pruned = {} /\ saveFailed = FALSE
      BY DEF Init
    <3>2. saveFailed \in BOOLEAN
      BY <3>1
    <3> QED
      BY <3>1, <3>2 DEF ArchivesTypeOK
  <2>2. /\ left \in 0..MaxCalls /\ unsaved \in BOOLEAN
        /\ pc \in {"idle", "calling", "tools", "handoff", "down"}
    <3>1. unsaved \in BOOLEAN
      BY <1>1
    <3>2. left \in 0..MaxCalls
      BY <1>1
    <3>3. pc \in {"idle", "calling", "tools", "handoff", "down"}
      BY <1>1
    <3> QED
      BY <3>1, <3>2, <3>3
  <2> QED
    BY <1>1, <1>4, <2>1, <2>2, <2>3 DEF TypeOK
<1>7. RoundInv
  BY <1>1, <1>4 DEF RoundInv
<1>8. FileInv
  BY <1>1, NothingIsChained DEF FileInv
<1>9. KindInv
  BY <1>1, <1>3 DEF KindInv
<1> QED
  BY <1>1, <1>4, <1>5, <1>6, <1>7, <1>8, <1>9 DEF ChainInv

LEMMA ChainIsKept == Spec => []ChainInv
<1>1. Init => ChainInv
  BY ChainAtFirst
<1>2. ChainInv /\ [Next]_vars => ChainInv'
  <2> SUFFICES ASSUME ChainInv, [Next]_vars
               PROVE  ChainInv'
    OBVIOUS
  <2>1. CASE PersistSession
    BY <2>1, PersistKeepsChain
  <2>2. CASE HandleUserMessage
    BY <2>2, UserKeepsChain
  <2>3. CASE CollectResponse
    BY <2>3, AnswerKeepsChain
  <2>4. CASE ExecuteTool
    BY <2>4, ToolKeepsChain
  <2>5. CASE GiveUp
    <3>1. /\ kind' = kind /\ messages' = messages /\ file' = file /\ said' = said /\ rows' = rows
          /\ left' = left /\ unsaved' = unsaved /\ cut' = cut /\ ArchivesTypeOK'
          /\ spent' \in [{"compaction", "crash"} -> Nat] /\ pc /= "tools" /\ pc' = "idle"
      BY <2>5, ArchivesUntouched DEF GiveUp, diskVars, ChainInv, TypeOK
    <3> QED
      BY <3>1, RestKeepsChain
  <2>6. CASE Archive
    BY <2>6, ArchiveKeepsChain
  <2>7. CASE Handoff
    BY <2>7, HandoffKeepsChain
  <2>8. CASE Crash
    BY <2>8, CrashKeepsChain
  <2>9. CASE LoadSession
    BY <2>9, LoadKeepsChain
  <2>10. CASE CompactTier1
    BY <2>10, Tier1KeepsChain
  <2>11. CASE CompactTier2
    BY <2>11, Tier2KeepsChain
  <2>12. CASE UNCHANGED vars
    <3>1. /\ kind' = kind /\ messages' = messages /\ file' = file /\ said' = said /\ rows' = rows
          /\ left' = left /\ unsaved' = unsaved /\ cut' = cut /\ ArchivesTypeOK'
          /\ spent' \in [{"compaction", "crash"} -> Nat] /\ pc' = pc
      BY <2>12, ArchivesUntouched DEF vars, diskVars, ChainInv, TypeOK
    <3> QED
      BY <3>1, RestKeepsChain
  <2> QED
    BY <2>1, <2>2, <2>3, <2>4, <2>5, <2>6, <2>7, <2>8, <2>9, <2>10, <2>11, <2>12 DEF Next
<1> QED
  BY <1>1, <1>2, PTL DEF Spec

\* Everything the two kinds of session hold is a history of messages, whatever is
\* cut, restored or compacted (operator.go, runtime/session.go).
THEOREM TypeCorrect == Spec => []TypeOK
<1>1. ChainInv => TypeOK
  BY DEF ChainInv
<1> QED
  BY <1>1, ChainIsKept, PTL

LEMMA ChainedIsWellFormed ==
  ASSUME NEW s \in Seq(Message), Chained(s), Closed(s)
  PROVE  WellFormed(s)
<1>1. \A i \in DOMAIN s : s[i] \in Message /\ i \in Int
  OBVIOUS
<1>2. \A i \in DOMAIN s : /\ DOMAIN s[i].calls = 1..Len(s[i].calls) /\ Len(s[i].calls) \in Nat
                         /\ s[i].of[2] \in Nat
  BY <1>1, FieldsOf
<1>3. ASSUME NEW i \in DOMAIN s, s[i].role = "tool"
      PROVE  LET k == s[i].of[2] IN /\ i - k \in DOMAIN s
                                    /\ s[i - k].n = s[i].of[1] /\ k \in DOMAIN s[i - k].calls
  <2>1. PICK k \in Nat : k = s[i].of[2]
    BY <1>2
  <2>2. k >= 1 /\ i - k \in DOMAIN s /\ s[i - k].n = s[i].of[1] /\ k <= Len(s[i - k].calls)
    BY <1>3, <2>1 DEF Chained, Answered
  <2>3. k \in DOMAIN s[i - k].calls
    BY <1>2, <2>1, <2>2
  <2> QED
    BY <2>1, <2>2, <2>3
<1>4. ASSUME NEW i \in DOMAIN s, NEW k \in DOMAIN s[i].calls
      PROVE  i + k \in DOMAIN s /\ s[i + k].role = "tool" /\ s[i + k].of = <<s[i].n, k>>
  <2>1. PICK l \in Nat : l = Len(s[i].calls) /\ k \in 1..l
    BY <1>2
  <2>2. i + l <= Len(s)
    BY <2>1 DEF Closed
  <2>3. DOMAIN s = 1..Len(s) /\ Len(s) \in Nat /\ i \in 1..Len(s)
    OBVIOUS
  <2>4. i + k \in DOMAIN s /\ i < i + k /\ i + k <= i + l /\ (i + k) - i = k
    BY <2>1, <2>2, <2>3
  <2>5. PICK j \in DOMAIN s : j = i + k
    BY <2>4
  <2>6. i < j /\ j <= i + Len(s[i].calls) /\ j - i = k
    BY <2>1, <2>4, <2>5
  <2>7. s[j].role = "tool" /\ s[j].of = <<s[i].n, j - i>>
    BY <2>6 DEF Chained, Asked
  <2> QED
    BY <2>4, <2>5, <2>6, <2>7
<1> QED
  BY <1>3, <1>4 DEF WellFormed

\* Whenever the model may be called, every result in its history follows the answer
\* that asked for it, at its place, and every call has its result; the operator's is
\* no longer than its limit (history.go:28, operator.go, session_compact.go:186).
THEOREM HistoryWellFormed == Spec => []HistoryIsWellFormed
<1>1. ChainInv => HistoryIsWellFormed
  <2> SUFFICES ASSUME ChainInv
               PROVE  HistoryIsWellFormed
    OBVIOUS
  <2>1. messages \in Seq(Message) /\ Chained(messages)
    BY DEF ChainInv, TypeOK
  <2>2. pc \in {"idle", "calling"} => Closed(messages)
    BY DEF ChainInv, RoundInv
  <2>3. kind = "operator" => Len(messages) <= MaxMessages
    BY DEF ChainInv, KindInv
  <2> QED
    BY <2>1, <2>2, <2>3, ChainedIsWellFormed DEF HistoryIsWellFormed
<1> QED
  BY <1>1, ChainIsKept, PTL

----------------------------------------------------------------------------
(* What is said is on disk.                                                *)

\* What is cut leaves nothing that was not there.
LEMMA CutIsPart ==
  ASSUME NEW s \in Seq(Message)
  PROVE  /\ TruncateMessages(s) \in Seq(Message)
         /\ Elements(TruncateMessages(s)) \subseteq Elements(s)
         /\ Elements(TrimIncompleteTail(s)) \subseteq Elements(s)
<1>1. <<>> \in Seq(Message) /\ Elements(<<>>) = {}
  BY DEF Elements
<1>2. TruncateMessages(s) \in Seq(Message) /\ Elements(TruncateMessages(s)) \subseteq Elements(s)
  <2>1. CASE Len(s) <= MaxMessages
    BY <2>1 DEF TruncateMessages
  <2>2. CASE ~(Len(s) <= MaxMessages)
    <3> DEFINE a == Len(s) - MaxMessages + 1
    <3>1. a \in 1..(Len(s) + 1)
      BY <2>2
    <3>2. TruncateMessages(s) = TailFromSafeBoundary(From(s, a))
      BY <2>2 DEF TruncateMessages
    <3> HIDE DEF a
    <3>3. CASE TruncateMessages(s) = <<>>
      BY <1>1, <3>3
    <3>4. CASE \E b \in DOMAIN s : TruncateMessages(s) = From(s, b)
      <4>1. PICK b \in DOMAIN s : TruncateMessages(s) = From(s, b)
        BY <3>4
      <4>2. b \in 1..(Len(s) + 1)
        OBVIOUS
      <4> QED
        BY <4>1, <4>2, RestOf
    <3> QED
      BY <3>1, <3>2, <3>3, <3>4, SafeTail
  <2> QED
    BY <2>1, <2>2
<1>3. Elements(TrimIncompleteTail(s)) \subseteq Elements(s)
  <2>1. CASE Boundaries(s) = {}
    BY <1>1, <2>1 DEF TrimIncompleteTail
  <2>2. CASE Boundaries(s) /= {}
    <3> DEFINE m == Max(Boundaries(s))
    <3>1. Boundaries(s) \in SUBSET (0..Len(s)) /\ Len(s) \in Nat
      BY DEF Boundaries
    <3>2. m \in Boundaries(s)
      BY <2>2, <3>1, GreatestElement
    <3>3. TrimIncompleteTail(s) = SubSeq(s, 1, m)
      BY <2>2 DEF TrimIncompleteTail
    <3> HIDE DEF m
    <3>4. m \in DOMAIN s
      BY <3>2 DEF Boundaries
    <3>5. /\ DOMAIN SubSeq(s, 1, m) = 1..m
          /\ \A i \in 1..m : i \in DOMAIN s /\ SubSeq(s, 1, m)[i] = s[i]
      BY <3>4, BeginningOf
    <3> QED
      BY <3>3, <3>5 DEF Elements
  <2> QED
    BY <2>1, <2>2
<1> QED
  BY <1>2, <1>3

LEMMA RestoredIsPart ==
  ASSUME file \in Seq(Message)
  PROVE  Elements(Restored) \subseteq Elements(file)
<1>1. PICK t : t = TruncateMessages(file)
  OBVIOUS
<1>2. t \in Seq(Message) /\ Elements(t) \subseteq Elements(file)
  BY <1>1, CutIsPart
<1>3. Elements(TrimIncompleteTail(t)) \subseteq Elements(t)
  BY <1>2, CutIsPart
<1> QED
  BY <1>1, <1>2, <1>3 DEF Restored

LEMMA AppendKeepsDisk ==
  ASSUME TypeOK, DiskInv, NEW m \in Message, AppendMessage(m), pc /= "down",
         pc' \notin {"down", "handoff"}
  PROVE  DiskInv'
<1>1. messages \in Seq(Message) /\ said \in Seq(Message)
  BY DEF TypeOK
<1>7. CASE kind' /= "operator"
  BY <1>7 DEF DiskInv
<1>8. CASE kind' = "operator"
  <2> DEFINE t == Append(messages, m)
  <2>1. /\ kind = "operator" /\ archives' = archives /\ pruned' = pruned
        /\ saveFailed' = saveFailed /\ file' = file /\ unsaved' /\ ~unsaved
        /\ said' = Append(said, m) /\ messages' = TruncateMessages(t)
        /\ cut' = cut \cup (Elements(t) \ Elements(TruncateMessages(t)))
    BY <1>8 DEF AppendMessage
  <2>2. t \in Seq(Message) /\ Elements(t) = Elements(messages) \cup {m}
    BY <1>1, ElementsOfAppend
  <2>3. Elements(said') = Elements(said) \cup {m}
    BY <1>1, <2>1, ElementsOfAppend
  <2>4. /\ Elements(said) \subseteq Elements(messages) \cup Kept
        /\ ~saveFailed => Elements(messages) \subseteq Elements(file)
    BY <2>1 DEF DiskInv
  <2> HIDE DEF t
  <2>5. Kept' = Kept \cup (Elements(t) \ Elements(messages'))
    BY <2>1 DEF Kept
  <2>6. Elements(said') \subseteq Elements(messages') \cup Kept'
    BY <2>2, <2>3, <2>4, <2>5
  <2>7. Elements(messages') \subseteq Elements(messages) \cup {m}
    BY <2>1, <2>2, CutIsPart
  <2>8. ~saveFailed' => Elements(messages') \subseteq Elements(file') \cup {m}
    BY <2>1, <2>4, <2>7
  <2> QED
    BY <2>1, <2>6, <2>8 DEF DiskInv
<1> QED
  BY <1>7, <1>8

\* What a handoff replaces is archived first, and the archive is not pruned.
LEMMA ArchiveKeepsDisk ==
  ASSUME TypeOK, DiskInv, Archive
  PROVE  DiskInv'
<1>1. /\ kind = "operator" /\ kind' = kind /\ pc = "idle" /\ ~unsaved /\ unsaved' = unsaved
      /\ messages' = messages /\ saveFailed' = saveFailed /\ file' = file /\ cut' = cut
      /\ said' = said
  BY DEF Archive
<1>2. /\ Elements(said) \subseteq Elements(messages) \cup Kept
      /\ ~saveFailed => Elements(said) \subseteq Elements(file) \cup Kept
      /\ ~saveFailed => Elements(messages) \subseteq Elements(file)
      /\ ~saveFailed => \E m \in Message : Elements(messages) \subseteq Elements(file) \cup {m}
  BY <1>1 DEF DiskInv
<1>3. ASSUME Kept \subseteq Kept', pc' /= "down",
             pc' = "handoff" => Elements(messages) \subseteq Archived(archives')
      PROVE  DiskInv'
  <2>1. /\ Elements(said') \subseteq Elements(messages') \cup Kept'
        /\ ~saveFailed' => Elements(said') \subseteq Elements(file') \cup Kept'
        /\ ~saveFailed' => Elements(messages') \subseteq Elements(file')
    BY <1>1, <1>2, <1>3
  <2>2. ~saveFailed' => \E m \in Message : Elements(messages') \subseteq Elements(file') \cup {m}
    BY <1>1, <1>2
  <2>3. pc' = "handoff" => Elements(messages') \subseteq Archived(archives)'
    BY <1>1, <1>3 DEF Archived
  <2> QED
    BY <1>1, <1>3, <2>1, <2>2, <2>3 DEF DiskInv
<1>4. CASE archives' = archives /\ pruned' = pruned /\ pc' = pc
  <2>1. Kept' = Kept
    BY <1>1, <1>4 DEF Kept
  <2> QED
    BY <1>1, <1>3, <1>4, <2>1
<1>5. CASE /\ archives' \in {Append(archives, Elements(messages)),
                             Newest(Append(archives, Elements(messages)))}
           /\ pruned' = pruned \cup (Archived(Append(archives, Elements(messages)))
                                      \ Archived(archives'))
           /\ pc' = "handoff"
  <2>1. archives \in Seq(SUBSET Message) /\ Elements(messages) \in SUBSET Message
    BY DEF TypeOK, ArchivesTypeOK, Elements
  <2> DEFINE t == Append(archives, Elements(messages))
  <2>2. Elements(t) = Elements(archives) \cup {Elements(messages)}
    BY <2>1, ElementsOfAppend
  <2>3. Elements(messages) \in Elements(archives')
    BY <1>5, <2>1, NewestAreKept
  <2>4. pruned' = pruned \cup (Archived(t) \ Archived(archives'))
    BY <1>5
  <2> HIDE DEF t
  <2>5. Archived(archives) \subseteq Archived(t)
    BY <2>2 DEF Archived
  <2>6. Elements(messages) \subseteq Archived(archives')
    BY <2>3 DEF Archived
  <2>7. Kept \subseteq Kept'
    BY <1>1, <2>4, <2>5 DEF Kept
  <2> QED
    BY <1>3, <1>5, <2>6, <2>7
<1> QED
  BY <1>4, <1>5 DEF Archive

\* Every message of a step is one, and the next of what is said.
LEMMA SomethingIsSaid ==
  ASSUME ChainInv, HandleUserMessage \/ CollectResponse \/ ExecuteTool
  PROVE  \E m \in Message :
           /\ AppendMessage(m) /\ m.n = Len(said) + 1 /\ m.text = "full"
           /\ kind = "worker" => m.role /= "user"
           /\ pc' /= "idle" => (m.role = "assistant" => m.calls /= <<>>)
<1>1. said \in Seq(Message) /\ Len(said) \in Nat /\ Next1 = Len(said) + 1
  BY DEF ChainInv, TypeOK, Next1
<1>2. Next1 \in 0..MaxSaid
  BY <1>1 DEF HandleUserMessage, CollectResponse, ExecuteTool, AppendMessage
<1>3. CASE HandleUserMessage
  <2>1. PICK m \in Message : /\ m.n = Next1 /\ m.text = "full" /\ m.role = "user"
                              /\ AppendMessage(m)
    BY <1>2, <1>3, UserMessages DEF HandleUserMessage
  <2>2. kind = "operator"
    BY <1>3 DEF HandleUserMessage
  <2> QED
    BY <1>1, <2>1, <2>2
<1>4. CASE CollectResponse
  <2>1. PICK calls \in CallLists : /\ AppendMessage(Answer(Next1, calls))
                                   /\ pc' /= "idle" => calls /= <<>>
    BY <1>4 DEF CollectResponse
  <2>2. PICK m : m = Answer(Next1, calls)
    OBVIOUS
  <2>3. m \in Message /\ m.n = Next1 /\ m.text = "full" /\ m.role = "assistant" /\ m.calls = calls
    BY <1>2, <2>2, AnswerMessages
  <2>4. AppendMessage(m)
    BY <2>1, <2>2
  <2>5. m.role /= "user" /\ m.n = Len(said) + 1
    BY <1>1, <2>3
  <2>6. pc' /= "idle" => m.calls /= <<>>
    BY <2>1, <2>3
  <2> QED
    BY <2>3, <2>4, <2>5, <2>6
<1>5. CASE ExecuteTool
  <2>1. /\ messages \in Seq(Message) /\ left \in 0..MaxCalls /\ 1 <= left /\ IsNumbered(said)
    BY <1>5 DEF ChainInv, TypeOK, ExecuteTool, RoundInv
  <2>2. PICK c \in DOMAIN said, q \in DOMAIN messages :
           /\ IsLastAnswer(c) /\ OpenAt(messages, q, left)
           /\ messages[q].n = c /\ messages[q].calls = said[c].calls
    BY <1>5 DEF ChainInv, ExecuteTool, RoundInv
  <2>3. Caller = said[c] /\ said[c].n = c
    BY <1>1, <2>1, <2>2, CallerIs DEF IsNumbered
  <2>4. PICK l \in 0..MaxCalls : l = Len(said[c].calls)
    BY <1>1, <2>2, FieldsOf
  <2>5. left <= l
    <3>1. Len(messages) \in Nat /\ q \in 1..Len(messages)
      BY <2>1, <2>2
    <3>2. q + l = Len(messages) + left
      BY <2>2, <2>4 DEF OpenAt
    <3> QED
      BY <2>1, <2>4, <3>1, <3>2
  <2>6. l - left + 1 \in 0..MaxCalls
    BY <2>1, <2>4, <2>5
  <2>7. c \in 0..MaxSaid
    BY <1>1, <2>2, <2>3, FieldsOf
  <2>8. AppendMessage(Result(Next1, <<c, l - left + 1>>))
    BY <1>5, <2>3, <2>4 DEF ExecuteTool
  <2>9. PICK m \in Message : /\ m.n = Next1 /\ m.text = "full" /\ m.role = "tool"
                              /\ AppendMessage(m)
    BY <1>2, <2>6, <2>7, <2>8, ResultMessages
  <2> QED
    BY <1>1, <2>9
<1> QED
  BY <1>3, <1>4, <1>5

LEMMA DiskIsKept ==
  ASSUME ChainInv, DiskInv, [Next]_vars
  PROVE  DiskInv'
<1>1. TypeOK /\ messages \in Seq(Message)
  BY DEF ChainInv, TypeOK
<1>2. CASE HandleUserMessage \/ CollectResponse \/ ExecuteTool
  <2>1. PICK m \in Message : AppendMessage(m)
    BY <1>2, SomethingIsSaid
  <2>2. pc /= "down" /\ pc' \notin {"down", "handoff"}
    BY <1>2 DEF HandleUserMessage, CollectResponse, ExecuteTool
  <2> QED
    BY <1>1, <2>1, <2>2, AppendKeepsDisk
<1>3. CASE PersistSession
  <2>1. /\ kind' = kind /\ messages' = messages /\ pc' = pc /\ said' = said /\ ~unsaved'
        /\ pc /= "down" /\ unsaved
        /\ archives' = archives /\ pruned' = pruned /\ cut' = cut
    BY <1>3 DEF PersistSession
  <2>2. Kept' = Kept
    BY <2>1 DEF Kept
  <2>3. CASE saveFailed'
    BY <2>1, <2>2, <2>3 DEF DiskInv
  <2>4. CASE ~saveFailed'
    <3>1. file' = messages
      BY <1>3, <2>4 DEF PersistSession
    <3>2. Synthetic \in Message
      BY UserMessages DEF Synthetic
    <3> QED
      BY <2>1, <2>2, <3>1, <3>2 DEF DiskInv
  <2> QED
    BY <2>3, <2>4
<1>4. CASE GiveUp
  <2>1. /\ kind' = kind /\ messages' = messages /\ said' = said /\ unsaved' = unsaved
        /\ pc = "calling" /\ pc' = "idle" /\ saveFailed' = saveFailed /\ file' = file
        /\ archives' = archives /\ pruned' = pruned /\ cut' = cut
    BY <1>4 DEF GiveUp, diskVars
  <2>2. Kept' = Kept
    BY <2>1 DEF Kept
  <2> QED
    BY <2>1, <2>2 DEF DiskInv
<1>5. CASE Archive
  BY <1>1, <1>5, ArchiveKeepsDisk
<1>6. CASE Handoff
  <2>1. /\ messages' = <<Synthetic>> /\ unsaved' = TRUE /\ pc' = "idle" /\ kind' = kind
        /\ archives' = archives /\ pruned' = pruned /\ cut' = cut /\ said' = said
        /\ pc = "handoff"
    BY <1>6 DEF Handoff, diskVars
  <2>2. kind = "operator" =>
          Elements(said) \subseteq Elements(messages) \cup Kept
          /\ Elements(messages) \subseteq Archived(archives)
    BY <2>1 DEF DiskInv
  <2>3. kind = "operator" => Elements(said) \subseteq Kept'
    BY <2>1, <2>2 DEF Kept
  <2>4. Elements(messages') = {Synthetic} /\ Synthetic \in Message
    BY <2>1, UserMessages DEF Elements, Synthetic
  <2> QED
    BY <2>1, <2>3, <2>4 DEF DiskInv
<1>7. CASE Crash
  <2>1. /\ kind' = kind /\ pc' = "down" /\ ~unsaved' /\ ~saveFailed' /\ file' = file
        /\ archives' = archives /\ pruned' = pruned
        /\ said' = said /\ pc /= "down" /\ messages' = <<>>
        /\ cut' = cut \cup (Elements(messages) \ Elements(file))
    BY <1>7 DEF Crash
  <2>2. kind = "operator" => Elements(said) \subseteq Elements(messages) \cup Kept
    BY <2>1 DEF DiskInv
  <2>3. Kept' = Kept \cup (Elements(messages) \ Elements(file))
    BY <2>1 DEF Kept
  <2>4. kind = "operator" => Elements(said') \subseteq Elements(file') \cup Kept'
    BY <2>1, <2>2, <2>3
  <2>5. Elements(messages') = {} /\ Synthetic \in Message
    BY <2>1, UserMessages DEF Elements, Synthetic
  <2> QED
    BY <2>1, <2>4, <2>5 DEF DiskInv
<1>8. CASE LoadSession
  <2>1. /\ kind' = kind /\ pc = "down" /\ pc' = "idle" /\ unsaved' = unsaved /\ file' = file
        /\ saveFailed' = saveFailed /\ archives' = archives /\ pruned' = pruned
        /\ said' = said /\ messages' = Restored
        /\ cut' = cut \cup (Elements(file) \ Elements(Restored))
    BY <1>8 DEF LoadSession
  <2>2. kind = "operator" =>
          Elements(said) \subseteq Elements(file) \cup Kept /\ ~unsaved /\ ~saveFailed
    BY <2>1 DEF DiskInv
  <2>3. Kept' = Kept \cup (Elements(file) \ Elements(messages'))
    BY <2>1 DEF Kept
  <2>4. kind = "operator" =>
          /\ Elements(said') \subseteq Elements(messages') \cup Kept'
          /\ Elements(said') \subseteq Elements(file') \cup Kept'
    BY <2>1, <2>2, <2>3
  <2>5. Elements(messages') \subseteq Elements(file') /\ Synthetic \in Message
    BY <1>1, <2>1, RestoredIsPart, UserMessages DEF TypeOK, Synthetic
  <2> QED
    BY <2>1, <2>4, <2>5 DEF DiskInv
<1>9. CASE CompactTier1 \/ CompactTier2
  <2>1. kind' /= "operator"
    BY <1>9 DEF CompactTier1, CompactTier2
  <2> QED
    BY <2>1 DEF DiskInv
<1>10. CASE UNCHANGED vars
  <2>1. /\ kind' = kind /\ messages' = messages /\ said' = said /\ unsaved' = unsaved
        /\ pc' = pc /\ saveFailed' = saveFailed /\ file' = file
        /\ archives' = archives /\ pruned' = pruned /\ cut' = cut
    BY <1>10 DEF vars, diskVars
  <2>2. Kept' = Kept
    BY <2>1 DEF Kept
  <2> QED
    BY <2>1, <2>2 DEF DiskInv
<1> QED
  BY <1>2, <1>3, <1>4, <1>5, <1>6, <1>7, <1>8, <1>9, <1>10 DEF Next

\* What a handoff replaces is in an archive that pruning has left, and every message
\* of the operator is in its memory and, unless a save is due or has failed, in its
\* file, but for those in archives or pruned ones and those that the window or a
\* crash has cut: one message at most for a crash, if the last save did not fail
\* (operator.go persistSession, handoff.go:51, 181).
THEOREM ConversationOnDisk == Spec => []ConversationIsOnDisk
<1>1. Init => DiskInv
  <2>1. Elements(<<>>) = {} /\ Synthetic \in Message
    BY UserMessages DEF Elements, Synthetic
  <2> SUFFICES ASSUME Init, kind = "operator" PROVE DiskInv
    BY DEF DiskInv
  <2>2. /\ said = <<>> /\ messages = said /\ file = <<>> /\ pc = "idle"
    BY DEF Init
  <2> QED
    BY <2>1, <2>2 DEF DiskInv
<1>2. ChainInv /\ DiskInv /\ [Next]_vars => DiskInv'
  BY DiskIsKept
<1>3. ChainInv /\ DiskInv => ConversationIsOnDisk
  <2> SUFFICES ASSUME ChainInv, DiskInv, kind = "operator"
               PROVE  /\ pc = "handoff" => Elements(messages) \subseteq Archived(archives)
                      /\ pc /= "down" => Elements(said) \subseteq Elements(messages) \cup Kept
                      /\ ~unsaved /\ ~saveFailed => Elements(said) \subseteq Elements(file) \cup Kept
                      /\ ~saveFailed => Cardinality(Elements(messages) \ Elements(file)) <= 1
    BY DEF ConversationIsOnDisk, Kept
  <2>1. ASSUME ~saveFailed
        PROVE  Cardinality(Elements(messages) \ Elements(file)) <= 1
    <3>1. PICK m \in Message : Elements(messages) \subseteq Elements(file) \cup {m}
      BY <2>1 DEF DiskInv
    <3>2. PICK d : d = Elements(messages) \ Elements(file)
      OBVIOUS
    <3>3. d = {} \/ d = {m}
      BY <3>1, <3>2
    <3>4. Cardinality(d) = 0 \/ Cardinality(d) = 1
      BY <3>3, FS_EmptySet, FS_Singleton
    <3> QED
      BY <3>2, <3>4
  <2> QED
    BY <2>1 DEF DiskInv
<1> QED
  BY <1>1, <1>2, <1>3, ChainIsKept, PTL DEF Spec

----------------------------------------------------------------------------
(* The transcript follows the history.                                     *)

LEMMA MirrorIsKept ==
  ASSUME ChainInv, TranscriptMirrorsHistory, [Next]_vars
  PROVE  TranscriptMirrorsHistory'
<1>1. /\ messages \in Seq(Message) /\ rows \in Seq(Message)
      /\ DOMAIN messages = 1..Len(messages) /\ DOMAIN rows = 1..Len(rows)
      /\ Len(messages) \in Nat /\ Len(rows) \in Nat
  BY DEF ChainInv, TypeOK
<1>2. CASE kind' /= "worker"
  BY <1>2 DEF TranscriptMirrorsHistory
<1>3. CASE kind' = "worker"
  <2>1. kind = "worker" /\ pc \in {"idle", "calling", "tools"}
    BY <1>3 DEF ChainInv, KindInv, Next, vars, PersistSession, HandleUserMessage, CollectResponse,
            ExecuteTool, AppendMessage, GiveUp, Archive, Handoff, Crash, LoadSession,
            CompactTier1, CompactTier2
  <2>2. Len(rows) = Len(messages)
        /\ \A i \in DOMAIN rows : rows[i].n = messages[i].n /\ rows[i].of = messages[i].of
    BY <2>1 DEF TranscriptMirrorsHistory
  <2>3. CASE HandleUserMessage \/ CollectResponse \/ ExecuteTool
    <3>1. PICK m \in Message : AppendMessage(m)
      BY <2>3, SomethingIsSaid
    <3>2. messages' = Append(messages, m) /\ rows' = Append(rows, m)
      BY <2>1, <3>1 DEF AppendMessage
    <3>3. /\ Len(messages') = Len(messages) + 1 /\ Len(rows') = Len(rows) + 1
          /\ DOMAIN rows' = 1..(Len(rows) + 1)
          /\ \A i \in DOMAIN messages : messages'[i] = messages[i]
          /\ \A i \in DOMAIN rows : rows'[i] = rows[i]
          /\ messages'[Len(messages) + 1] = m /\ rows'[Len(rows) + 1] = m
      BY <1>1, <3>2, ElementsOfAppend
    <3>4. \A i \in DOMAIN rows' : rows'[i].n = messages'[i].n /\ rows'[i].of = messages'[i].of
      BY <1>1, <2>2, <3>3
    <3> QED
      BY <2>2, <3>3, <3>4 DEF TranscriptMirrorsHistory
  <2>4. CASE CompactTier1
    <3>1. messages' = ElideToolResults(messages) /\ rows' = rows
      BY <2>4 DEF CompactTier1
    <3>2. /\ Len(messages') = Len(messages)
          /\ \A i \in DOMAIN messages :
               messages'[i].n = messages[i].n /\ messages'[i].of = messages[i].of
      BY <1>1, <3>1, ElidedMessages
    <3> QED
      BY <1>1, <2>2, <3>1, <3>2 DEF TranscriptMirrorsHistory
  <2>5. CASE CompactTier2
    <3>1. messages' = rows'
      BY <2>5 DEF CompactTier2
    <3> QED
      BY <3>1 DEF TranscriptMirrorsHistory
  <2>6. CASE PersistSession \/ GiveUp \/ UNCHANGED vars
    <3>1. messages' = messages /\ rows' = rows
      BY <2>6 DEF PersistSession, GiveUp, vars
    <3> QED
      BY <2>2, <3>1 DEF TranscriptMirrorsHistory
  <2>7. ~Archive /\ ~Handoff /\ ~Crash /\ ~LoadSession
    BY <2>1 DEF Archive, Handoff, Crash, LoadSession
  <2> QED
    BY <2>3, <2>4, <2>5, <2>6, <2>7 DEF Next
<1> QED
  BY <1>2, <1>3

\* A worker's transcript holds the messages of its history, one row for each in
\* their order, through both kinds of compaction (session_compact.go:162).
THEOREM TranscriptMirrors == Spec => []TranscriptMirrorsHistory
<1>1. Init => TranscriptMirrorsHistory
  BY DEF Init, TranscriptMirrorsHistory
<1>2. ChainInv /\ TranscriptMirrorsHistory /\ [Next]_vars => TranscriptMirrorsHistory'
  BY MirrorIsKept
<1> QED
  BY <1>1, <1>2, ChainIsKept, PTL DEF Spec

----------------------------------------------------------------------------
(* What a worker keeps.                                                    *)

\* A message of a worker's history is a summary or one of what was said, and no
\* message is there twice.
SaidOnce(s) ==
  \A i \in DOMAIN s :
    /\ s[i].n = 0 => s[i].role = "user" /\ s[i].calls = <<>>
    /\ s[i].n /= 0 => /\ s[i].n \in DOMAIN said
                      /\ s[i].role = said[s[i].n].role /\ s[i].calls = said[s[i].n].calls
    /\ \A j \in DOMAIN s : s[i].n /= 0 /\ s[j].n = s[i].n => i = j

\* The recent turns are at its end, as they were said.
Recent == Max({2, ProtectedTailStart(said)})
EndsRecently(s) == /\ Len(said) + 2 <= Len(s) + Recent
                   /\ \A p \in DOMAIN said : Recent <= p => s[p + Len(s) - Len(said)] = said[p]

\* What was elided is no answer of a child.
StubsAreKnown(s) ==
  \A i \in DOMAIN s : s[i].text = "stub" =>
    s[i].role = "tool" /\ ToolName(said, s[i].of) /= "spawn_worker"

\* No message of a worker but its task is a boundary while it runs.
TurnsInv == /\ said /= <<>> /\ said[1] = User(1)
            /\ pc /= "idle" =>
                 \A p \in DOMAIN said : 2 <= p =>
                   said[p].role /= "user" /\ (said[p].role = "assistant" => said[p].calls /= <<>>)

WorkInv == kind = "worker" => /\ SaidOnce(messages) /\ EndsRecently(messages)
                              /\ StubsAreKnown(messages) /\ TurnsInv

LEMMA LargerOfTwo ==
  ASSUME NEW a \in Nat, NEW b \in Nat
  PROVE  /\ Max({a, b}) \in {a, b} /\ a <= Max({a, b}) /\ b <= Max({a, b})
         /\ a <= b => Max({a, b}) = b
         /\ b <= a => Max({a, b}) = a
<1>1. {a, b} \in SUBSET (0..(a + b)) /\ {a, b} /= {} /\ a + b \in Nat
  OBVIOUS
<1>2. Max({a, b}) \in {a, b} /\ \A y \in {a, b} : y <= Max({a, b})
  BY ONLY <1>1, GreatestElement
<1>3. PICK x : x = Max({a, b})
  OBVIOUS
<1>4. x \in {a, b} /\ a <= x /\ b <= x
  BY <1>2, <1>3
<1>5. (a <= b => x = b) /\ (b <= a => x = a)
  BY <1>4
<1> QED
  BY <1>3, <1>4, <1>5

\* There is one place with KeepTurns answers from it on.
LEMMA TailStartIs ==
  ASSUME NEW s \in Seq(Message), NEW x \in Answers(s), Cardinality(AnswersFrom(s, x)) = KeepTurns
  PROVE  ~(Cardinality(Answers(s)) < KeepTurns) /\ ProtectedTailStart(s) = x
<1>1. /\ Answers(s) \in SUBSET (1..Len(s)) /\ IsFiniteSet(Answers(s)) /\ Len(s) \in Nat
      /\ Cardinality(Answers(s)) \in Nat
      /\ \A y \in Nat : IsFiniteSet(AnswersFrom(s, y)) /\ Cardinality(AnswersFrom(s, y)) \in Nat
  <2>1. Len(s) \in Nat
    OBVIOUS
  <2> QED
    BY ONLY <2>1, AnswersAreFinite
<1>2. AnswersFrom(s, x) \in SUBSET Answers(s)
  BY DEF AnswersFrom
<1>3. Cardinality(AnswersFrom(s, x)) <= Cardinality(Answers(s))
  BY <1>1, <1>2, FS_Subset
<1>4. ~(Cardinality(Answers(s)) < KeepTurns)
  BY <1>1, <1>3
<1> DEFINE y == ProtectedTailStart(s)
<1>5. y \in Answers(s) /\ Cardinality(AnswersFrom(s, y)) = KeepTurns
  BY <1>4, TailStart
<1> HIDE DEF y
<1>9. Answers(s) \in SUBSET Nat
  BY <1>1
<1>6. x \in Nat /\ y \in Nat
  BY <1>5, <1>9
<1>7. ASSUME NEW a \in Answers(s), NEW b \in Answers(s), a < b, a \in Nat, b \in Nat,
             Cardinality(AnswersFrom(s, a)) = Cardinality(AnswersFrom(s, b))
      PROVE  FALSE
  <2>1. AnswersFrom(s, b) \in SUBSET AnswersFrom(s, a)
    BY <1>1, <1>7 DEF AnswersFrom
  <2>2. AnswersFrom(s, a) = AnswersFrom(s, b)
    BY <1>1, <1>7, <2>1, FS_Subset
  <2>3. a \in AnswersFrom(s, a) /\ a \notin AnswersFrom(s, b)
    BY <1>7 DEF AnswersFrom
  <2> QED
    BY <2>2, <2>3
<1>8. x = y
  BY <1>5, <1>6, <1>7
<1> QED
  BY <1>4, <1>8 DEF y

\* The protected tail never starts earlier than it did.
LEMMA TailStartGrows ==
  ASSUME NEW s \in Seq(Message), s /= <<>>, NEW m \in Message
  PROVE  ProtectedTailStart(s) <= ProtectedTailStart(Append(s, m))
<1> DEFINE t == Append(s, m)
           x == ProtectedTailStart(s)
           y == ProtectedTailStart(t)
<1>1. /\ t \in Seq(Message) /\ Len(t) = Len(s) + 1 /\ DOMAIN t = 1..(Len(s) + 1)
      /\ \A i \in DOMAIN s : t[i] = s[i]
      /\ DOMAIN s = 1..Len(s) /\ Len(s) \in Nat /\ t /= <<>>
  BY ElementsOfAppend
<1> HIDE DEF t
<1>2. x \in 1..Len(s) /\ y \in 1..(Len(s) + 1)
  BY <1>1, TailStartsInside
<1>3. CASE Cardinality(Answers(s)) < KeepTurns
  <2>1. x = 1
    BY <1>3 DEF ProtectedTailStart
  <2> HIDE DEF x, y
  <2> QED
    BY <1>2, <2>1 DEF x, y, t
<1>4. CASE ~(Cardinality(Answers(s)) < KeepTurns)
  <2>1. x \in Answers(s) /\ Cardinality(AnswersFrom(s, x)) = KeepTurns
    BY <1>4, TailStart
  <2>2. Answers(s) \in SUBSET Answers(t) /\ \A i \in Answers(t) : i \in Answers(s) \/ i = Len(s) + 1
    BY <1>1 DEF Answers
  <2>3. IsFiniteSet(Answers(t)) /\ Cardinality(Answers(t)) \in Nat
        /\ Cardinality(Answers(s)) \in Nat
    BY <1>1, AnswersAreFinite
  <2>4. Cardinality(Answers(s)) <= Cardinality(Answers(t))
    BY <2>2, <2>3, FS_Subset
  <2>5. ~(Cardinality(Answers(t)) < KeepTurns)
    BY <1>4, <2>3, <2>4
  <2>6. y \in Answers(t) /\ Cardinality(AnswersFrom(t, y)) = KeepTurns
    BY <1>1, <2>5, TailStart
  <2>7. /\ IsFiniteSet(AnswersFrom(t, y)) /\ IsFiniteSet(AnswersFrom(s, x))
    BY <1>1, <1>2, AnswersAreFinite
  <2> HIDE DEF x, y
  <2>8. x <= y
    <3> SUFFICES ASSUME y < x
                 PROVE  FALSE
      BY <1>2
    <3>1. AnswersFrom(s, x) \in SUBSET AnswersFrom(t, y)
      BY <1>1, <1>2, <2>2 DEF AnswersFrom, Answers
    <3>2. AnswersFrom(s, x) = AnswersFrom(t, y)
      BY <2>1, <2>6, <2>7, <3>1, FS_Subset
    <3>3. y \in AnswersFrom(t, y)
      BY <1>2, <2>6 DEF AnswersFrom
    <3>4. y \notin AnswersFrom(s, x)
      BY <1>2 DEF AnswersFrom
    <3> QED
      BY <3>2, <3>3, <3>4
  <2> QED
    BY <2>8 DEF x, y, t
<1> QED
  BY <1>3, <1>4

\* What Recent is: the second message, or the answer the protected tail starts at.
LEMMA RecentIs ==
  ASSUME ChainInv, TurnsInv
  PROVE  /\ Recent \in Nat /\ 2 <= Recent /\ Recent <= Len(said) + 1
         /\ Cardinality(Answers(said)) < KeepTurns => Recent = 2
         /\ ~(Cardinality(Answers(said)) < KeepTurns) =>
              /\ Recent = ProtectedTailStart(said) /\ Recent \in Answers(said)
              /\ Cardinality(AnswersFrom(said, Recent)) = KeepTurns
<1>1. said \in Seq(Message) /\ Len(said) \in Nat /\ DOMAIN said = 1..Len(said) /\ 1 <= Len(said)
  BY DEF ChainInv, TypeOK, TurnsInv
<1> DEFINE p == ProtectedTailStart(said)
<1>2. p \in 1..Len(said) /\ p \in Nat /\ 2 \in Nat
  BY <1>1, TailStartsInside
<1>3. Cardinality(Answers(said)) < KeepTurns => p = 1
  BY DEF ProtectedTailStart
<1>4. ~(Cardinality(Answers(said)) < KeepTurns) =>
        p \in Answers(said) /\ Cardinality(AnswersFrom(said, p)) = KeepTurns
  BY <1>1, TailStart
<1>5. 1 \notin Answers(said)
  BY DEF Answers, TurnsInv, User, Plain
<1>6. Recent = Max({2, p})
  BY DEF Recent
<1> HIDE DEF p
<1>7. /\ Recent \in {2, p} /\ 2 <= Recent
      /\ 2 <= p => Recent = p
      /\ p <= 2 => Recent = 2
  BY <1>2, <1>6, LargerOfTwo
<1>8. ~(Cardinality(Answers(said)) < KeepTurns) => 2 <= p
  BY <1>2, <1>4, <1>5
<1>9. Recent \in Nat /\ Recent <= Len(said) + 1
  BY <1>1, <1>2, <1>7
<1> QED
  BY <1>2, <1>3, <1>4, <1>7, <1>8, <1>9 DEF p

\* What the facts about a worker's conversation are, apart from its history.
SaidFacts == /\ said \in Seq(Message) /\ DOMAIN said = 1..Len(said) /\ Len(said) \in Nat
             /\ 1 <= Len(said) /\ IsNumbered(said)

LEMMA FewerAnswers ==
  ASSUME SaidFacts, NEW s \in Seq(Message), SaidOnce(s)
  PROVE  Cardinality(Answers(s)) <= Cardinality(Answers(said))
<1>1. IsFiniteSet(Answers(said))
  BY AnswersAreFinite DEF SaidFacts
<1> DEFINE f == [i \in Answers(s) |-> s[i].n]
<1>2. \A i \in Answers(s) : s[i].n \in Answers(said) /\ s[i].n /= 0
  BY DEF Answers, SaidOnce
<1>3. \A i, j \in Answers(s) : s[i].n = s[j].n => i = j
  BY <1>2 DEF Answers, SaidOnce
<1>4. f \in Injection(Answers(s), Answers(said))
  BY <1>2, <1>3 DEF Injection, IsInjective
<1> HIDE DEF f
<1> QED
  BY <1>1, <1>4, FS_Injection

LEMMA RecentPlaces ==
  ASSUME SaidFacts, NEW s \in Seq(Message), EndsRecently(s), Recent \in Nat, 2 <= Recent,
         NEW p \in DOMAIN said, Recent <= p
  PROVE  /\ p + Len(s) - Len(said) \in DOMAIN s
         /\ Recent + Len(s) - Len(said) <= p + Len(s) - Len(said)
         /\ s[p + Len(s) - Len(said)] = said[p]
<1>1. Len(s) \in Nat /\ DOMAIN s = 1..Len(s)
  OBVIOUS
<1>2. Len(said) \in Nat /\ p \in 1..Len(said)
  BY DEF SaidFacts
<1>3. Len(said) + 2 <= Len(s) + Recent /\ s[p + Len(s) - Len(said)] = said[p]
  BY DEF EndsRecently
<1> QED
  BY <1>1, <1>2, <1>3

LEMMA PlacesOfRecent ==
  ASSUME SaidFacts, NEW s \in Seq(Message), EndsRecently(s), Recent \in Nat, 2 <= Recent,
         NEW i \in DOMAIN s, Recent + Len(s) - Len(said) <= i
  PROVE  /\ i - Len(s) + Len(said) \in DOMAIN said /\ Recent <= i - Len(s) + Len(said)
         /\ s[i] = said[i - Len(s) + Len(said)]
<1>1. Len(s) \in Nat /\ DOMAIN s = 1..Len(s) /\ i \in 1..Len(s)
  OBVIOUS
<1>2. Len(said) \in Nat /\ DOMAIN said = 1..Len(said)
  BY DEF SaidFacts
<1>3. PICK p \in Int : p = i - Len(s) + Len(said)
  BY <1>1, <1>2
<1>4. p \in 1..Len(said) /\ Recent <= p /\ p + Len(s) - Len(said) = i
  BY <1>1, <1>2, <1>3
<1>5. s[i] = said[p]
  BY <1>2, <1>4 DEF EndsRecently
<1> QED
  BY <1>2, <1>3, <1>4, <1>5

\* Where the protected tail of the history starts: with its recent turns, or at its
\* beginning while there are fewer.
LEMMA TailStartsRecently ==
  ASSUME ChainInv, SaidFacts, TurnsInv, NEW s \in Seq(Message), SaidOnce(s), EndsRecently(s)
  PROVE  \/ Recent = 2 /\ ProtectedTailStart(s) = 1
         \/ /\ Recent \in Answers(said) /\ ProtectedTailStart(s) = Recent + Len(s) - Len(said)
            /\ ProtectedTailStart(s) \in Answers(s)
<1>1. /\ Recent \in Nat /\ 2 <= Recent /\ Recent <= Len(said) + 1
      /\ Cardinality(Answers(said)) < KeepTurns => Recent = 2
      /\ ~(Cardinality(Answers(said)) < KeepTurns) =>
           /\ Recent \in Answers(said) /\ Cardinality(AnswersFrom(said, Recent)) = KeepTurns
  BY RecentIs
<1>2. /\ Cardinality(Answers(said)) \in Nat /\ Cardinality(Answers(s)) \in Nat
      /\ IsFiniteSet(AnswersFrom(said, Recent))
  BY <1>1, AnswersAreFinite DEF SaidFacts
<1>3. CASE Cardinality(Answers(said)) < KeepTurns
  <2>1. Cardinality(Answers(s)) < KeepTurns
    BY <1>2, <1>3, FewerAnswers
  <2> QED
    BY <1>1, <1>3, <2>1 DEF ProtectedTailStart
<1>4. CASE ~(Cardinality(Answers(said)) < KeepTurns)
  <2>1. Recent \in Answers(said) /\ Cardinality(AnswersFrom(said, Recent)) = KeepTurns
    BY <1>1, <1>4
  <2> DEFINE Q == Recent + Len(s) - Len(said)
             S == AnswersFrom(said, Recent)
             T == AnswersFrom(s, Q)
             f == [p \in S |-> p + Len(s) - Len(said)]
  <2>2. Len(s) \in Nat /\ Len(said) \in Nat /\ DOMAIN said = 1..Len(said) /\ DOMAIN s = 1..Len(s)
    BY DEF SaidFacts
  <2>3. ASSUME NEW p \in S
        PROVE  p + Len(s) - Len(said) \in T
    <3>1. p \in DOMAIN said /\ said[p].role = "assistant" /\ Recent <= p
      BY <1>1, <2>2 DEF AnswersFrom, Answers
    <3>2. /\ p + Len(s) - Len(said) \in DOMAIN s /\ Q <= p + Len(s) - Len(said)
          /\ s[p + Len(s) - Len(said)] = said[p]
      BY <1>1, <3>1, RecentPlaces
    <3>3. PICK x \in DOMAIN s : x = p + Len(s) - Len(said)
      BY <3>2
    <3>4. s[x].role = "assistant" /\ Q <= x /\ x \in Int
      BY <2>2, <3>1, <3>2, <3>3
    <3> HIDE DEF Q
    <3>5. x \in T
      BY <3>4 DEF AnswersFrom, Answers
    <3> QED
      BY <3>3, <3>5
  <2>4. ASSUME NEW i \in T
        PROVE  \E p \in S : p + Len(s) - Len(said) = i
    <3>1. i \in DOMAIN s /\ s[i].role = "assistant" /\ Q <= i
      BY <1>1, <2>2 DEF AnswersFrom, Answers
    <3>2. PICK p : p = i - Len(s) + Len(said)
      OBVIOUS
    <3>3. p \in DOMAIN said /\ Recent <= p /\ s[i] = said[p]
      BY <1>1, <3>1, <3>2, PlacesOfRecent
    <3>4. p \in S
      BY <1>1, <2>2, <3>1, <3>3 DEF AnswersFrom, Answers
    <3>5. p + Len(s) - Len(said) = i
      BY <2>2, <3>1, <3>2
    <3> QED
      BY <3>4, <3>5
  <2>5. \A p \in S : p \in Int
    BY <2>2 DEF AnswersFrom, Answers
  <2> HIDE DEF S, T
  <2>6. f \in [S -> T]
    BY <2>3
  <2>7. \A a, b \in S : a + Len(s) - Len(said) = b + Len(s) - Len(said) => a = b
    BY <2>2, <2>5
  <2>8. \A a, b \in DOMAIN f : f[a] = f[b] => a = b
    BY <2>7
  <2>9. \A i \in T : \E p \in S : f[p] = i
    BY <2>4
  <2> HIDE DEF f
  <2>10. f \in Bijection(S, T)
    BY <2>6, <2>8, <2>9 DEF Bijection, Injection, Surjection, IsInjective
  <2>11. Cardinality(T) = Cardinality(S)
    BY <1>2, <2>10, FS_Bijection DEF ExistsBijection, S
  <2>12. Recent \in S
    BY <1>1, <2>1 DEF S, AnswersFrom
  <2>13. Q \in T
    BY <2>3, <2>12
  <2>14. Q \in Answers(s)
    BY <2>13 DEF T, AnswersFrom
  <2>15. Cardinality(AnswersFrom(s, Q)) = KeepTurns
    BY <2>1, <2>11 DEF S, T
  <2> HIDE DEF Q
  <2>16. ProtectedTailStart(s) = Q
    BY <2>14, <2>15, TailStartIs
  <2> QED
    BY <2>1, <2>14, <2>16 DEF Q
<1> QED
  BY <1>3, <1>4

\* The name of the tool a result is of, in a history and in what was said.
LEMMA NamesOfTools ==
  ASSUME SaidFacts, NEW s \in Seq(Message), Chained(s), SaidOnce(s),
         NEW i \in DOMAIN s, s[i].role = "tool"
  PROVE  /\ s[i].of[1] \in DOMAIN said
         /\ ToolName(said, s[i].of) = said[s[i].of[1]].calls[s[i].of[2]]
         /\ ToolName(s, s[i].of) = ToolName(said, s[i].of)
<1>1. s[i] \in Message /\ i \in Int
  OBVIOUS
<1>2. PICK k \in Nat : k = s[i].of[2]
  BY <1>1, FieldsOf
<1>3. PICK c : c = s[i].of[1]
  OBVIOUS
<1>4. PICK q \in DOMAIN s : q = i - k /\ 1 <= k /\ s[q].n = c /\ k <= Len(s[q].calls)
  BY <1>2, <1>3 DEF Chained, Answered
<1>5. s[q].calls /= <<>>
  BY <1>2, <1>4, NoCalls
<1>6. c /= 0 /\ c \in DOMAIN said /\ s[q].calls = said[c].calls
  BY <1>4, <1>5 DEF SaidOnce
<1>7. \A j \in DOMAIN s : s[j].n = c => j = q
  BY <1>4, <1>6 DEF SaidOnce
<1>8. \A j \in DOMAIN said : said[j].n = c => j = c
  BY DEF SaidFacts, IsNumbered
<1>9. said[c].n = c
  BY <1>6 DEF SaidFacts, IsNumbered
<1>10. (CHOOSE j \in DOMAIN s : s[j].n = c) = q
  BY <1>4, <1>7
<1>11. (CHOOSE j \in DOMAIN said : said[j].n = c) = c
  BY <1>6, <1>8, <1>9
<1>12. ToolName(s, s[i].of) = s[q].calls[k] /\ ToolName(said, s[i].of) = said[c].calls[k]
  BY <1>2, <1>3, <1>10, <1>11 DEF ToolName
<1> QED
  BY <1>2, <1>3, <1>6, <1>12

LEMMA ElidedKeepsWork ==
  ASSUME ChainInv, SaidFacts, TurnsInv, NEW s \in Seq(Message), Chained(s), s /= <<>>,
         SaidOnce(s), EndsRecently(s), StubsAreKnown(s)
  PROVE  /\ SaidOnce(ElideToolResults(s)) /\ EndsRecently(ElideToolResults(s))
         /\ StubsAreKnown(ElideToolResults(s))
<1> DEFINE t == ElideToolResults(s)
<1>1. /\ t \in Seq(Message) /\ Len(t) = Len(s) /\ DOMAIN t = DOMAIN s
      /\ \A i \in DOMAIN s : /\ t[i].n = s[i].n /\ t[i].role = s[i].role
                             /\ t[i].calls = s[i].calls /\ t[i].of = s[i].of
      /\ \A i \in DOMAIN s : i \notin Elided(s) => t[i] = s[i]
  BY ElidedMessages
<1> HIDE DEF t
<1>2. SaidOnce(t)
  BY <1>1 DEF SaidOnce
<1>3. Recent \in Nat /\ 2 <= Recent
  BY RecentIs
<1>4. \A i \in Elided(s) : /\ i \in DOMAIN s /\ i < ProtectedTailStart(s) /\ s[i].role = "tool"
                           /\ ToolName(s, s[i].of) /= "spawn_worker"
  BY DEF Elided
<1>5. EndsRecently(t)
  <2>1. ASSUME NEW p \in DOMAIN said, Recent <= p
        PROVE  t[p + Len(s) - Len(said)] = said[p]
    <3>1. PICK i \in DOMAIN s : i = p + Len(s) - Len(said) /\ Recent + Len(s) - Len(said) <= i
                                /\ s[i] = said[p]
      BY <1>3, <2>1, RecentPlaces
    <3>2. i \notin Elided(s)
      <4>1. PICK x : x = ProtectedTailStart(s)
        OBVIOUS
      <4>2. x = 1 \/ x = Recent + Len(s) - Len(said)
        BY <4>1, TailStartsRecently
      <4>3. x <= i /\ i \in Int /\ x \in Int
        BY <1>3, <3>1, <4>2 DEF SaidFacts
      <4> QED
        BY <1>4, <4>1, <4>3
    <3> QED
      BY <1>1, <3>1, <3>2
  <2> QED
    BY <1>1, <2>1 DEF EndsRecently
<1>6. StubsAreKnown(t)
  <2> SUFFICES ASSUME NEW i \in DOMAIN s, t[i].text = "stub"
               PROVE  t[i].role = "tool" /\ ToolName(said, t[i].of) /= "spawn_worker"
    BY <1>1 DEF StubsAreKnown
  <2>1. CASE i \in Elided(s)
    BY <1>1, <1>4, <2>1, NamesOfTools
  <2>2. CASE i \notin Elided(s)
    BY <1>1, <2>2 DEF StubsAreKnown
  <2> QED
    BY <2>1, <2>2
<1> QED
  BY <1>2, <1>5, <1>6 DEF t

\* What of a history a rebuilt one keeps after the summary: all of it but the task,
\* or the protected tail; in both cases its recent turns.
LEMMA RebuiltFrom ==
  ASSUME ChainInv, SaidFacts, TurnsInv, pc /= "idle",
         NEW s \in Seq(Message), s /= <<>>, s[1] = User(1), SaidOnce(s), EndsRecently(s)
  PROVE  \E b \in 2..(Len(s) + 1) :
           /\ b <= Recent + Len(s) - Len(said)
           /\ \A summary : RebuildHistory(s, summary) = <<s[1]>> \o summary \o From(s, b)
<1> DEFINE Q == ProtectedTailStart(s)
           w == From(s, Q)
           window == TailFromSafeBoundary(w)
           tail == IF Len(window) = Len(s) THEN Tail(window) ELSE window
<1>1. /\ Len(s) \in Nat /\ DOMAIN s = 1..Len(s) /\ 1 <= Len(s) /\ Len(said) \in Nat
      /\ Recent \in Nat /\ 2 <= Recent /\ Recent <= Len(said) + 1
  BY RecentIs DEF SaidFacts
<1>2. \A summary : RebuildHistory(s, summary) = <<s[1]>> \o summary \o tail
  BY DEF RebuildHistory
<1>3. Len(said) + 2 <= Len(s) + Recent
  BY DEF EndsRecently
<1>4. window = LET starts == IF Boundaries(w) /= {} THEN Boundaries(w)
                             ELSE {i \in DOMAIN w : w[i].role /= "tool"}
               IN  IF starts = {} THEN <<>> ELSE From(w, Min(starts))
  BY DEF TailFromSafeBoundary
<1>5. CASE Recent = 2 /\ Q = 1
  <2>1. w = s
    BY <1>1, <1>5, SubSeqFull DEF From
  <2>2. 1 \in Boundaries(s) /\ Boundaries(s) \in SUBSET Nat
    BY <1>1 DEF Boundaries, IsBoundary, User, Plain
  <2>3. Min(Boundaries(s)) \in Boundaries(s) /\ Min(Boundaries(s)) <= 1
    BY <2>2, LeastElement
  <2>4. Min(Boundaries(s)) = 1
    BY <1>1, <2>3 DEF Boundaries
  <2> HIDE DEF w
  <2>5. window = From(s, 1)
    BY <1>4, <2>1, <2>2, <2>4
  <2>6. window = s
    BY <1>1, <2>5, SubSeqFull DEF From
  <2> HIDE DEF window
  <2>7. tail = From(s, 2)
    BY <2>6, TailIsRest
  <2>8. 2 \in 2..(Len(s) + 1) /\ 2 <= Recent + Len(s) - Len(said)
    BY <1>1, <1>3, <1>5
  <2> HIDE DEF tail
  <2> QED
    BY <1>2, <2>7, <2>8
<1>6. CASE /\ Recent \in Answers(said) /\ Q = Recent + Len(s) - Len(said)
           /\ Q \in Answers(s)
  <2>1. Q \in DOMAIN s /\ s[Q].role = "assistant" /\ 2 <= Q /\ Q \in 1..(Len(s) + 1) /\ Q \in Nat
    BY <1>1, <1>3, <1>6 DEF Answers
  <2>2. Q = Recent + Len(s) - Len(said)
    BY <1>6
  <2> HIDE DEF Q
  <2>3. /\ w \in Seq(Message) /\ Len(w) = Len(s) - Q + 1 /\ DOMAIN w = 1..(Len(s) - Q + 1)
        /\ \A i \in DOMAIN w : i + Q - 1 \in DOMAIN s /\ w[i] = s[i + Q - 1]
    BY <2>1, RestOf
  <2> HIDE DEF w
  <2>4. ASSUME NEW i \in DOMAIN w
        PROVE  ~IsBoundary(w[i])
    <3>1. PICK x \in DOMAIN s : x = i + Q - 1 /\ w[i] = s[x]
      BY <2>3
    <3>2. Recent + Len(s) - Len(said) <= x
      BY <1>1, <2>1, <2>2, <2>3, <3>1
    <3>3. PICK p \in DOMAIN said : Recent <= p /\ s[x] = said[p]
      BY <1>1, <3>2, PlacesOfRecent
    <3>4. 2 <= p
      BY <1>1, <3>3 DEF SaidFacts
    <3> QED
      BY <3>1, <3>3, <3>4 DEF TurnsInv, IsBoundary
  <2>5. Boundaries(w) = {}
    BY <2>4 DEF Boundaries
  <2> DEFINE starts == {i \in DOMAIN w : w[i].role /= "tool"}
  <2>6. 1 \in starts /\ starts \in SUBSET Nat /\ \A i \in starts : 1 <= i
    <3>1. 1 \in DOMAIN w /\ 1 + Q - 1 = Q
      BY <1>1, <2>1, <2>3
    <3>2. w[1] = s[Q]
      BY <2>3, <3>1
    <3> QED
      BY <2>1, <2>3, <3>1, <3>2
  <2>7. window = IF starts = {} THEN <<>> ELSE From(w, Min(starts))
    BY <1>4, <2>5
  <2> HIDE DEF starts, window
  <2>8. Min(starts) \in starts /\ Min(starts) <= 1
    BY <2>6, LeastElement
  <2>9. Min(starts) = 1
    <3>1. PICK x : x = Min(starts)
      OBVIOUS
    <3>2. x \in Nat /\ 1 <= x /\ x <= 1
      BY <2>6, <2>8, <3>1
    <3> QED
      BY <3>1, <3>2
  <2>10. window = From(w, 1)
    BY <2>6, <2>7, <2>9
  <2>11. window = w
    BY <2>3, <2>10, SubSeqFull DEF From
  <2>12. Len(w) /= Len(s)
    BY <1>1, <2>1, <2>3
  <2>13. tail = From(s, Q)
    BY <2>11, <2>12 DEF w
  <2>14. Q \in 2..(Len(s) + 1) /\ Q <= Recent + Len(s) - Len(said)
    BY <1>1, <2>1, <2>2
  <2> HIDE DEF tail
  <2> QED
    BY <1>2, <2>13, <2>14
<1> QED
  BY <1>5, <1>6, TailStartsRecently

LEMMA TaskAndSummary ==
  ASSUME NEW S, NEW a \in S, NEW b \in S
  PROVE  /\ <<a>> \o <<>> \in Seq(S) /\ Len(<<a>> \o <<>>) = 1 /\ (<<a>> \o <<>>)[1] = a
         /\ <<a>> \o <<b>> \in Seq(S) /\ Len(<<a>> \o <<b>>) = 2
         /\ (<<a>> \o <<b>>)[1] = a /\ (<<a>> \o <<b>>)[2] = b
  OBVIOUS

\* Place by place: the task, the summary or none, and the history from b on.
LEMMA RebuiltParts ==
  ASSUME NEW s \in Seq(Message), s /= <<>>, NEW b \in 2..(Len(s) + 1),
         NEW summary \in {<<>>, <<Synthetic>>}
  PROVE  LET u == <<s[1]>> \o summary \o From(s, b) IN
         \E h \in {1, 2} :
           /\ u \in Seq(Message) /\ Len(u) = h + Len(s) - b + 1 /\ DOMAIN u = 1..Len(u)
           /\ u[1] = s[1] /\ (h = 2 => u[2] = Synthetic)
           /\ \A i \in DOMAIN u : h < i => /\ i - h + b - 1 \in DOMAIN s /\ b <= i - h + b - 1
                                           /\ u[i] = s[i - h + b - 1]
<1> DEFINE r == <<s[1]>> \o summary
           t == From(s, b)
           u == r \o t
<1>1. Len(s) \in Nat /\ DOMAIN s = 1..Len(s) /\ s[1] \in Message /\ b \in 1..(Len(s) + 1)
  OBVIOUS
<1>2. Synthetic \in Message
  BY UserMessages DEF Synthetic
<1>3. PICK h \in {1, 2} : r \in Seq(Message) /\ Len(r) = h /\ r[1] = s[1] /\ (h = 2 => r[2] = Synthetic)
  <2>1. CASE summary = <<>>
    <3>1. r \in Seq(Message) /\ Len(r) = 1 /\ r[1] = s[1]
      BY <1>1, <1>2, <2>1, TaskAndSummary
    <3> HIDE DEF r
    <3> QED
      BY <3>1
  <2>2. CASE summary = <<Synthetic>>
    <3>1. r \in Seq(Message) /\ Len(r) = 2 /\ r[1] = s[1] /\ r[2] = Synthetic
      BY <1>1, <1>2, <2>2, TaskAndSummary
    <3> HIDE DEF r
    <3> QED
      BY <3>1
  <2> QED
    BY <2>1, <2>2
<1> HIDE DEF r
<1>4. /\ t \in Seq(Message) /\ Len(t) = Len(s) - b + 1 /\ DOMAIN t = 1..(Len(s) - b + 1)
      /\ \A i \in DOMAIN t : i + b - 1 \in DOMAIN s /\ t[i] = s[i + b - 1]
  BY <1>1, RestOf
<1> HIDE DEF t
<1>5. /\ u \in Seq(Message) /\ Len(u) = h + Len(t)
      /\ \A i \in 1..(h + Len(t)) : u[i] = IF i <= h THEN r[i] ELSE t[i - h]
  BY <1>3, <1>4, ConcatProperties
<1> HIDE DEF u
<1>6. Len(u) = h + Len(s) - b + 1 /\ DOMAIN u = 1..Len(u)
  BY <1>1, <1>3, <1>4, <1>5
<1>7. Len(t) \in Nat /\ h \in Nat /\ b \in Nat
  BY <1>3, <1>4
<1>8. u[1] = s[1] /\ (h = 2 => u[2] = Synthetic)
  BY <1>3, <1>5, <1>7
<1>9. ASSUME NEW i \in DOMAIN u, h < i
      PROVE  i - h + b - 1 \in DOMAIN s /\ b <= i - h + b - 1 /\ u[i] = s[i - h + b - 1]
  <2>1. i \in 1..(h + Len(t)) /\ i - h \in 1..Len(t)
    BY <1>5, <1>6, <1>7, <1>9
  <2>2. PICK j \in DOMAIN t : j = i - h
    BY <1>4, <2>1
  <2>3. u[i] = t[j]
    BY <1>5, <1>7, <1>9, <2>1, <2>2
  <2>4. j + b - 1 \in DOMAIN s /\ t[j] = s[j + b - 1] /\ b <= j + b - 1
    BY <1>1, <1>4, <1>7
  <2> QED
    BY <2>2, <2>3, <2>4
<1> QED
  BY <1>3, <1>5, <1>6, <1>8, <1>9 DEF u, r, t

LEMMA MovedByRebuilding ==
  ASSUME NEW p \in Int, NEW n \in Int, NEW l \in Int, NEW b \in Int, NEW h \in Nat,
         b <= p + l - n, p <= n, NEW i \in Int, i = p + (h + l - b + 1) - n
  PROVE  i - h + b - 1 = p + l - n /\ h < i /\ i \in 1..(h + l - b + 1)
  OBVIOUS

LEMMA RebuiltKeepsWork ==
  ASSUME ChainInv, SaidFacts, TurnsInv, pc /= "idle",
         NEW s \in Seq(Message), s /= <<>>, s[1] = User(1),
         SaidOnce(s), EndsRecently(s), StubsAreKnown(s), NEW summary \in {<<>>, <<Synthetic>>}
  PROVE  /\ SaidOnce(RebuildHistory(s, summary)) /\ EndsRecently(RebuildHistory(s, summary))
         /\ StubsAreKnown(RebuildHistory(s, summary))
<1>1. /\ Len(s) \in Nat /\ DOMAIN s = 1..Len(s) /\ 1 <= Len(s) /\ Len(said) \in Nat
      /\ DOMAIN said = 1..Len(said) /\ Recent \in Nat /\ 2 <= Recent
  BY RecentIs DEF SaidFacts
<1>2. PICK b \in 2..(Len(s) + 1) :
           /\ b <= Recent + Len(s) - Len(said)
           /\ \A x : RebuildHistory(s, x) = <<s[1]>> \o x \o From(s, b)
  BY RebuiltFrom
<1> DEFINE u == RebuildHistory(s, summary)
<1>3. u = <<s[1]>> \o summary \o From(s, b)
  BY <1>2
<1> HIDE DEF u
<1>4. PICK h \in {1, 2} :
           /\ u \in Seq(Message) /\ Len(u) = h + Len(s) - b + 1 /\ DOMAIN u = 1..Len(u)
           /\ u[1] = s[1] /\ (h = 2 => u[2] = Synthetic)
           /\ \A i \in DOMAIN u : h < i => /\ i - h + b - 1 \in DOMAIN s /\ b <= i - h + b - 1
                                           /\ u[i] = s[i - h + b - 1]
  BY <1>3, RebuiltParts
<1>5. /\ Synthetic.n = 0 /\ Synthetic.role = "user" /\ Synthetic.calls = <<>>
      /\ Synthetic.text = "full"
  BY UserMessages DEF Synthetic
<1>6. h \in Nat /\ b \in Nat /\ 2 <= b /\ Len(u) \in Nat
  BY <1>1, <1>4
\* Which message of s one of u is, and that the places are different ones.
<1>7. ASSUME NEW i \in DOMAIN u
      PROVE  \/ u[i] = Synthetic /\ i = 2 /\ h = 2
             \/ i = 1 /\ 1 \in DOMAIN s /\ u[i] = s[1]
             \/ h < i /\ \E x \in DOMAIN s : x = i - h + b - 1 /\ 2 <= x /\ u[i] = s[x]
  <2>1. i \in Nat /\ 1 <= i /\ 1 \in DOMAIN s
    BY <1>1, <1>4, <1>6
  <2>2. CASE h < i
    <3>1. PICK x \in DOMAIN s : x = i - h + b - 1 /\ b <= x /\ u[i] = s[x]
      BY <1>4, <2>2
    <3>2. 2 <= x
      BY <1>1, <1>6, <3>1
    <3> QED
      BY <2>2, <3>1, <3>2
  <2>3. CASE ~(h < i)
    <3>1. i = 1 \/ (i = 2 /\ h = 2)
      BY <1>4, <2>1, <2>3
    <3> QED
      BY <1>4, <2>1, <3>1
  <2> QED
    BY <2>2, <2>3
<1>8. SaidOnce(u)
  <2>1. ASSUME NEW i \in DOMAIN u
        PROVE  /\ u[i].n = 0 => u[i].role = "user" /\ u[i].calls = <<>>
               /\ u[i].n /= 0 => /\ u[i].n \in DOMAIN said
                                 /\ u[i].role = said[u[i].n].role /\ u[i].calls = said[u[i].n].calls
    <3>1. u[i] = Synthetic \/ \E x \in DOMAIN s : u[i] = s[x]
      BY <1>7
    <3>2. CASE u[i] = Synthetic
      BY <1>5, <3>2
    <3>3. CASE \E x \in DOMAIN s : u[i] = s[x]
      BY <3>3 DEF SaidOnce
    <3> QED
      BY <3>1, <3>2, <3>3
  <2>2. ASSUME NEW i \in DOMAIN u, NEW j \in DOMAIN u, u[i].n /= 0, u[j].n = u[i].n
        PROVE  i = j
    <3>1. u[i] /= Synthetic /\ u[j] /= Synthetic
      BY <1>5, <2>2
    <3>2. PICK x \in DOMAIN s : u[i] = s[x] /\ ((i = 1 /\ x = 1) \/ (x = i - h + b - 1 /\ 2 <= x))
      BY <1>7, <3>1
    <3>3. PICK y \in DOMAIN s : u[j] = s[y] /\ ((j = 1 /\ y = 1) \/ (y = j - h + b - 1 /\ 2 <= y))
      BY <1>7, <3>1
    <3>4. x = y
      BY <2>2, <3>2, <3>3 DEF SaidOnce
    <3>5. i \in Int /\ j \in Int
      BY <1>4
    <3> QED
      BY <1>6, <3>2, <3>3, <3>4, <3>5
  <2> QED
    BY <2>1, <2>2 DEF SaidOnce
<1>9. EndsRecently(u)
  <2>1. Len(said) + 2 <= Len(u) + Recent
    BY <1>1, <1>2, <1>4, <1>6
  <2>2. ASSUME NEW p \in DOMAIN said, Recent <= p
        PROVE  u[p + Len(u) - Len(said)] = said[p]
    <3>1. PICK x \in DOMAIN s : /\ x = p + Len(s) - Len(said) /\ s[x] = said[p]
                                /\ Recent + Len(s) - Len(said) <= x
      BY <1>1, <2>2, RecentPlaces
    <3>2. PICK i \in Int : i = p + Len(u) - Len(said)
      BY <1>1, <1>6
    <3>3. b <= x /\ x \in Int /\ p \in 1..Len(said)
      BY <1>1, <1>2, <1>6, <3>1
    <3>7. /\ b <= p + Len(s) - Len(said) /\ p <= Len(said) /\ p \in Int /\ b \in Int /\ i \in Int
          /\ Len(s) \in Int /\ Len(said) \in Int /\ h \in Nat
          /\ i = p + (h + Len(s) - b + 1) - Len(said)
      BY <1>1, <1>4, <1>6, <3>1, <3>2, <3>3
    <3>8. /\ i - h + b - 1 = p + Len(s) - Len(said) /\ h < i
          /\ i \in 1..(h + Len(s) - b + 1)
      BY ONLY <3>7, MovedByRebuilding
    <3>4. i - h + b - 1 = x
      BY <3>1, <3>8
    <3>5. h < i /\ i \in 1..Len(u)
      BY <1>4, <3>8
    <3>6. u[i] = s[i - h + b - 1]
      BY <1>4, <3>5
    <3> QED
      BY <3>1, <3>2, <3>4, <3>6
  <2> QED
    BY <2>1, <2>2 DEF EndsRecently
<1>10. StubsAreKnown(u)
  <2> SUFFICES ASSUME NEW i \in DOMAIN u, u[i].text = "stub"
               PROVE  u[i].role = "tool" /\ ToolName(said, u[i].of) /= "spawn_worker"
    BY DEF StubsAreKnown
  <2>1. \E x \in DOMAIN s : u[i] = s[x]
    BY <1>5, <1>7
  <2> QED
    BY <2>1 DEF StubsAreKnown
<1> QED
  BY <1>8, <1>9, <1>10 DEF u

\* One more message at the end of a worker's history and of what was said.
LEMMA LongerKeepsWork ==
  ASSUME ChainInv, SaidFacts, TurnsInv, messages /= <<>>, SaidOnce(messages), EndsRecently(messages),
         StubsAreKnown(messages), NEW m \in Message, m.n = Len(said) + 1, m.text = "full",
         said' = Append(said, m), messages' = Append(messages, m),
         m.role /= "user", pc' /= "idle" => (m.role = "assistant" => m.calls /= <<>>), pc /= "idle"
  PROVE  /\ SaidOnce(messages)' /\ EndsRecently(messages)' /\ StubsAreKnown(messages)' /\ TurnsInv'
<1>1. /\ messages \in Seq(Message) /\ DOMAIN messages = 1..Len(messages) /\ Len(messages) \in Nat
      /\ said \in Seq(Message) /\ Len(said) \in Nat /\ DOMAIN said = 1..Len(said) /\ 1 <= Len(said)
      /\ IsNumbered(said) /\ Chained(messages)
  BY DEF ChainInv, TypeOK, SaidFacts
<1>2. /\ messages' \in Seq(Message) /\ Len(messages') = Len(messages) + 1
      /\ DOMAIN messages' = 1..(Len(messages) + 1)
      /\ \A i \in DOMAIN messages : messages'[i] = messages[i]
      /\ messages'[Len(messages) + 1] = m
  BY <1>1, ElementsOfAppend
<1>3. /\ said' \in Seq(Message) /\ Len(said') = Len(said) + 1
      /\ DOMAIN said' = 1..(Len(said) + 1)
      /\ \A i \in DOMAIN said : said'[i] = said[i]
      /\ said'[Len(said) + 1] = m
  BY <1>1, ElementsOfAppend
<1>4. /\ \A i \in DOMAIN messages' : \/ i \in DOMAIN messages /\ messages'[i] = messages[i]
                                     \/ i = Len(messages) + 1 /\ messages'[i] = m
      /\ \A p \in DOMAIN said' : \/ p \in DOMAIN said /\ said'[p] = said[p]
                                 \/ p = Len(said) + 1 /\ said'[p] = m
  BY <1>1, <1>2, <1>3
<1>5. Len(said) + 1 \in DOMAIN said' /\ Len(said) + 1 \notin DOMAIN said /\ Len(said) + 1 /= 0
      /\ \A p \in DOMAIN said : p \in DOMAIN said'
  BY <1>1, <1>3
<1>6. SaidOnce(messages)'
  <2>1. ASSUME NEW i \in DOMAIN messages'
        PROVE  /\ messages'[i].n = 0 => messages'[i].role = "user" /\ messages'[i].calls = <<>>
               /\ messages'[i].n /= 0 =>
                    /\ messages'[i].n \in DOMAIN said'
                    /\ messages'[i].role = said'[messages'[i].n].role
                    /\ messages'[i].calls = said'[messages'[i].n].calls
    <3>1. CASE i \in DOMAIN messages /\ messages'[i] = messages[i]
      BY <1>3, <1>5, <3>1 DEF SaidOnce
    <3>2. CASE i = Len(messages) + 1 /\ messages'[i] = m
      BY <1>3, <1>5, <3>2
    <3> QED
      BY <1>4, <3>1, <3>2
  <2>2. ASSUME NEW i \in DOMAIN messages', NEW j \in DOMAIN messages',
               messages'[i].n /= 0, messages'[j].n = messages'[i].n
        PROVE  i = j
    <3>1. \A x \in DOMAIN messages : messages[x].n /= 0 => messages[x].n /= Len(said) + 1
      BY <1>5 DEF SaidOnce
    <3>2. CASE i \in DOMAIN messages /\ j \in DOMAIN messages
      BY <1>2, <2>2, <3>2 DEF SaidOnce
    <3>3. CASE i \notin DOMAIN messages \/ j \notin DOMAIN messages
      BY <1>4, <2>2, <3>1, <3>3
    <3> QED
      BY <3>2, <3>3
  <2> QED
    BY <2>1, <2>2 DEF SaidOnce
<1>7. TurnsInv'
  <2>1. said' /= <<>> /\ said'[1] = User(1)
    BY <1>1, <1>3 DEF TurnsInv
  <2>2. ASSUME pc' /= "idle", NEW p \in DOMAIN said', 2 <= p
        PROVE  said'[p].role /= "user" /\ (said'[p].role = "assistant" => said'[p].calls /= <<>>)
    BY <1>4, <2>2 DEF TurnsInv
  <2> QED
    BY <2>1, <2>2 DEF TurnsInv
<1>8. EndsRecently(messages)'
  <2>1. Recent \in Nat /\ 2 <= Recent /\ Recent' \in Nat /\ Recent <= Recent'
    <3>1. /\ ProtectedTailStart(said) \in Nat /\ ProtectedTailStart(said') \in Nat
          /\ ProtectedTailStart(said) <= ProtectedTailStart(said')
      <4>1. said /= <<>> /\ said' /= <<>>
        BY <1>7 DEF TurnsInv
      <4>2. ProtectedTailStart(said) \in DOMAIN said /\ ProtectedTailStart(said') \in DOMAIN said'
        BY <1>1, <1>3, <4>1, TailStartsInside
      <4>3. ProtectedTailStart(said) <= ProtectedTailStart(said')
        BY <1>1, <4>1, TailStartGrows
      <4> QED
        BY <1>1, <1>3, <4>2, <4>3
    <3>2. PICK a \in Nat, b \in Nat : a = ProtectedTailStart(said) /\ b = ProtectedTailStart(said')
      BY <3>1
    <3>3. Recent = Max({2, a}) /\ Recent' = Max({2, b}) /\ a <= b
      BY <3>1, <3>2 DEF Recent
    <3>4. /\ Max({2, a}) \in {2, a} /\ 2 <= Max({2, a}) /\ a <= Max({2, a})
          /\ Max({2, b}) \in {2, b} /\ 2 <= Max({2, b}) /\ b <= Max({2, b})
      BY LargerOfTwo
    <3>5. PICK x, y : x = Max({2, a}) /\ y = Max({2, b})
      OBVIOUS
    <3>6. x \in {2, a} /\ 2 <= x /\ y \in {2, b} /\ 2 <= y /\ b <= y
      BY <3>4, <3>5
    <3>7. x \in Nat /\ y \in Nat /\ x <= y
      BY <3>3, <3>6
    <3> QED
      BY <3>3, <3>5, <3>6, <3>7
  <2>2. Len(said) + 2 <= Len(messages) + Recent
    BY DEF EndsRecently
  <2>3. Len(said') + 2 <= Len(messages') + Recent'
    BY <1>1, <1>2, <1>3, <2>1, <2>2
  <2>4. ASSUME NEW p \in DOMAIN said', Recent' <= p
        PROVE  messages'[p + Len(messages') - Len(said')] = said'[p]
    <3>1. PICK x : x = p + Len(messages') - Len(said')
      OBVIOUS
    <3>2. p \in Int /\ x = p + Len(messages) - Len(said)
      BY <1>1, <1>2, <1>3, <3>1
    <3>3. CASE p \in DOMAIN said /\ said'[p] = said[p]
      <4>1. Recent <= p
        BY <2>1, <2>4, <3>2
      <4>2. x \in DOMAIN messages /\ messages[x] = said[p]
        BY <1>1, <2>1, <3>2, <3>3, <4>1, RecentPlaces
      <4> QED
        BY <1>2, <3>1, <3>3, <4>2
    <3>4. CASE p = Len(said) + 1 /\ said'[p] = m
      <4>1. x = Len(messages) + 1
        BY <1>1, <3>2, <3>4
      <4> QED
        BY <1>2, <3>1, <3>4, <4>1
    <3> QED
      BY <1>4, <3>3, <3>4
  <2> QED
    BY <2>3, <2>4 DEF EndsRecently
<1>9. StubsAreKnown(messages)'
  <2> SUFFICES ASSUME NEW i \in DOMAIN messages', messages'[i].text = "stub"
               PROVE  /\ messages'[i].role = "tool"
                      /\ ToolName(said', messages'[i].of) /= "spawn_worker"
    BY DEF StubsAreKnown
  <2>1. i \in DOMAIN messages /\ messages'[i] = messages[i]
    BY <1>4
  <2>2. messages[i].role = "tool" /\ ToolName(said, messages[i].of) /= "spawn_worker"
    BY <2>1 DEF StubsAreKnown
  <2>3. PICK c : c = messages[i].of[1] /\ c \in DOMAIN said
                 /\ ToolName(said, messages[i].of) = said[c].calls[messages[i].of[2]]
    BY <1>1, <2>1, <2>2, NamesOfTools
  <2>4. \A j \in DOMAIN said' : said'[j].n = j
    BY <1>1, <1>4 DEF IsNumbered
  <2>5. (CHOOSE j \in DOMAIN said' : said'[j].n = c) = c
    BY <1>5, <2>3, <2>4
  <2>6. ToolName(said', messages[i].of) = said'[c].calls[messages[i].of[2]]
    BY <2>3, <2>5 DEF ToolName
  <2> QED
    BY <1>3, <2>1, <2>2, <2>3, <2>6
<1> QED
  BY <1>6, <1>7, <1>8, <1>9

\* A step leaves a worker's history as it is, adds a message to it or compacts it.
LEMMA WorkIsKept ==
  ASSUME ChainInv, WorkInv, [Next]_vars
  PROVE  WorkInv'
<1>1. CASE kind' /= "worker"
  BY <1>1 DEF WorkInv
<1>2. CASE kind' = "worker"
  <2>1. kind = "worker" /\ pc \in {"idle", "calling", "tools"}
    BY <1>2 DEF ChainInv, KindInv, Next, vars, PersistSession, HandleUserMessage, CollectResponse,
            ExecuteTool, AppendMessage, GiveUp, Archive, Handoff, Crash, LoadSession,
            CompactTier1, CompactTier2
  <2>2. SaidOnce(messages) /\ EndsRecently(messages) /\ StubsAreKnown(messages) /\ TurnsInv
    BY <2>1 DEF WorkInv
  <2>3. /\ messages \in Seq(Message) /\ Chained(messages) /\ messages /= <<>>
        /\ messages[1] = User(1) /\ CallsAreAnswers(messages)
        /\ pc /= "tools" => Closed(messages)
    BY <2>1 DEF ChainInv, TypeOK, KindInv, RoundInv
  <2>4. SaidFacts
    <3>1. said \in Seq(Message) /\ said /= <<>> /\ IsNumbered(said)
      BY <2>2 DEF ChainInv, TypeOK, TurnsInv
    <3>2. DOMAIN said = 1..Len(said) /\ Len(said) \in Nat /\ 1 <= Len(said)
      BY <3>1
    <3> QED
      BY <3>1, <3>2 DEF SaidFacts
  <2>5. ASSUME said' = said, pc' = pc \/ pc' = "idle",
               SaidOnce(messages'), EndsRecently(messages'), StubsAreKnown(messages')
        PROVE  WorkInv'
    <3>1. TurnsInv'
      BY <2>2, <2>5 DEF TurnsInv
    <3>2. Recent' = Recent
      BY <2>5 DEF Recent
    <3>3. SaidOnce(messages)' /\ EndsRecently(messages)' /\ StubsAreKnown(messages)'
      BY <2>5, <3>2 DEF SaidOnce, EndsRecently, StubsAreKnown
    <3> QED
      BY <3>1, <3>3 DEF WorkInv
  <2>6. CASE CollectResponse \/ ExecuteTool
    <3>1. PICK m \in Message :
            /\ AppendMessage(m) /\ m.n = Len(said) + 1 /\ m.text = "full"
            /\ kind = "worker" => m.role /= "user"
            /\ pc' /= "idle" => (m.role = "assistant" => m.calls /= <<>>)
      BY <2>6, SomethingIsSaid
    <3>2. said' = Append(said, m) /\ messages' = Append(messages, m) /\ m.role /= "user"
      BY <2>1, <3>1 DEF AppendMessage
    <3>3. pc /= "idle"
      BY <2>6 DEF CollectResponse, ExecuteTool
    <3>4. pc' /= "idle" => (m.role = "assistant" => m.calls /= <<>>)
      BY <3>1
    <3>5. m.n = Len(said) + 1 /\ m.text = "full"
      BY <3>1
    <3>6. SaidOnce(messages)' /\ EndsRecently(messages)' /\ StubsAreKnown(messages)' /\ TurnsInv'
      BY <2>2, <2>3, <2>4, <3>2, <3>3, <3>4, <3>5, LongerKeepsWork
    <3> QED
      BY <3>6 DEF WorkInv
  <2>7. CASE CompactTier1
    <3>1. messages' = ElideToolResults(messages) /\ said' = said /\ pc' = pc
      BY <2>7 DEF CompactTier1
    <3>2. /\ SaidOnce(messages') /\ EndsRecently(messages') /\ StubsAreKnown(messages')
      BY <2>2, <2>3, <2>4, <3>1, ElidedKeepsWork
    <3> QED
      BY <2>5, <3>1, <3>2
  <2>8. CASE CompactTier2
    <3>1. PICK summary \in {<<>>, <<Synthetic>>} : messages' = Rebuilt(summary)
      BY <2>8 DEF CompactTier2
    <3>2. said' = said /\ pc' = pc /\ pc /= "idle" /\ pc /= "tools"
      BY <2>8 DEF CompactTier2
    <3>3. PICK s : s = ElideToolResults(messages)
      OBVIOUS
    <3>4. s \in Seq(Message) /\ s /= <<>> /\ s[1] = User(1)
      BY <2>3, <3>2, <3>3, ElidedIsChained, ElidedKeepsTask
    <3>5. SaidOnce(s) /\ EndsRecently(s) /\ StubsAreKnown(s)
      BY <2>2, <2>3, <2>4, <3>3, ElidedKeepsWork
    <3>6. messages' = RebuildHistory(s, summary)
      BY <3>1, <3>3 DEF Rebuilt
    <3>7. /\ SaidOnce(messages') /\ EndsRecently(messages') /\ StubsAreKnown(messages')
      BY <2>2, <2>4, <3>2, <3>4, <3>5, <3>6, RebuiltKeepsWork
    <3> QED
      BY <2>5, <3>2, <3>7
  <2>9. CASE PersistSession \/ GiveUp \/ UNCHANGED vars
    <3>1. messages' = messages /\ said' = said /\ (pc' = pc \/ pc' = "idle")
      BY <2>9 DEF PersistSession, GiveUp, vars
    <3> QED
      BY <2>2, <2>5, <3>1
  <2>10. ~HandleUserMessage /\ ~Archive /\ ~Handoff /\ ~Crash /\ ~LoadSession
    BY <2>1 DEF HandleUserMessage, Archive, Handoff, Crash, LoadSession
  <2> QED
    BY <2>6, <2>7, <2>8, <2>9, <2>10 DEF Next
<1> QED
  BY <1>1, <1>2

LEMMA WorkAtFirst ==
  ASSUME Init
  PROVE  WorkInv
<1> SUFFICES ASSUME kind = "worker"
             PROVE  SaidOnce(messages) /\ EndsRecently(messages) /\ StubsAreKnown(messages) /\ TurnsInv
  BY DEF WorkInv
<1>1. said = <<User(1)>> /\ messages = said
  BY DEF Init
<1>2. /\ User(1).n = 1 /\ User(1).role = "user" /\ User(1).text = "full"
  BY UserMessages
<1>3. DOMAIN said = {1} /\ Len(said) = 1 /\ said[1] = User(1) /\ said /= <<>>
  BY <1>1
<1>4. TurnsInv
  BY <1>3 DEF TurnsInv
<1>5. SaidOnce(messages)
  BY <1>1, <1>2, <1>3 DEF SaidOnce
<1>6. StubsAreKnown(messages)
  BY <1>1, <1>2, <1>3 DEF StubsAreKnown
<1>7. EndsRecently(messages)
  <2>1. Recent \in Nat /\ 2 <= Recent
    BY <1>4, ChainAtFirst, RecentIs
  <2>2. ~(Recent <= 1) /\ 1 + 2 <= 1 + Recent
    BY <2>1
  <2> QED
    BY <1>1, <1>3, <2>2 DEF EndsRecently
<1> QED
  BY <1>4, <1>5, <1>6, <1>7

LEMMA RecentAtTheEnd ==
  ASSUME ChainInv, SaidFacts, TurnsInv, NEW s \in Seq(Message), EndsRecently(s)
  PROVE  /\ Len(RecentSaid) < Len(s)
         /\ From(s, Len(s) - Len(RecentSaid) + 1) = RecentSaid
<1>1. /\ Recent \in Nat /\ 2 <= Recent /\ Recent <= Len(said) + 1
  BY RecentIs
<1>2. /\ said \in Seq(Message) /\ Len(said) \in Nat /\ Len(s) \in Nat /\ DOMAIN said = 1..Len(said)
      /\ Len(said) + 2 <= Len(s) + Recent
  BY DEF SaidFacts, EndsRecently
<1>3. Recent \in 1..(Len(said) + 1)
  BY <1>1, <1>2
<1>4. RecentSaid = From(said, Recent)
  BY DEF RecentSaid, Recent
<1> DEFINE r == From(said, Recent)
           b == Len(s) - Len(r) + 1
           t == From(s, b)
<1>5. /\ r \in Seq(Message) /\ Len(r) = Len(said) - Recent + 1
      /\ DOMAIN r = 1..(Len(said) - Recent + 1)
      /\ \A i \in DOMAIN r : i + Recent - 1 \in DOMAIN said /\ r[i] = said[i + Recent - 1]
  BY <1>2, <1>3, RestOf
<1> HIDE DEF r
<1>6. b = Len(s) - Len(said) + Recent /\ b \in 1..(Len(s) + 1) /\ Len(r) < Len(s)
  BY <1>1, <1>2, <1>5
<1> HIDE DEF b
<1>7. /\ t \in Seq(Message) /\ Len(t) = Len(s) - b + 1
      /\ DOMAIN t = 1..(Len(s) - b + 1)
      /\ \A i \in DOMAIN t : t[i] = s[i + b - 1]
  BY <1>6, RestOf
<1> HIDE DEF t
<1>8. Len(t) = Len(r) /\ DOMAIN t = DOMAIN r
  BY <1>1, <1>2, <1>5, <1>6, <1>7
<1>9. ASSUME NEW i \in DOMAIN r
      PROVE  t[i] = r[i]
  <2>1. i \in 1..(Len(said) - Recent + 1)
    BY <1>5
  <2>2. PICK p \in DOMAIN said : p = i + Recent - 1 /\ r[i] = said[p]
    BY <1>5
  <2>3. Recent <= p /\ p \in Int
    BY <1>1, <1>2, <2>1, <2>2
  <2>4. s[p + Len(s) - Len(said)] = said[p]
    BY <1>1, <2>3, RecentPlaces
  <2>5. p + Len(s) - Len(said) = i + b - 1
    BY <1>1, <1>2, <1>6, <2>1, <2>2
  <2> QED
    BY <1>7, <1>8, <2>2, <2>4, <2>5
<1>10. t = r
  BY <1>5, <1>7, <1>8, <1>9, SeqEqual
<1> QED
  BY <1>4, <1>6, <1>10 DEF t, b, r

\* A worker keeps its task, once and first, and its last turns as they were said,
\* through any number of compactions; an answer of a child is dropped with its call
\* or there in full (session_compact.go:15, 186, 224, 240).
THEOREM WorkSurvives == Spec => []WorkingSetSurvives
<1>1. Init => WorkInv
  BY WorkAtFirst
<1>2. ChainInv /\ WorkInv /\ [Next]_vars => WorkInv'
  BY WorkIsKept
<1>3. ChainInv /\ WorkInv => WorkingSetSurvives
  <2> SUFFICES ASSUME ChainInv, WorkInv, kind = "worker"
               PROVE  /\ messages[1] = said[1] /\ \A i \in DOMAIN messages : messages[i].n = 1 => i = 1
                      /\ Len(messages) > Len(RecentSaid)
                      /\ From(messages, Len(messages) - Len(RecentSaid) + 1) = RecentSaid
                      /\ \A i \in DOMAIN messages :
                           messages[i].text = "stub" =>
                             ToolName(said, messages[i].of) /= "spawn_worker"
    BY DEF WorkingSetSurvives
  <2>1. SaidOnce(messages) /\ EndsRecently(messages) /\ StubsAreKnown(messages) /\ TurnsInv
    BY DEF WorkInv
  <2>2. /\ messages \in Seq(Message) /\ messages /= <<>> /\ messages[1] = User(1)
        /\ said \in Seq(Message) /\ said /= <<>> /\ said[1] = User(1) /\ IsNumbered(said)
    BY <2>1 DEF ChainInv, TypeOK, KindInv, TurnsInv
  <2>3. SaidFacts
    <3>1. DOMAIN said = 1..Len(said) /\ Len(said) \in Nat /\ 1 <= Len(said)
      BY <2>2
    <3> QED
      BY <2>2, <3>1 DEF SaidFacts
  <2>4. 1 \in DOMAIN messages /\ messages[1].n = 1
    BY <2>2, UserMessages
  <2>5. \A i \in DOMAIN messages : messages[i].n = 1 => i = 1
    BY <2>1, <2>4 DEF SaidOnce
  <2>6. /\ Len(RecentSaid) < Len(messages)
        /\ From(messages, Len(messages) - Len(RecentSaid) + 1) = RecentSaid
    BY <2>1, <2>2, <2>3, RecentAtTheEnd
  <2>7. Len(RecentSaid) \in Nat /\ Len(messages) \in Nat
    <3>1. Recent \in 1..(Len(said) + 1)
      BY <2>1, <2>3, RecentIs DEF SaidFacts
    <3>2. RecentSaid = From(said, Recent)
      BY DEF RecentSaid, Recent
    <3>3. RecentSaid \in Seq(Message)
      BY <2>2, <3>1, <3>2, RestOf
    <3> QED
      BY <2>2, <3>3
  <2>8. Len(messages) > Len(RecentSaid)
    BY <2>6, <2>7
  <2> QED
    BY <2>1, <2>2, <2>5, <2>6, <2>8 DEF StubsAreKnown
<1> QED
  BY <1>1, <1>2, <1>3, ChainIsKept, PTL DEF Spec
=============================================================================
