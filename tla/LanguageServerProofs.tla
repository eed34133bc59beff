------------------------ MODULE LanguageServerProofs ------------------------
(***************************************************************************)
(* The server's documents follow the editor's, for every text and every    *)
(* edit that means the same to both, and an editor that paces itself never *)
(* blocks the server.                                                      *)
(*                                                                         *)
(* The first argument is a lemma about texts (the position of an index, in *)
(* lines and units, is found again in lines of the rope and characters, if *)
(* the text before it is plain) and a history: the editor's texts after    *)
(* each message, sure or not, explain what is in the queues, and the       *)
(* server's texts, which agree where they are sure, what is in the channel.*)
(* The second counts: a handler that waits, or waited, behind which a      *)
(* notification stands, means three notifications without diagnostics.     *)
(***************************************************************************)
EXTENDS LanguageServer, WellFoundedInduction, FiniteSetTheorems, TLAPS

Notices == {"open", "change", "close"}

\* What the editor has said of its documents at some moment, and what the server has made of it.
EditorStates == [Uris -> [of : Nat, text : Texts \cup {NoText}, sure : BOOLEAN]]
ServerStates == [Uris -> [of : Nat, text : Texts \cup {NoText}]]
States == EditorStates \cup ServerStates
Told(state, m) == [state EXCEPT ![m.uri] = [of |-> m.of, text |-> m.text, sure |-> m.sure]]
Said(state, u, of, text) == [state EXCEPT ![u] = [of |-> of, text |-> text]]

\* The changes of a message make its text of this one, and none of them panics.
Becomes(text, m) ==
  /\ FoldLeft(Applied, text, m.changes) = m.text
  /\ \A i \in DOMAIN m.changes :
       ~ Panics(FoldLeft(Applied, text, SubSeq(m.changes, 1, i - 1)), m.changes[i])
Meant(said, m) == (\A text \in Texts : Becomes(text, m)) \/ (said.sure /\ Becomes(said.text, m))

\* A message turns what was said into what is said, if it is right about the text it changes.
Tells(before, m, after) ==
  \/ m.kind = "resumed" /\ after = before
  \/ /\ m.kind = "ask" /\ after = before
     /\ m.text = before[m.uri].text /\ m.sure = before[m.uri].sure /\ m.text \in Texts
  \/ /\ m.kind \in Notices /\ after = Told(before, m)
     /\ m.kind = "close" <=> m.text = NoText
     /\ m.kind = "change" => before[m.uri].text \in Texts /\ (m.sure => Meant(before[m.uri], m))
     /\ m.kind \in {"open", "close"} => m.sure

Positions == [line : Nat, character : Nat]
Changes == [whole : BOOLEAN, from : Positions, to : Positions, new : Texts]

Tasks == [kind : Notices \cup {"ask", "resumed"}, uri : Uris, of : Nat,
          text : Texts \cup {NoText}, sure : BOOLEAN,
          changes : {<<>>} \cup {<<change>> : change \in Changes}, holds : {"none", "read"}]
Reports == [uri : Uris, version : Nat, text : Texts \cup {NoText},
            due : Nat, said : Texts \cup {NoText}, sure : BOOLEAN]
Responses == [text : Texts \cup {NoText}, said : Texts \cup {NoText}, sure : BOOLEAN]

TaskSteps == {t \in EditorStates \X Tasks \X EditorStates : Tells(t[1], t[2], t[3])}
ReportSteps ==
  {t \in ServerStates \X Reports \X ServerStates :
     t[3] = Said(t[1], t[2].uri, t[2].version, t[2].text)}

\* The members of a queue lead from one state to another, each by a step of Steps.
Leads(Steps, from, queue, to) ==
  \E past \in [0..Len(queue) -> States] :
    /\ past[0] = from /\ past[Len(queue)] = to
    /\ \A i \in 1..Len(queue) : <<past[i - 1], queue[i], past[i]>> \in Steps

Kept(said) == IF said.text = NoText THEN NoDocument ELSE [version |-> said.of, text |-> said.text]

\* The server has heard of every document what the editor said, and where that is sure it has
\* made the same of it.
Agrees(made, told) ==
  \A u \in Uris :
    /\ made[u].of = told[u].of
    /\ made[u].text = NoText <=> told[u].text = NoText
    /\ told[u].sure => made[u].text = told[u].text

\* The documents are what was made of the messages that are handled; those in the queues lead
\* from there to what the editor has, and the diagnostics from what it shows to there.
Explained(told, read, made) ==
  /\ documents = [u \in Uris |-> Kept(made[u])] /\ Agrees(made, told)
  /\ Leads(TaskSteps, told, ready, read) /\ Leads(TaskSteps, read, inbox, view)
  /\ Leads(ReportSteps, shown, out, made)
InStep == \E told, read \in EditorStates, made \in ServerStates : Explained(told, read, made)

Typed ==
  /\ view \in EditorStates /\ shown \in ServerStates
  /\ sent \in Nat /\ unseen \in SUBSET (1..sent) /\ paced \in BOOLEAN
  /\ stopped \in {"no", "blocked", "panicked"}
  /\ inbox \in Seq(Tasks) /\ ready \in Seq(Tasks) /\ parked \in Seq(Tasks)
  /\ out \in Seq(Reports) /\ answers \in Seq(Responses)

\* Only a handler that waits, or waited, holds a lock, and all that are parked have waited.
LocksHeld ==
  /\ \A i \in 1..Len(ready) : ready[i].kind # "resumed" => ready[i].holds = "none"
  /\ \A i \in 1..Len(inbox) : inbox[i].kind # "resumed" /\ inbox[i].holds = "none"
  /\ \A i \in 1..Len(parked) : parked[i].kind = "resumed"
  /\ Len(parked) = IF Len(out) > 1 THEN Len(out) - 1 ELSE 0

\* Notifications are handled, and their diagnostics printed, in the order of their numbers;
\* none of those under way has been seen.
Unprinted(queue) ==
  /\ \A i \in 1..Len(queue) : queue[i].kind \in Notices => queue[i].of \in unseen
  /\ \A i, j \in 1..Len(queue) :
       i < j /\ queue[i].kind \in Notices /\ queue[j].kind \in Notices => queue[i].of < queue[j].of
Numbered ==
  /\ Unprinted(ready) /\ Unprinted(inbox)
  /\ \A i \in 1..Len(out) : out[i].due \in unseen
  /\ \A i, j \in 1..Len(out) : i < j => out[i].due < out[j].due
  /\ \A i \in 1..Len(out), j \in 1..Len(ready) : ready[j].kind \in Notices => out[i].due < ready[j].of
  /\ \A i \in 1..Len(out), j \in 1..Len(inbox) : inbox[j].kind \in Notices => out[i].due < inbox[j].of
  /\ \A i \in 1..Len(ready), j \in 1..Len(inbox) :
       ready[i].kind \in Notices /\ inbox[j].kind \in Notices => ready[i].of < inbox[j].of

\* An editor that paces itself has two notifications at most under way, so none stands before
\* a handler that waited.
Pacing ==
  paced => /\ Cardinality(unseen) <= 2
           /\ \A i, j \in 1..Len(ready) :
                i < j /\ ready[i].kind \in Notices => ready[j].kind # "resumed"

Inductive ==
  Typed /\ InStep /\ DiagnosesText /\ AnswersOfText
    /\ LocksHeld /\ Numbered /\ Pacing /\ SafeWhenPaced

-----------------------------------------------------------------------------

\* A nonempty set of natural numbers has a least member, and Min is it.
LEMMA LeastMember ==
  ASSUME NEW S, S \subseteq Nat, S # {}
  PROVE  Min(S) \in S /\ \A y \in S : Min(S) <= y
<1> DEFINE R == {ss \in Nat \X Nat : ss[1] < ss[2]}
<1>1. IsWellFoundedOn(R, Nat)
  BY NatLessThanWellFounded DEF OpToRel
<1>2. PICK m \in S : \A k \in S : <<k, m>> \notin R
  <2> HIDE DEF R
  <2>1. PICK N : N = Nat
    OBVIOUS
  <2>2. IsWellFoundedOn(R, N) /\ S \subseteq N
    BY <1>1, <2>1
  <2> QED
    BY <2>2, WFMin
<1>3. ASSUME NEW y \in S PROVE m =< y
  <2>1. <<y, m>> \notin R
    BY <1>2
  <2> QED
    BY <2>1
<1> DEFINE Least(x) == x \in S /\ \A y \in S : x =< y
<1>4. Min(S) = CHOOSE x : Least(x)
  BY DEF Min
<1>5. Least(m)
  BY <1>3
<1>6. Least(Min(S))
  BY <1>4, <1>5
<1> QED
  BY <1>6

-----------------------------------------------------------------------------
\* One more character ends at most one more line.
LEMMA LinesGrow ==
  ASSUME NEW text, NEW breaks, NEW k \in Nat
  PROVE  /\ LinesEnded(text, k, breaks) \in Nat
         /\ LinesEnded(text, 0, breaks) = 0
         /\ LinesEnded(text, k, breaks) <= LinesEnded(text, k + 1, breaks)
         /\ LinesEnded(text, k + 1, breaks) <= LinesEnded(text, k, breaks) + 1
<1> DEFINE E(n) == {i \in 1..n : text[i] \in breaks}
<1>1. ASSUME NEW n \in Nat PROVE IsFiniteSet(E(n)) /\ Cardinality(E(n)) \in Nat
  <2>1. IsFiniteSet(1..n)
    BY FS_Interval
  <2>2. E(n) \in SUBSET (1..n)
    OBVIOUS
  <2>3. IsFiniteSet(E(n))
    BY <2>1, <2>2, FS_Subset
  <2> QED
    BY <2>3, FS_CardinalityType
<1>2. E(0) = {}
  OBVIOUS
<1>3. E(k + 1) = E(k) \/ E(k + 1) = E(k) \cup {k + 1}
  <2>1. 1..(k + 1) = (1..k) \cup {k + 1}
    OBVIOUS
  <2> QED
    BY <2>1
<1>4. Cardinality(E(k)) <= Cardinality(E(k + 1)) /\ Cardinality(E(k + 1)) <= Cardinality(E(k)) + 1
  <2> HIDE DEF E
  <2>1. CASE E(k + 1) = E(k)
    BY <2>1, <1>1
  <2>2. CASE E(k + 1) = E(k) \cup {k + 1}
    <3>1. IsFiniteSet(E(k)) /\ Cardinality(E(k)) \in Nat
      BY <1>1
    <3>2. Cardinality(E(k) \cup {k + 1}) = IF k + 1 \in E(k) THEN Cardinality(E(k)) ELSE Cardinality(E(k)) + 1
      BY <3>1, FS_AddElement
    <3> QED
      BY <2>2, <3>1, <3>2
  <2> QED
    BY <2>1, <2>2, <1>3
<1> QED
  BY <1>1, <1>2, <1>4, FS_EmptySet DEF LinesEnded

\* So the number of lines that have ended never falls, and takes every value on its way.
LEMMA LinesMonotone ==
  ASSUME NEW text, NEW breaks, NEW j \in Nat, NEW k \in Nat, j <= k
  PROVE  LinesEnded(text, j, breaks) <= LinesEnded(text, k, breaks)
<1> DEFINE S == {n \in Nat : j <= n /\ LinesEnded(text, n, breaks) < LinesEnded(text, j, breaks)}
<1> SUFFICES ASSUME S # {} PROVE FALSE
  BY LinesGrow
<1>1. PICK m \in S : \A y \in S : m <= y
  BY LeastMember
<1>2. m # j
  BY LinesGrow
<1>3. m - 1 \in Nat /\ m - 1 \notin S /\ j <= m - 1 /\ m = (m - 1) + 1
  BY <1>1, <1>2
<1>4. LinesEnded(text, m - 1, breaks) <= LinesEnded(text, m, breaks)
  BY <1>3, LinesGrow
<1> QED
  BY <1>1, <1>3, <1>4, LinesGrow

\* The line an index is in begins at or before it, and the next one behind it.
LEMMA LinesReached ==
  ASSUME NEW text, NEW breaks, NEW n \in Nat, NEW l \in Nat, l <= LinesEnded(text, n, breaks)
  PROVE  \E k \in 0..n : LinesEnded(text, k, breaks) = l
<1> DEFINE S == {k \in Nat : l <= LinesEnded(text, k, breaks)}
<1>1. PICK m \in S : \A y \in S : m <= y
  BY LeastMember
<1>2. m <= n
  BY <1>1
<1>3. CASE m = 0
  BY <1>1, <1>2, <1>3, LinesGrow
<1>4. CASE m # 0
  <2>1. m - 1 \in Nat /\ m - 1 \notin S /\ m = (m - 1) + 1
    BY <1>1, <1>4
  <2>2. LinesEnded(text, m, breaks) <= LinesEnded(text, m - 1, breaks) + 1 /\ LinesEnded(text, m - 1, breaks) \in Nat /\ LinesEnded(text, m, breaks) \in Nat
    BY <2>1, LinesGrow
  <2>3. LinesEnded(text, m, breaks) = l
    BY <1>1, <2>1, <2>2
  <2> QED
    BY <1>2, <2>3
<1> QED
  BY <1>3, <1>4

\* Where a line break is, one more line has ended.
LEMMA BreakEnds ==
  ASSUME NEW text, NEW breaks, NEW k \in Nat \ {0}, text[k] \in breaks
  PROVE  LinesEnded(text, k, breaks) = LinesEnded(text, k - 1, breaks) + 1
<1> DEFINE E(n) == {i \in 1..n : text[i] \in breaks}
<1>1. IsFiniteSet(E(k - 1)) /\ k \notin E(k - 1)
  <2>1. IsFiniteSet(1..(k - 1)) /\ E(k - 1) \in SUBSET (1..(k - 1))
    BY FS_Interval
  <2> QED
    BY <2>1, FS_Subset
<1>2. E(k) = E(k - 1) \cup {k}
  <2>1. 1..k = (1..(k - 1)) \cup {k}
    OBVIOUS
  <2> QED
    BY <2>1
<1>3. Cardinality(E(k)) = Cardinality(E(k - 1)) + 1
  <2> HIDE DEF E
  <2> QED
    BY <1>1, <1>2, FS_AddElement
<1> QED
  BY <1>3 DEF LinesEnded

\* A line begins within the text, before what is in it.
LEMMA StartTyped ==
  ASSUME NEW text, Len(text) \in Nat, NEW breaks, NEW n \in 0..Len(text), NEW l \in Nat,
         l <= LinesEnded(text, n, breaks)
  PROVE  /\ LineStart(text, l, breaks) \in 0..n
         /\ LinesEnded(text, LineStart(text, l, breaks), breaks) = l
         /\ \A k \in 0..Len(text) : LinesEnded(text, k, breaks) = l => LineStart(text, l, breaks) <= k
<1> DEFINE S == {k \in 0..Len(text) : LinesEnded(text, k, breaks) = l}
<1>1. PICK k \in 0..n : LinesEnded(text, k, breaks) = l
  BY LinesReached
<1>2. S \subseteq Nat /\ k \in S
  BY <1>1
<1>3. LineStart(text, l, breaks) = Min(S)
  BY DEF LineStart
<1>4. Min(S) \in S /\ \A y \in S : Min(S) <= y
  <2> HIDE DEF S
  <2> QED
    BY <1>2, LeastMember
<1> QED
  BY <1>1, <1>2, <1>3, <1>4

\* A line has a length, and the next begins behind what is in this one.
LEMMA LengthTyped ==
  ASSUME NEW text, Len(text) \in Nat, NEW l \in Nat, l < Lines(text)
  PROVE  /\ RopeStart(text, l) \in 0..Len(text)
         /\ LineLength(text, l) \in 0..(Len(text) - RopeStart(text, l))
         /\ \A k \in 0..Len(text) :
              LinesEnded(text, k, RopeBreaks) = l => k - RopeStart(text, l) <= LineLength(text, l)
<1> DEFINE all == LinesEnded(text, Len(text), RopeBreaks)
<1>1. all \in Nat /\ Lines(text) = all + 1 /\ Len(text) \in 0..Len(text)
  BY LinesGrow DEF Lines
<1>2. /\ RopeStart(text, l) \in 0..Len(text)
      /\ LinesEnded(text, RopeStart(text, l), RopeBreaks) = l
      /\ \A k \in 0..Len(text) : LinesEnded(text, k, RopeBreaks) = l => RopeStart(text, l) <= k
  <2>1. l <= all
    BY <1>1
  <2> QED
    BY <2>1, <1>1, StartTyped DEF RopeStart
<1>3. CASE l + 1 < Lines(text)
  <2>1. /\ RopeStart(text, l + 1) \in 0..Len(text)
        /\ LinesEnded(text, RopeStart(text, l + 1), RopeBreaks) = l + 1
    <3>1. l + 1 \in Nat /\ l + 1 <= all
      BY <1>1, <1>3
    <3> QED
      BY <3>1, <1>1, StartTyped DEF RopeStart
  <2>2. ASSUME NEW k \in 0..Len(text), LinesEnded(text, k, RopeBreaks) = l
        PROVE  k < RopeStart(text, l + 1)
    BY <2>1, <2>2, LinesMonotone
  <2>3. RopeStart(text, l) < RopeStart(text, l + 1)
    BY <1>2, <2>2
  <2>4. LineLength(text, l) = RopeStart(text, l + 1) - RopeStart(text, l)
    BY <1>3 DEF LineLength
  <2> QED
    BY <1>2, <2>1, <2>2, <2>3, <2>4
<1>4. CASE ~ (l + 1 < Lines(text))
  <2>1. LineLength(text, l) = Len(text) - RopeStart(text, l)
    BY <1>4 DEF LineLength
  <2> QED
    BY <1>2, <2>1
<1> QED
  BY <1>3, <1>4

\* The lesser of two numbers.
LEMMA LesserOfTwo ==
  ASSUME NEW a \in Nat, NEW b \in Nat
  PROVE  Min({a, b}) = IF a <= b THEN a ELSE b
<1> DEFINE T == {a, b}
<1>1. T \subseteq Nat /\ a \in T /\ b \in T /\ \A y \in T : y = a \/ y = b
  OBVIOUS
<1>2. Min(T) \in T /\ \A y \in T : Min(T) <= y
  <2> HIDE DEF T
  <2> QED
    BY <1>1, LeastMember
<1>3. (Min(T) = a \/ Min(T) = b) /\ Min(T) <= a /\ Min(T) <= b
  BY <1>1, <1>2
<1> HIDE DEF T
<1>4. Min(T) = IF a <= b THEN a ELSE b
  BY <1>3
<1> QED
  BY <1>4 DEF T

\* Wherever a position is, if the server's text has its line, it is an index of that text.
LEMMA IndexTyped ==
  ASSUME NEW text, Len(text) \in Nat, NEW at \in Positions, at.line < Lines(text)
  PROVE  Index(text, at) \in 0..Len(text)
<1>1. at.line \in Nat /\ at.character \in Nat
  BY DEF Positions
<1>2. /\ RopeStart(text, at.line) \in 0..Len(text)
      /\ LineLength(text, at.line) \in 0..(Len(text) - RopeStart(text, at.line))
  BY <1>1, LengthTyped
<1>3. Min({at.character, LineLength(text, at.line)}) \in 0..LineLength(text, at.line)
  <2>1. LineLength(text, at.line) \in Nat
    BY <1>2
  <2>2. Min({at.character, LineLength(text, at.line)})
          = IF at.character <= LineLength(text, at.line) THEN at.character ELSE LineLength(text, at.line)
    BY <2>1, <1>1, LesserOfTwo
  <2> QED
    BY <2>1, <2>2, <1>1
<1> QED
  BY <1>2, <1>3 DEF Index

\* What a change makes of a text is a text.
LEMMA AppliedTyped ==
  ASSUME NEW text \in Texts, NEW change \in Changes
  PROVE  Applied(text, change) \in Texts
<1> DEFINE from == Index(text, change.from)
           to == Index(text, change.to)
<1>1. PICK S : Texts = Seq(S)
  BY DEF Texts
<1>2. change.new \in Texts /\ change.from \in Positions /\ change.to \in Positions
  BY DEF Changes
<1>3. CASE change.whole \/ ~ (change.from.line < Lines(text) /\ change.to.line < Lines(text)) \/ to < from
  <2>1. Applied(text, change) = change.new
    BY <1>3 DEF Applied
  <2> QED
    BY <1>2, <2>1
<1>4. CASE ~ change.whole /\ change.from.line < Lines(text) /\ change.to.line < Lines(text) /\ ~ (to < from)
  <2>1. Applied(text, change) = Spliced(text, from, to, change.new)
    BY <1>4 DEF Applied
  <2>2. Len(text) \in Nat
    BY <1>1
  <2>3. from \in 0..Len(text) /\ to \in 0..Len(text)
    BY <1>2, <1>4, <2>2, IndexTyped
  <2> HIDE DEF from, to
  <2>4. SubSeq(text, 1, from) \in Seq(S) /\ SubSeq(text, to + 1, Len(text)) \in Seq(S) /\ change.new \in Seq(S)
    BY <1>1, <1>2, <2>3
  <2>5. SubSeq(text, 1, from) \o change.new \in Seq(S)
    BY <2>4
  <2> QED
    BY <1>1, <2>1, <2>4, <2>5 DEF Spliced
<1> QED
  BY <1>3, <1>4

\* The position of an index is one.
LEMMA PositionTyped ==
  ASSUME NEW text, Len(text) \in Nat, NEW k \in 0..Len(text)
  PROVE  /\ LineStart(text, LinesEnded(text, k, EditorBreaks), EditorBreaks) \in 0..k
         /\ PositionOf(text, k) \in Positions /\ Past(PositionOf(text, k)) \in Positions
<1> DEFINE line == LinesEnded(text, k, EditorBreaks)
           start == LineStart(text, line, EditorBreaks)
           W == {n \in (start + 1)..k : text[n] \in Wide}
<1>1. line \in Nat /\ start \in 0..k
  <2>1. line \in Nat /\ line <= LinesEnded(text, k, EditorBreaks)
    BY LinesGrow
  <2> HIDE DEF line
  <2> QED
    BY <2>1, StartTyped
<1> HIDE DEF line, start
<1>2. IsFiniteSet(W) /\ Cardinality(W) \in Nat
  <2>1. IsFiniteSet((start + 1)..k)
    <3>1. start + 1 \in Int /\ k \in Int
      BY <1>1
    <3> QED
      BY <3>1, FS_Interval
  <2>3. W \in SUBSET ((start + 1)..k)
    OBVIOUS
  <2>2. IsFiniteSet(W)
    BY <2>1, <2>3, FS_Subset
  <2> QED
    BY <2>2, FS_CardinalityType
<1>3. Units(text, start, k) \in Nat
  <2>1. Units(text, start, k) = (k - start) + Cardinality(W)
    BY DEF Units
  <2> HIDE DEF W
  <2> QED
    BY <1>1, <1>2, <2>1
<1>4. PositionOf(text, k) = [line |-> line, character |-> Units(text, start, k)]
  BY DEF PositionOf, line, start
<1>5. PositionOf(text, k) \in Positions
  BY <1>1, <1>3, <1>4 DEF Positions
<1>6. Past(PositionOf(text, k)) \in Positions
  BY <1>5 DEF Past, Positions
<1> QED
  BY <1>1, <1>5, <1>6 DEF line, start

\* Where only the editor's breaks end lines, its lines are the rope's.
LEMMA LinesAlike ==
  ASSUME NEW text, Len(text) \in Nat, NEW k \in 0..Len(text), \A n \in 1..k : text[n] \notin FurtherBreaks
  PROVE  /\ \A j \in 0..k : LinesEnded(text, j, EditorBreaks) = LinesEnded(text, j, RopeBreaks)
         /\ LineStart(text, LinesEnded(text, k, EditorBreaks), EditorBreaks)
              = RopeStart(text, LinesEnded(text, k, RopeBreaks))
<1>1. ASSUME NEW j \in 0..k
      PROVE  LinesEnded(text, j, EditorBreaks) = LinesEnded(text, j, RopeBreaks)
  <2>1. {i \in 1..j : text[i] \in EditorBreaks} = {i \in 1..j : text[i] \in RopeBreaks}
    BY DEF EditorBreaks, RopeBreaks
  <2> QED
    BY <2>1 DEF LinesEnded
<1> DEFINE line == LinesEnded(text, k, RopeBreaks)
<1>2. line \in Nat /\ LinesEnded(text, k, EditorBreaks) = line
  BY <1>1, LinesGrow
<1> HIDE DEF line
<1>3. /\ LineStart(text, line, EditorBreaks) \in 0..k /\ RopeStart(text, line) \in 0..k
      /\ LinesEnded(text, LineStart(text, line, EditorBreaks), EditorBreaks) = line
      /\ LinesEnded(text, RopeStart(text, line), RopeBreaks) = line
      /\ \A i \in 0..Len(text) :
           LinesEnded(text, i, EditorBreaks) = line => LineStart(text, line, EditorBreaks) <= i
      /\ \A i \in 0..Len(text) :
           LinesEnded(text, i, RopeBreaks) = line => RopeStart(text, line) <= i
  <2>1. line <= LinesEnded(text, k, EditorBreaks) /\ line <= LinesEnded(text, k, RopeBreaks)
    BY <1>2 DEF line
  <2> QED
    BY <2>1, <1>2, StartTyped DEF RopeStart
<1>4. LineStart(text, line, EditorBreaks) = RopeStart(text, line)
  <2> DEFINE a == LineStart(text, line, EditorBreaks)
             b == RopeStart(text, line)
  <2>1. LinesEnded(text, a, RopeBreaks) = line /\ LinesEnded(text, b, EditorBreaks) = line
    BY <1>1, <1>3
  <2>2. a \in 0..k /\ b \in 0..k /\ a <= b /\ b <= a
    BY <2>1, <1>3
  <2> HIDE DEF a, b
  <2>3. a = b
    BY <2>2
  <2> QED
    BY <2>3 DEF a, b
<1> QED
  BY <1>1, <1>2, <1>4 DEF line

\* The server finds the index the editor means, if the text before it is plain.
LEMMA PositionsAgree ==
  ASSUME NEW text, Len(text) \in Nat, NEW k \in 0..Len(text), Plain(text, k)
  PROVE  /\ Index(text, PositionOf(text, k)) = k
         /\ PositionOf(text, k).line < Lines(text)
         /\ k = Len(text) => /\ Index(text, Past(PositionOf(text, k))) = k
                             /\ Past(PositionOf(text, k)).line < Lines(text)
<1> DEFINE line == LinesEnded(text, k, RopeBreaks)
           start == RopeStart(text, line)
<1>1. /\ LinesEnded(text, k, EditorBreaks) = line
      /\ LineStart(text, line, EditorBreaks) = start
      /\ \A j \in 0..k : LinesEnded(text, j, EditorBreaks) = LinesEnded(text, j, RopeBreaks)
  BY LinesAlike DEF Plain
<1>2. line \in Nat /\ LinesEnded(text, Len(text), RopeBreaks) \in Nat
      /\ line <= LinesEnded(text, Len(text), RopeBreaks)
  BY LinesGrow, LinesMonotone
<1>3. line < Lines(text)
  BY <1>2 DEF Lines
<1>4. start \in 0..k /\ LinesEnded(text, start, RopeBreaks) = line
  <2>1. line <= LinesEnded(text, k, RopeBreaks)
    BY <1>2
  <2> HIDE DEF line
  <2> QED
    BY <1>2, <2>1, StartTyped DEF RopeStart
<1>5. LineLength(text, line) \in 0..(Len(text) - start) /\ k - start <= LineLength(text, line)
  <2>1. LinesEnded(text, k, RopeBreaks) = line
    OBVIOUS
  <2> HIDE DEF line
  <2> QED
    BY <1>2, <1>3, <2>1, LengthTyped
<1> HIDE DEF line, start
\* A wide character in the line would have a line break behind it, which ends the line before k.
<1>6. {n \in (start + 1)..k : text[n] \in Wide} = {}
  <2> SUFFICES ASSUME NEW n \in (start + 1)..k, text[n] \in Wide PROVE FALSE
    OBVIOUS
  <2>1. n \in 1..k
    BY <1>4
  <2>2. PICK m \in n..k : text[m] = NewLine
    BY <2>1 DEF Plain
  <2>3. m \in Nat \ {0} /\ text[m] \in RopeBreaks /\ start <= m - 1 /\ m <= k /\ m - 1 \in Nat
    BY <1>4, <2>1, <2>2 DEF RopeBreaks
  <2>4. LinesEnded(text, m, RopeBreaks) = LinesEnded(text, m - 1, RopeBreaks) + 1
    BY <2>3, BreakEnds
  <2>5. /\ line <= LinesEnded(text, m - 1, RopeBreaks) /\ LinesEnded(text, m, RopeBreaks) <= line
        /\ LinesEnded(text, m - 1, RopeBreaks) \in Nat
    <3>1. line <= LinesEnded(text, m - 1, RopeBreaks)
      BY <1>4, <2>3, LinesMonotone
    <3>2. LinesEnded(text, m, RopeBreaks) <= LinesEnded(text, k, RopeBreaks)
      BY <2>3, LinesMonotone
    <3> QED
      BY <2>3, <3>1, <3>2, LinesGrow DEF line
  <2> QED
    BY <1>2, <2>4, <2>5
<1>7. Units(text, start, k) = k - start
  <2>1. Units(text, start, k) = (k - start) + Cardinality({})
    BY <1>6 DEF Units
  <2> QED
    BY <1>4, <2>1, FS_EmptySet
<1>8. PositionOf(text, k) = [line |-> line, character |-> k - start]
  BY <1>1, <1>7 DEF PositionOf
<1>9. Min({k - start, LineLength(text, line)}) = k - start
  <2>1. k - start \in Nat /\ LineLength(text, line) \in Nat
    BY <1>4, <1>5
  <2> QED
    BY <1>5, <2>1, LesserOfTwo
<1>10. Index(text, PositionOf(text, k)) = k /\ PositionOf(text, k).line < Lines(text)
  <2>1. Index(text, PositionOf(text, k)) = RopeStart(text, line) + Min({k - start, LineLength(text, line)})
    BY <1>8 DEF Index
  <2>2. RopeStart(text, line) = start
    BY DEF start
  <2> QED
    BY <1>3, <1>4, <1>8, <1>9, <2>1, <2>2
<1>11. ASSUME k = Len(text)
       PROVE  Index(text, Past(PositionOf(text, k))) = k /\ Past(PositionOf(text, k)).line < Lines(text)
  <2>1. Past(PositionOf(text, k)) = [line |-> line, character |-> (k - start) + 1]
    BY <1>8 DEF Past
  <2>2. LineLength(text, line) = k - start /\ k - start \in Nat
    BY <1>4, <1>5, <1>11
  <2>3. Min({(k - start) + 1, LineLength(text, line)}) = k - start
    <3>1. (k - start) + 1 \in Nat /\ ~ ((k - start) + 1 <= k - start)
      BY <2>2
    <3> QED
      BY <2>2, <3>1, LesserOfTwo
  <2>4. Index(text, Past(PositionOf(text, k)))
          = RopeStart(text, line) + Min({(k - start) + 1, LineLength(text, line)})
    BY <2>1 DEF Index
  <2>5. RopeStart(text, line) = start
    BY DEF start
  <2> QED
    BY <1>3, <1>4, <2>1, <2>3, <2>4, <2>5
<1> QED
  BY <1>10, <1>11

\* A change of a range that means the same to both makes of the server's text what the editor
\* made of its own, and does not panic.
LEMMA EditMade ==
  ASSUME NEW text, Len(text) \in Nat, NEW new, NEW past \in BOOLEAN,
         NEW i \in 0..Len(text), NEW j \in 0..Len(text), i <= j, SameForBoth(text, i, j, past)
  PROVE  /\ Applied(text, Ranged(text, i, j, new, past)) = Edited(text, i, j, new)
         /\ ~ Panics(text, Ranged(text, i, j, new, past))
<1> DEFINE change == Ranged(text, i, j, new, past)
<1>1. /\ change.whole = FALSE /\ change.new = new
      /\ change.from = PositionOf(text, i)
      /\ change.to = IF past THEN Past(PositionOf(text, j)) ELSE PositionOf(text, j)
  BY DEF Ranged
<1>2. Plain(text, i) /\ Plain(text, j) /\ (past => j = Len(text))
  BY DEF SameForBoth
<1>3. /\ Index(text, change.from) = i /\ Index(text, change.to) = j
      /\ change.from.line < Lines(text) /\ change.to.line < Lines(text)
  <2>1. /\ Index(text, PositionOf(text, i)) = i /\ PositionOf(text, i).line < Lines(text)
        /\ Index(text, PositionOf(text, j)) = j /\ PositionOf(text, j).line < Lines(text)
        /\ past => /\ Index(text, Past(PositionOf(text, j))) = j
                   /\ Past(PositionOf(text, j)).line < Lines(text)
    BY <1>2, PositionsAgree
  <2> HIDE DEF change
  <2> QED
    BY <1>1, <2>1
<1>4. ~ (j < i)
  OBVIOUS
<1> HIDE DEF change
<1>5. Applied(text, change) = Edited(text, i, j, new)
  <2>1. Applied(text, change) = Spliced(text, i, j, new)
    BY <1>1, <1>3, <1>4 DEF Applied
  <2> QED
    BY <2>1 DEF Spliced, Edited
<1>6. ~ Panics(text, change)
  <2>1. Lines(text) \in Nat /\ change.from.line # Lines(text) /\ change.to.line # Lines(text)
    <3>1. Lines(text) \in Nat
      BY LinesGrow DEF Lines
    <3>2. change.from.line \in Nat /\ change.to.line \in Nat
      <4>1. PositionOf(text, i) \in Positions /\ PositionOf(text, j) \in Positions
            /\ Past(PositionOf(text, j)) \in Positions
        BY PositionTyped
      <4> QED
        BY <1>1, <4>1 DEF Positions
    <3> QED
      BY <1>3, <3>1, <3>2
  <2> QED
    BY <2>1 DEF Panics
<1> QED
  BY <1>5, <1>6 DEF change

\* A change without a range replaces the text.
LEMMA WholeMade ==
  \A text, other, new :
    Applied(text, Whole(other, new)) = new /\ ~ Panics(text, Whole(other, new))
BY DEF Applied, Whole, Panics

\* The editor's changes are typed.
LEMMA ChangesTyped ==
  ASSUME NEW text, Len(text) \in Nat, NEW new \in Texts, NEW past \in BOOLEAN,
         NEW i \in 0..Len(text), NEW j \in 0..Len(text)
  PROVE  Whole(text, new) \in Changes /\ Ranged(text, i, j, new, past) \in Changes
<1>1. /\ PositionOf(text, 0) \in Positions /\ PositionOf(text, i) \in Positions
      /\ PositionOf(text, j) \in Positions /\ Past(PositionOf(text, j)) \in Positions
  BY PositionTyped
<1>2. (IF past THEN Past(PositionOf(text, j)) ELSE PositionOf(text, j)) \in Positions
  BY <1>1
<1> QED
  BY <1>1, <1>2 DEF Changes, Whole, Ranged

\* A notification has one change.
LEMMA OneChange ==
  ASSUME NEW text, NEW change
  PROVE  FoldLeft(Applied, text, <<change>>) = Applied(text, change)
<1> DEFINE Def(g, s) == IF s = {} THEN text ELSE Applied(g[s \ {Max(s)}], <<change>>[Max(s)])
           iter == CHOOSE g : g = [s \in SUBSET {1} |-> Def(g, s)]
           first == [s \in SUBSET {1} |-> IF s = {} THEN text ELSE Applied(text, change)]
<1>1. Max({1}) = 1
  BY DEF Max
<1>2. SUBSET {1} = {{}, {1}}
  OBVIOUS
<1>3. first = [s \in SUBSET {1} |-> Def(first, s)]
  <2>1. first[{}] = Def(first, {})
    BY <1>2
  <2>2. first[{1}] = Def(first, {1})
    BY <1>1, <1>2
  <2> QED
    BY <1>2, <2>1, <2>2
<1>4. iter = [s \in SUBSET {1} |-> Def(iter, s)]
  <2> HIDE DEF first, Def
  <2> QED
    BY <1>3
<1>5. iter[{}] = text /\ iter[{1}] = Def(iter, {1})
  <2> HIDE DEF iter
  <2> QED
    BY <1>2, <1>4
<1>6. Def(iter, {1}) = Applied(iter[{}], change)
  <2> HIDE DEF iter
  <2>1. {1} \ {1} = {} /\ {1} # {} /\ <<change>>[1] = change
    OBVIOUS
  <2>2. Def(iter, {1}) = Applied(iter[{1} \ {Max({1})}], <<change>>[Max({1})])
    BY <2>1
  <2> QED
    BY <1>1, <2>1, <2>2
<1>7. DOMAIN <<change>> = {1}
  OBVIOUS
<1>8. FoldLeft(Applied, text, <<change>>) = iter[{1}]
  BY <1>7 DEF FoldLeft, MapThenFoldSet
<1> QED
  BY <1>5, <1>6, <1>8

\* No change leaves the text as it is.
LEMMA NoChange ==
  ASSUME NEW text
  PROVE  FoldLeft(Applied, text, <<>>) = text
<1> DEFINE Def(g, s) == IF s = {} THEN text ELSE Applied(g[s \ {Max(s)}], <<>>[Max(s)])
           iter == CHOOSE g : g = [s \in SUBSET {} |-> Def(g, s)]
           first == [s \in SUBSET {} |-> text]
<1>1. SUBSET {} = {{}}
  OBVIOUS
<1>2. first = [s \in SUBSET {} |-> Def(first, s)]
  BY <1>1
<1>3. iter = [s \in SUBSET {} |-> Def(iter, s)]
  <2> HIDE DEF first, Def
  <2> QED
    BY <1>2
<1>4. iter[{}] = text
  <2> HIDE DEF iter
  <2> QED
    BY <1>1, <1>3
<1>5. DOMAIN <<>> = {}
  OBVIOUS
<1>6. FoldLeft(Applied, text, <<>>) = iter[{}]
  BY <1>5 DEF FoldLeft, MapThenFoldSet
<1> QED
  BY <1>4, <1>6

\* So the message of one change becomes what that change makes of the text.
LEMMA ChangeBecomes ==
  ASSUME NEW text, NEW change, NEW m, m.changes = <<change>>,
         Applied(text, change) = m.text, ~ Panics(text, change)
  PROVE  Becomes(text, m)
<1>1. FoldLeft(Applied, text, m.changes) = m.text
  BY OneChange
<1>2. DOMAIN m.changes = {1} /\ m.changes[1] = change /\ SubSeq(m.changes, 1, 1 - 1) = <<>>
  OBVIOUS
<1>3. ~ Panics(FoldLeft(Applied, text, SubSeq(m.changes, 1, 1 - 1)), m.changes[1])
  BY <1>2, NoChange
<1> QED
  BY <1>1, <1>2, <1>3 DEF Becomes

\* Whatever a message makes of a text is a text.
LEMMA ChangedTyped ==
  ASSUME NEW text \in Texts, NEW changes \in {<<>>} \cup {<<change>> : change \in Changes}
  PROVE  FoldLeft(Applied, text, changes) \in Texts
<1>1. CASE changes = <<>>
  BY <1>1, NoChange
<1>2. CASE changes # <<>>
  <2>1. PICK change \in Changes : changes = <<change>>
    BY <1>2
  <2>2. FoldLeft(Applied, text, changes) = Applied(text, change)
    BY <2>1, OneChange
  <2> QED
    BY <2>2, AppliedTyped
<1> QED
  BY <1>1, <1>2

-----------------------------------------------------------------------------
\* What Append and Tail do to a queue.
LEMMA Queued ==
  ASSUME NEW S, NEW queue \in Seq(S), NEW e \in S
  PROVE  /\ Append(queue, e) \in Seq(S) /\ Len(queue) \in Nat
         /\ Len(Append(queue, e)) = Len(queue) + 1
         /\ Append(queue, e)[Len(queue) + 1] = e
         /\ \A i \in 1..Len(queue) : Append(queue, e)[i] = queue[i] /\ queue[i] \in S
OBVIOUS

LEMMA Taken ==
  ASSUME NEW S, NEW queue \in Seq(S), queue # <<>>
  PROVE  /\ Tail(queue) \in Seq(S) /\ Head(queue) \in S /\ Head(queue) = queue[1]
         /\ Len(queue) \in Nat \ {0} /\ Len(Tail(queue)) = Len(queue) - 1
         /\ \A i \in 1..Len(Tail(queue)) : Tail(queue)[i] = queue[i + 1] /\ i + 1 \in 1..Len(queue)
OBVIOUS

\* A queue leads on with what is appended, and its head is the first step.
LEMMA LeadsNowhere ==
  ASSUME NEW Steps, NEW from \in States
  PROVE  Leads(Steps, from, <<>>, from)
<1> DEFINE past == [i \in 0..0 |-> from]
<1>1. past \in [0..Len(<<>>) -> States] /\ past[0] = from /\ past[Len(<<>>)] = from
  OBVIOUS
<1>2. \A i \in 1..Len(<<>>) : <<past[i - 1], <<>>[i], past[i]>> \in Steps
  OBVIOUS
<1> QED
  BY <1>1, <1>2 DEF Leads

LEMMA LeadsEmpty ==
  ASSUME NEW Steps, NEW from, NEW to, Leads(Steps, from, <<>>, to)
  PROVE  from = to
BY DEF Leads

LEMMA LeadsOn ==
  ASSUME NEW Steps, NEW S, NEW queue \in Seq(S), NEW e \in S,
         NEW from, NEW middle, NEW to \in States,
         Leads(Steps, from, queue, middle), <<middle, e, to>> \in Steps
  PROVE  Leads(Steps, from, Append(queue, e), to)
<1> DEFINE n == Len(queue)
<1>1. PICK past \in [0..n -> States] :
        /\ past[0] = from /\ past[n] = middle
        /\ \A i \in 1..n : <<past[i - 1], queue[i], past[i]>> \in Steps
  BY DEF Leads
<1>2. n \in Nat /\ Len(Append(queue, e)) = n + 1
  OBVIOUS
<1> DEFINE now == [i \in 0..(n + 1) |-> IF i = n + 1 THEN to ELSE past[i]]
<1> HIDE DEF n
<1>3. now \in [0..(n + 1) -> States] /\ now[0] = from /\ now[n + 1] = to
  BY <1>1, <1>2
<1>4. ASSUME NEW i \in 1..(n + 1) PROVE <<now[i - 1], Append(queue, e)[i], now[i]>> \in Steps
  <2>1. CASE i = n + 1
    <3>1. now[i] = to /\ i - 1 = n /\ now[n] = past[n]
      BY <2>1, <1>2
    <3>2. Append(queue, e)[i] = e
      BY <2>1 DEF n
    <3> HIDE DEF now
    <3> QED
      BY <3>1, <3>2, <1>1
  <2>2. CASE i # n + 1
    <3>1. i \in 1..n /\ i - 1 \in 0..n /\ now[i] = past[i] /\ now[i - 1] = past[i - 1]
      BY <2>2, <1>2
    <3>2. Append(queue, e)[i] = queue[i]
      BY <3>1 DEF n
    <3> QED
      BY <3>1, <3>2, <1>1
  <2> QED
    BY <2>1, <2>2
<1> HIDE DEF now
<1> QED
  BY <1>2, <1>3, <1>4 DEF Leads

LEMMA LeadsAway ==
  ASSUME NEW Steps, NEW S, NEW queue \in Seq(S), queue # <<>>, NEW from, NEW to,
         Leads(Steps, from, queue, to)
  PROVE  \E middle \in States :
           <<from, Head(queue), middle>> \in Steps /\ Leads(Steps, middle, Tail(queue), to)
<1> DEFINE n == Len(queue)
<1>1. PICK past \in [0..n -> States] :
        /\ past[0] = from /\ past[n] = to
        /\ \A i \in 1..n : <<past[i - 1], queue[i], past[i]>> \in Steps
  BY DEF Leads
<1>2. n \in Nat \ {0} /\ Len(Tail(queue)) = n - 1 /\ Head(queue) = queue[1]
  OBVIOUS
<1> DEFINE now == [i \in 0..(n - 1) |-> past[i + 1]]
<1>3. <<from, Head(queue), past[1]>> \in Steps /\ past[1] \in States
  BY <1>1, <1>2
<1>4. \A i \in 1..(n - 1) : Tail(queue)[i] = queue[i + 1]
  OBVIOUS
<1> HIDE DEF n
<1>5. now \in [0..(n - 1) -> States] /\ now[0] = past[1] /\ now[n - 1] = to
  BY <1>1, <1>2
<1>6. ASSUME NEW i \in 1..(n - 1) PROVE <<now[i - 1], Tail(queue)[i], now[i]>> \in Steps
  <2>1. i + 1 \in 1..n /\ now[i] = past[i + 1] /\ now[i - 1] = past[i] /\ (i + 1) - 1 = i
    BY <1>2
  <2> QED
    BY <2>1, <1>1, <1>4
<1> HIDE DEF now
<1>7. Leads(Steps, past[1], Tail(queue), to)
  BY <1>2, <1>5, <1>6 DEF Leads
<1> QED
  BY <1>3, <1>7

-----------------------------------------------------------------------------
USE BoundsAssumption, TextsAssumption

\* What is said of a document is a state again.
LEMMA SaidTyped ==
  ASSUME NEW state \in ServerStates, NEW u \in Uris, NEW of \in Nat, NEW text \in Texts \cup {NoText}
  PROVE  Said(state, u, of, text) \in ServerStates
BY DEF Said, ServerStates

LEMMA ToldTyped ==
  ASSUME NEW state \in EditorStates, NEW m \in Tasks
  PROVE  Told(state, m) \in EditorStates
<1>1. m.uri \in Uris /\ m.of \in Nat /\ m.text \in Texts \cup {NoText} /\ m.sure \in BOOLEAN
  BY DEF Tasks
<1>2. [of |-> m.of, text |-> m.text, sure |-> m.sure] \in [of : Nat, text : Texts \cup {NoText}, sure : BOOLEAN]
  BY <1>1
<1> QED
  BY <1>1, <1>2 DEF Told, EditorStates

LEMMA Initially == Init => Inductive
<1> SUFFICES ASSUME Init PROVE Inductive
  OBVIOUS
<1>1. view \in EditorStates /\ shown \in ServerStates /\ view \in States /\ shown \in States
  BY DEF Init, States, EditorStates, ServerStates
<1>2. Typed
  <2>1. <<>> \in Seq(Tasks) /\ <<>> \in Seq(Reports) /\ <<>> \in Seq(Responses)
    OBVIOUS
  <2>2. /\ sent \in Nat /\ unseen \in SUBSET (1..sent) /\ paced \in BOOLEAN
        /\ stopped \in {"no", "blocked", "panicked"}
    BY DEF Init
  <2> QED
    BY <1>1, <2>1, <2>2 DEF Init, Typed
<1>3. InStep
  <2>1. documents = [u \in Uris |-> Kept(shown[u])] /\ Agrees(shown, view)
    BY DEF Init, Kept, Agrees
  <2>2. Explained(view, view, shown)
    BY <1>1, <2>1, LeadsNowhere DEF Init, Explained
  <2> QED
    BY <1>1, <2>2 DEF InStep
<1>4. Cardinality(unseen) <= 2
  BY FS_EmptySet DEF Init
<1> QED
  BY <1>2, <1>3, <1>4 DEF Init, Inductive, DiagnosesText, AnswersOfText, LocksHeld, Numbered, Unprinted,
     Pacing, SafeWhenPaced

-----------------------------------------------------------------------------
\* The editor.

LEMMA MessagesTyped ==
  ASSUME NEW kind \in Notices \cup {"ask", "resumed"}, NEW u \in Uris, NEW of \in Nat,
         NEW text \in Texts \cup {NoText}, NEW sure \in BOOLEAN, NEW holds \in {"none", "read"},
         NEW changes \in {<<>>} \cup {<<change>> : change \in Changes}
  PROVE  Task(kind, u, of, text, sure, changes, holds) \in Tasks
<1> PICK C : C = {<<>>} \cup {<<change>> : change \in Changes}
  OBVIOUS
<1>1. changes \in C /\ Tasks = [kind : Notices \cup {"ask", "resumed"}, uri : Uris, of : Nat,
                                text : Texts \cup {NoText}, sure : BOOLEAN, changes : C,
                                holds : {"none", "read"}]
  BY DEF Tasks
<1> QED
  BY <1>1 DEF Task

\* A notification that means the same to the text before it, if it is sure.
LEMMA Notifies ==
  ASSUME Inductive, NEW kind \in Notices, NEW u \in Uris, NEW text \in Texts \cup {NoText},
         NEW sure \in BOOLEAN, NEW changes \in {<<>>} \cup {<<change>> : change \in Changes},
         kind = "close" <=> text = NoText,
         kind \in {"open", "close"} => sure,
         kind = "change" =>
           /\ view[u].text \in Texts
           /\ sure => Meant(view[u], Message(kind, u, sent + 1, text, sure, changes)),
         Notify(kind, u, text, sure, changes)
  PROVE  Inductive'
<1> DEFINE m == Message(kind, u, sent + 1, text, sure, changes)
<1>0. Typed /\ sent \in Nat /\ inbox \in Seq(Tasks) /\ view \in EditorStates
  BY DEF Inductive, Typed
<1>1. /\ m \in Tasks /\ m.kind = kind /\ m.uri = u /\ m.of = sent + 1 /\ m.text = text
      /\ m.sure = sure /\ m.holds = "none"
  <2>1. m \in Tasks
    BY <1>0, MessagesTyped DEF Message, Notices
  <2> QED
    BY <2>1 DEF Message, Task
<1>2. /\ sent' = sent + 1 /\ unseen' = unseen \cup {sent + 1}
      /\ paced' = (paced /\ Cardinality(unseen') <= 2)
      /\ view' = Told(view, m)
      /\ inbox' = Append(inbox, m)
      /\ shown' = shown /\ documents' = documents /\ ready' = ready /\ parked' = parked
      /\ out' = out /\ answers' = answers /\ stopped' = stopped
  BY <1>1 DEF Notify, Told
<1>meant. kind = "change" => view[u].text \in Texts /\ (sure => Meant(view[u], m))
  OBVIOUS
<1> HIDE DEF m
<1>3. /\ inbox' \in Seq(Tasks) /\ Len(inbox) \in Nat /\ Len(inbox') = Len(inbox) + 1
      /\ inbox'[Len(inbox) + 1] = m /\ \A i \in 1..Len(inbox) : inbox'[i] = inbox[i]
  BY <1>0, <1>1, <1>2, Queued
<1>4. view' \in EditorStates
  BY <1>0, <1>1, <1>2, ToldTyped
<1>5. Typed'
  <2>1. unseen' \in SUBSET (1..sent')
    BY <1>0, <1>2 DEF Typed
  <2> QED
    BY <1>0, <1>2, <1>3, <1>4, <2>1 DEF Typed
<1>6. InStep'
  <2>1. PICK told \in EditorStates, read \in EditorStates, made \in ServerStates :
          Explained(told, read, made)
    BY DEF Inductive, InStep
  <2>2. <<view, m, view'>> \in TaskSteps
    <3>1. Tells(view, m, view')
      BY <1>1, <1>2, <1>meant DEF Tells
    <3> QED
      BY <3>1, <1>0, <1>1, <1>4 DEF TaskSteps
  <2>3. Leads(TaskSteps, read, inbox', view')
    BY <2>1, <2>2, <1>0, <1>1, <1>2, <1>4, LeadsOn DEF Explained, States
  <2>4. Explained(told, read, made)'
    BY <2>1, <2>3, <1>2 DEF Explained
  <2> QED
    BY <2>4 DEF InStep
<1>7. DiagnosesText' /\ AnswersOfText'
  BY <1>2 DEF Inductive, DiagnosesText, AnswersOfText
<1>8. LocksHeld'
  BY <1>1, <1>2, <1>3 DEF Inductive, LocksHeld, Notices
<1>9. Numbered'
  <2>1. /\ \A i \in 1..Len(inbox) : inbox[i].kind \in Notices => inbox[i].of < sent + 1 /\ inbox[i].of \in Nat
        /\ \A i \in 1..Len(ready) : ready[i].kind \in Notices => ready[i].of < sent + 1
        /\ \A i \in 1..Len(out) : out[i].due < sent + 1
    <3>1. \A n \in unseen : n < sent + 1 /\ n \in Nat
      BY <1>0 DEF Typed
    <3> QED
      BY <3>1 DEF Inductive, Numbered, Unprinted
  <2>2. Unprinted(ready)'
    BY <1>2 DEF Inductive, Numbered, Unprinted
  <2>3. Unprinted(inbox)'
    <3>1. ASSUME NEW i \in 1..Len(inbox'), inbox'[i].kind \in Notices PROVE inbox'[i].of \in unseen'
      BY <3>1, <1>1, <1>2, <1>3 DEF Inductive, Numbered, Unprinted
    <3>2. ASSUME NEW i \in 1..Len(inbox'), NEW j \in 1..Len(inbox'), i < j,
                 inbox'[i].kind \in Notices, inbox'[j].kind \in Notices
          PROVE  inbox'[i].of < inbox'[j].of
      <4>1. i \in 1..Len(inbox) /\ inbox'[i] = inbox[i]
        BY <3>2, <1>3
      <4>2. CASE j = Len(inbox) + 1
        BY <4>1, <4>2, <3>2, <2>1, <1>1, <1>3
      <4>3. CASE j \in 1..Len(inbox)
        BY <4>1, <4>3, <3>2, <1>3 DEF Inductive, Numbered, Unprinted
      <4> QED
        BY <4>2, <4>3, <1>3
    <3> QED
      BY <3>1, <3>2 DEF Unprinted
  <2>4. \A i \in 1..Len(out), j \in 1..Len(inbox') : inbox'[j].kind \in Notices => out[i].due < inbox'[j].of
    <3> SUFFICES ASSUME NEW i \in 1..Len(out), NEW j \in 1..Len(inbox'), inbox'[j].kind \in Notices
                 PROVE out[i].due < inbox'[j].of
      OBVIOUS
    <3>1. CASE j = Len(inbox) + 1
      BY <3>1, <2>1, <1>1, <1>3
    <3>2. CASE j \in 1..Len(inbox)
      BY <3>2, <1>3 DEF Inductive, Numbered
    <3> QED
      BY <3>1, <3>2, <1>3
  <2>5. \A i \in 1..Len(ready), j \in 1..Len(inbox') :
          ready[i].kind \in Notices /\ inbox'[j].kind \in Notices => ready[i].of < inbox'[j].of
    <3> SUFFICES ASSUME NEW i \in 1..Len(ready), NEW j \in 1..Len(inbox'),
                        ready[i].kind \in Notices, inbox'[j].kind \in Notices
                 PROVE ready[i].of < inbox'[j].of
      OBVIOUS
    <3>1. CASE j = Len(inbox) + 1
      BY <3>1, <2>1, <1>1, <1>3
    <3>2. CASE j \in 1..Len(inbox)
      BY <3>2, <1>3 DEF Inductive, Numbered
    <3> QED
      BY <3>1, <3>2, <1>3
  <2> QED
    BY <2>2, <2>3, <2>4, <2>5, <1>2 DEF Inductive, Numbered
<1>10. Pacing' /\ SafeWhenPaced'
  BY <1>2 DEF Inductive, Pacing, SafeWhenPaced
<1> QED
  BY <1>5, <1>6, <1>7, <1>8, <1>9, <1>10 DEF Inductive

\* The editor's own actions are such notifications.
LEMMA EditorNotifies ==
  ASSUME Inductive, NEW u \in Uris, Open(u) \/ Replace(u) \/ Edit(u) \/ Close(u)
  PROVE  Inductive'
<1>1. /\ view[u].text \in Texts \cup {NoText} /\ view[u].sure \in BOOLEAN /\ NoText \notin Texts
      /\ Opened \subseteq Texts /\ Inserted \subseteq Texts
  BY DEF Inductive, Typed, EditorStates
<1>2. CASE Open(u)
  <2>1. PICK text \in Opened : Notify("open", u, text, TRUE, <<>>)
    BY <1>2 DEF Open
  <2> QED
    BY <1>1, <2>1, Notifies DEF Notices
<1>3. CASE Close(u)
  <2>1. Notify("close", u, NoText, TRUE, <<>>)
    BY <1>3 DEF Close
  <2> QED
    BY <1>1, <2>1, Notifies DEF Notices
<1>4. CASE Replace(u)
  <2>1. PICK new \in Opened : Notify("change", u, new, TRUE, <<Whole(view[u].text, new)>>)
    BY <1>4 DEF Replace
  <2>2. view[u].text \in Texts
    BY <1>1, <1>4 DEF Replace, IsOpen
  <2>3. PICK whole : whole = Whole(view[u].text, new)
    OBVIOUS
  <2>4. whole \in Changes
    <3>1. Len(view[u].text) \in Nat /\ 0 \in 0..Len(view[u].text) /\ new \in Texts
      BY <1>1, <2>2 DEF Texts
    <3> QED
      BY <3>1, <2>3, ChangesTyped
  <2> DEFINE m == Message("change", u, sent + 1, new, TRUE, <<whole>>)
  <2>5. Meant(view[u], m)
    <3>1. m.changes = <<whole>> /\ m.text = new
      BY DEF Message, Task
    <3>2. \A text : Applied(text, whole) = new /\ ~ Panics(text, whole)
      BY <2>3, WholeMade
    <3> HIDE DEF m
    <3>3. \A text \in Texts : Becomes(text, m)
      BY <3>1, <3>2, ChangeBecomes
    <3> QED
      BY <3>3 DEF Meant
  <2>6. PICK made : made = <<whole>>
    OBVIOUS
  <2>7. /\ made \in {<<>>} \cup {<<change>> : change \in Changes}
        /\ Notify("change", u, new, TRUE, made)
        /\ Meant(view[u], Message("change", u, sent + 1, new, TRUE, made))
    BY <2>1, <2>3, <2>4, <2>5, <2>6
  <2> QED
    BY <1>1, <2>2, <2>7, Notifies DEF Notices
<1>5. CASE Edit(u)
  <2>1. view[u].text \in Texts
    BY <1>1, <1>5 DEF Edit, IsOpen
  <2> DEFINE old == view[u].text
  <2>2. PICK new \in Inserted, i \in 0..Len(old), j \in 0..Len(old), past \in BOOLEAN :
          /\ i <= j
          /\ Notify("change", u, Edited(old, i, j, new),
                    view[u].sure /\ SameForBoth(old, i, j, past), <<Ranged(old, i, j, new, past)>>)
    BY <1>5 DEF Edit
  <2>3. PICK now, ranged, sure :
          /\ now = Edited(old, i, j, new) /\ ranged = Ranged(old, i, j, new, past)
          /\ sure = (view[u].sure /\ SameForBoth(old, i, j, past))
    OBVIOUS
  <2>4. Len(old) \in Nat /\ i \in Nat /\ j \in Nat /\ new \in Texts
    BY <1>1, <2>1 DEF Texts
  <2> HIDE DEF old
  <2>5. now \in Texts
    <3>1. PICK S : Texts = Seq(S)
      BY DEF Texts
    <3>2. SubSeq(old, 1, i) \in Seq(S) /\ SubSeq(old, j + 1, Len(old)) \in Seq(S) /\ new \in Seq(S)
      BY <2>1, <2>4, <3>1 DEF old
    <3>3. SubSeq(old, 1, i) \o new \in Seq(S)
      BY <3>2
    <3> QED
      BY <2>3, <3>1, <3>2, <3>3 DEF Edited
  <2>6. ranged \in Changes
    BY <2>3, <2>4, ChangesTyped
  <2>7. sure \in BOOLEAN
    BY <2>3
  <2> DEFINE m == Message("change", u, sent + 1, now, sure, <<ranged>>)
  <2>8. ASSUME sure PROVE Meant(view[u], m)
    <3>1. m.changes = <<ranged>> /\ m.text = now
      BY DEF Message, Task
    <3>2. view[u].sure /\ SameForBoth(old, i, j, past)
      BY <2>3, <2>8
    <3>3. Applied(old, ranged) = now /\ ~ Panics(old, ranged)
      BY <2>2, <2>3, <2>4, <3>2, EditMade
    <3> HIDE DEF m
    <3>4. Becomes(old, m)
      BY <3>1, <3>3, ChangeBecomes
    <3> QED
      BY <3>2, <3>4 DEF Meant, old
  <2>9. PICK made : made = <<ranged>>
    OBVIOUS
  <2>10. /\ made \in {<<>>} \cup {<<change>> : change \in Changes}
         /\ Notify("change", u, now, sure, made)
         /\ sure => Meant(view[u], Message("change", u, sent + 1, now, sure, made))
         /\ now \in Texts \cup {NoText} /\ now # NoText
    BY <1>1, <2>2, <2>3, <2>5, <2>6, <2>8, <2>9
  <2> QED
    BY <2>1, <2>7, <2>10, Notifies DEF Notices
<1> QED
  BY <1>2, <1>3, <1>4, <1>5

LEMMA EditorAsks ==
  ASSUME Inductive, NEW u \in Uris, Ask(u)
  PROVE  Inductive'
<1> DEFINE m == Message("ask", u, 0, view[u].text, view[u].sure, <<>>)
<1>0. /\ Typed /\ inbox \in Seq(Tasks) /\ view \in EditorStates /\ view[u].text \in Texts
      /\ view[u].sure \in BOOLEAN
  BY DEF Inductive, Typed, Ask, IsOpen, EditorStates
<1>1. /\ m \in Tasks /\ m.kind = "ask" /\ m.uri = u /\ m.text = view[u].text
      /\ m.sure = view[u].sure /\ m.holds = "none" /\ m.kind \notin Notices
  <2>1. m \in Tasks
    BY <1>0, MessagesTyped DEF Message, Notices
  <2> QED
    BY <2>1 DEF Message, Task, Notices
<1>2. /\ inbox' = Append(inbox, m) /\ sent' = sent /\ unseen' = unseen /\ paced' = paced
      /\ view' = view /\ shown' = shown /\ documents' = documents /\ ready' = ready
      /\ parked' = parked /\ out' = out /\ answers' = answers /\ stopped' = stopped
  BY DEF Ask, editor
<1> HIDE DEF m
<1>3. /\ inbox' \in Seq(Tasks) /\ Len(inbox) \in Nat /\ Len(inbox') = Len(inbox) + 1
      /\ inbox'[Len(inbox) + 1] = m /\ \A i \in 1..Len(inbox) : inbox'[i] = inbox[i]
  BY <1>0, <1>1, <1>2, Queued
<1>4. Typed'
  BY <1>0, <1>2, <1>3 DEF Typed
<1>5. InStep'
  <2>1. PICK told \in EditorStates, read \in EditorStates, made \in ServerStates :
          Explained(told, read, made)
    BY DEF Inductive, InStep
  <2>2. <<view, m, view>> \in TaskSteps
    BY <1>0, <1>1 DEF TaskSteps, Tells
  <2>3. Leads(TaskSteps, read, inbox', view')
    BY <2>1, <2>2, <1>0, <1>1, <1>2, LeadsOn DEF Explained, States
  <2>4. Explained(told, read, made)'
    BY <2>1, <2>3, <1>2 DEF Explained
  <2> QED
    BY <2>4 DEF InStep
<1>6. DiagnosesText' /\ AnswersOfText' /\ Pacing' /\ SafeWhenPaced'
  BY <1>2 DEF Inductive, DiagnosesText, AnswersOfText, Pacing, SafeWhenPaced
<1>7. LocksHeld'
  BY <1>1, <1>2, <1>3 DEF Inductive, LocksHeld
<1>8. Numbered'
  <2>1. \A i \in 1..Len(inbox') :
          inbox'[i].kind \in Notices => i \in 1..Len(inbox) /\ inbox'[i] = inbox[i]
    BY <1>1, <1>3
  <2> QED
    BY <2>1, <1>2 DEF Inductive, Numbered, Unprinted
<1> QED
  BY <1>4, <1>5, <1>6, <1>7, <1>8 DEF Inductive

-----------------------------------------------------------------------------
\* The server's thread.

LEMMA Starts ==
  ASSUME Inductive, Start
  PROVE  Inductive'
<1> DEFINE m == Head(inbox)
           n == Len(ready) + 1
<1>1. /\ inbox # <<>> /\ ready' = Append(ready, m) /\ inbox' = Tail(inbox)
      /\ sent' = sent /\ unseen' = unseen /\ paced' = paced
      /\ view' = view /\ shown' = shown /\ documents' = documents
      /\ parked' = parked /\ out' = out /\ answers' = answers /\ stopped' = stopped
      /\ stopped' = "no"
  BY DEF Start, Polling, editor
<1>2. Typed /\ inbox \in Seq(Tasks) /\ ready \in Seq(Tasks) /\ m \in Tasks
  BY <1>1 DEF Inductive, Typed
<1>3. /\ inbox' \in Seq(Tasks) /\ Len(inbox) \in Nat \ {0} /\ Len(inbox') = Len(inbox) - 1 /\ m = inbox[1]
      /\ \A i \in 1..Len(inbox') : inbox'[i] = inbox[i + 1] /\ i + 1 \in 1..Len(inbox)
  BY <1>1, <1>2, Taken
<1>4. /\ ready' \in Seq(Tasks) /\ Len(ready) \in Nat /\ Len(ready') = n /\ ready'[n] = m
      /\ \A i \in 1..Len(ready) : ready'[i] = ready[i]
  BY <1>1, <1>2, Queued
<1>5. m.kind # "resumed" /\ m.holds = "none" /\ 1 \in 1..Len(inbox)
  BY <1>3 DEF Inductive, LocksHeld
<1> HIDE DEF m
<1>6. Typed'
  BY <1>1, <1>2, <1>3, <1>4 DEF Typed
<1>7. InStep'
  <2>1. PICK told \in EditorStates, read \in EditorStates, made \in ServerStates :
          Explained(told, read, made)
    BY DEF Inductive, InStep
  <2>2. PICK next \in States :
          <<read, m, next>> \in TaskSteps /\ Leads(TaskSteps, next, inbox', view)
    BY <2>1, <1>1, <1>2, LeadsAway DEF m, Explained
  <2>3. Leads(TaskSteps, told, ready', next) /\ next \in EditorStates
    <3>1. next \in EditorStates
      BY <2>2 DEF TaskSteps
    <3> QED
      BY <3>1, <2>1, <2>2, <1>1, <1>2, LeadsOn DEF Explained
  <2>4. Explained(told, next, made)'
    BY <2>1, <2>2, <2>3, <1>1 DEF Explained
  <2> QED
    BY <2>3, <2>4 DEF InStep
<1>8. DiagnosesText' /\ AnswersOfText' /\ SafeWhenPaced'
  BY <1>1 DEF Inductive, DiagnosesText, AnswersOfText, SafeWhenPaced
<1>9. LocksHeld'
  <2>1. \A i \in 1..Len(ready') : i = n \/ i \in 1..Len(ready)
    BY <1>4
  <2>2. \A i \in 1..Len(ready') : ready'[i].kind # "resumed" => ready'[i].holds = "none"
    BY <2>1, <1>4, <1>5 DEF Inductive, LocksHeld
  <2>3. \A i \in 1..Len(inbox') : inbox'[i].kind # "resumed" /\ inbox'[i].holds = "none"
    BY <1>3 DEF Inductive, LocksHeld
  <2> QED
    BY <2>2, <2>3, <1>1 DEF Inductive, LocksHeld
<1>10. Pacing'
  <2>1. ASSUME paced, NEW i \in 1..Len(ready'), NEW j \in 1..Len(ready'), i < j,
               ready'[i].kind \in Notices
        PROVE  ready'[j].kind # "resumed"
    <3>1. i \in 1..Len(ready) /\ ready'[i] = ready[i]
      BY <2>1, <1>4
    <3>2. CASE j = n
      BY <3>2, <1>4, <1>5
    <3>3. CASE j \in 1..Len(ready)
      BY <2>1, <3>1, <3>3, <1>4 DEF Inductive, Pacing
    <3> QED
      BY <3>2, <3>3, <1>4
  <2> QED
    BY <2>1, <1>1 DEF Inductive, Pacing
<1>11. Numbered'
  <2>1. Unprinted(inbox)'
    BY <1>1, <1>3 DEF Inductive, Numbered, Unprinted
  <2>2. Unprinted(ready)'
    <3>1. ASSUME NEW i \in 1..Len(ready'), ready'[i].kind \in Notices PROVE ready'[i].of \in unseen'
      BY <3>1, <1>1, <1>3, <1>4, <1>5 DEF Inductive, Numbered, Unprinted
    <3>2. ASSUME NEW i \in 1..Len(ready'), NEW j \in 1..Len(ready'), i < j,
                 ready'[i].kind \in Notices, ready'[j].kind \in Notices
          PROVE  ready'[i].of < ready'[j].of
      <4>1. i \in 1..Len(ready) /\ ready'[i] = ready[i]
        BY <3>2, <1>4
      <4>2. CASE j = n
        BY <4>1, <4>2, <3>2, <1>3, <1>4, <1>5 DEF Inductive, Numbered
      <4>3. CASE j \in 1..Len(ready)
        BY <4>1, <4>3, <3>2, <1>4 DEF Inductive, Numbered, Unprinted
      <4> QED
        BY <4>2, <4>3, <1>4
    <3> QED
      BY <3>1, <3>2 DEF Unprinted
  <2>3. \A i \in 1..Len(out), j \in 1..Len(ready') : ready'[j].kind \in Notices => out[i].due < ready'[j].of
    <3> SUFFICES ASSUME NEW i \in 1..Len(out), NEW j \in 1..Len(ready'), ready'[j].kind \in Notices
                 PROVE out[i].due < ready'[j].of
      OBVIOUS
    <3>1. CASE j = n
      BY <3>1, <1>3, <1>4, <1>5 DEF Inductive, Numbered
    <3>2. CASE j \in 1..Len(ready)
      BY <3>2, <1>4 DEF Inductive, Numbered
    <3> QED
      BY <3>1, <3>2, <1>4
  <2>4. \A i \in 1..Len(ready'), j \in 1..Len(inbox') :
          ready'[i].kind \in Notices /\ inbox'[j].kind \in Notices => ready'[i].of < inbox'[j].of
    <3> SUFFICES ASSUME NEW i \in 1..Len(ready'), NEW j \in 1..Len(inbox'),
                        ready'[i].kind \in Notices, inbox'[j].kind \in Notices
                 PROVE ready'[i].of < inbox'[j].of
      OBVIOUS
    <3>0. j + 1 \in 1..Len(inbox) /\ inbox'[j] = inbox[j + 1] /\ 1 < j + 1
      BY <1>3
    <3>1. CASE i = n
      BY <3>0, <3>1, <1>3, <1>4, <1>5 DEF Inductive, Numbered, Unprinted
    <3>2. CASE i \in 1..Len(ready)
      BY <3>0, <3>2, <1>4 DEF Inductive, Numbered
    <3> QED
      BY <3>1, <3>2, <1>4
  <2>5. \A i \in 1..Len(out), j \in 1..Len(inbox') : inbox'[j].kind \in Notices => out[i].due < inbox'[j].of
    BY <1>3 DEF Inductive, Numbered
  <2> QED
    BY <2>1, <2>2, <2>3, <2>4, <2>5, <1>1 DEF Inductive, Numbered
<1> QED
  BY <1>6, <1>7, <1>8, <1>9, <1>10, <1>11 DEF Inductive

\* When a handler goes, the head of the queue does, and the rest is as it was.
LEMMA HandlerGone ==
  ASSUME Inductive, ready # <<>>, ready' = Tail(ready), inbox' = inbox, out' = out,
         parked' = parked, unseen' = unseen, sent' = sent, paced' = paced
  PROVE  LocksHeld' /\ Numbered' /\ Pacing'
<1>1. ready \in Seq(Tasks)
  BY DEF Inductive, Typed
<1>2. /\ ready' \in Seq(Tasks) /\ Len(ready) \in Nat \ {0} /\ Len(ready') = Len(ready) - 1
      /\ \A i \in 1..Len(ready') : ready'[i] = ready[i + 1] /\ i + 1 \in 1..Len(ready)
  BY <1>1, Taken
<1>3. LocksHeld'
  <2>1. \A i \in 1..Len(ready') : ready'[i].kind # "resumed" => ready'[i].holds = "none"
    BY <1>2 DEF Inductive, LocksHeld
  <2> QED
    BY <2>1 DEF Inductive, LocksHeld
<1>4. Numbered'
  <2>1. Unprinted(ready)'
    BY <1>2 DEF Inductive, Numbered, Unprinted
  <2>2. \A i \in 1..Len(out), j \in 1..Len(ready') : ready'[j].kind \in Notices => out[i].due < ready'[j].of
    BY <1>2 DEF Inductive, Numbered
  <2>3. \A i \in 1..Len(ready'), j \in 1..Len(inbox) :
          ready'[i].kind \in Notices /\ inbox[j].kind \in Notices => ready'[i].of < inbox[j].of
    BY <1>2 DEF Inductive, Numbered
  <2> QED
    BY <2>1, <2>2, <2>3 DEF Inductive, Numbered, Unprinted
<1>5. Pacing'
  BY <1>2 DEF Inductive, Pacing
<1> QED
  BY <1>3, <1>4, <1>5

\* The next message to be handled is typed, and if it is sure, its changes make the server's
\* text what they made the editor's, and none of them panics.
LEMMA Understood ==
  ASSUME Inductive, ready # <<>>, Head(ready).kind \in Notices
  PROVE  /\ Head(ready) \in Tasks
         /\ Head(ready).kind = "close" <=> Head(ready).text = NoText
         /\ Head(ready).kind = "change" =>
              /\ documents[Head(ready).uri] # NoDocument /\ documents[Head(ready).uri].text \in Texts
              /\ Head(ready).sure => Becomes(documents[Head(ready).uri].text, Head(ready))
<1> DEFINE h == Head(ready)
<1>1. ready \in Seq(Tasks) /\ h \in Tasks /\ h.uri \in Uris
  <2>1. ready \in Seq(Tasks)
    BY DEF Inductive, Typed
  <2>2. h \in Tasks
    BY <2>1, Taken
  <2> QED
    BY <2>1, <2>2 DEF Tasks
<1>2. PICK told \in EditorStates, read \in EditorStates, made \in ServerStates :
        Explained(told, read, made)
  BY DEF Inductive, InStep
<1>3. PICK next \in States : <<told, h, next>> \in TaskSteps
  BY <1>1, <1>2, LeadsAway DEF Explained
<1>4. /\ h.kind = "close" <=> h.text = NoText
      /\ h.kind = "change" => /\ told[h.uri].text \in Texts
                              /\ h.sure => Meant(told[h.uri], h)
  BY <1>3 DEF TaskSteps, Tells, Notices
<1> HIDE DEF h
<1>5. ASSUME h.kind = "change"
      PROVE  /\ documents[h.uri] # NoDocument /\ documents[h.uri].text \in Texts
             /\ h.sure => Becomes(documents[h.uri].text, h)
  <2>1. /\ documents[h.uri] = Kept(made[h.uri])
        /\ made[h.uri].text = NoText <=> told[h.uri].text = NoText
        /\ told[h.uri].sure => made[h.uri].text = told[h.uri].text
    BY <1>1, <1>2 DEF Explained, Agrees
  <2>2. made[h.uri].text \in Texts
    <3>1. made[h.uri].text \in Texts \cup {NoText}
      BY <1>1 DEF ServerStates
    <3> QED
      BY <3>1, <2>1, <1>4, <1>5
  <2>3. documents[h.uri].text = made[h.uri].text /\ documents[h.uri] # NoDocument
    BY <2>1, <2>2 DEF Kept, NoDocument
  <2>4. h.sure => Becomes(made[h.uri].text, h)
    BY <2>1, <2>2, <1>4, <1>5 DEF Meant
  <2> QED
    BY <2>2, <2>3, <2>4
<1> QED
  BY <1>1, <1>4, <1>5 DEF h

\* A handler of a notification: what was told is told further, what the server has made of it
\* too, and its diagnostics are handed over, with the lock meanwhile.
LEMMA Handles ==
  ASSUME Inductive, ready # <<>>, Head(ready).kind \in Notices,
         NEW x \in Texts \cup {NoText}, x = NoText <=> Head(ready).text = NoText,
         Head(ready).sure => x = Head(ready).text,
         NEW lock \in {"none", "read"}, Publish(Head(ready), Head(ready).of, x, lock),
         ready' = Tail(ready),
         documents' = [documents EXCEPT ![Head(ready).uri] = Kept([of |-> Head(ready).of, text |-> x])],
         stopped = "no",
         UNCHANGED <<editor, shard, inbox, answers, stopped>>
  PROVE  Inductive'
<1> DEFINE h == Head(ready)
           p == [uri |-> h.uri, version |-> h.of, text |-> x, due |-> h.of, said |-> h.text,
                 sure |-> h.sure]
           n == Len(out) + 1
<1>1. /\ sent' = sent /\ unseen' = unseen /\ paced' = paced /\ view' = view /\ shown' = shown
      /\ inbox' = inbox /\ answers' = answers /\ stopped' = stopped
  BY DEF editor
<1>2. Typed /\ ready \in Seq(Tasks) /\ out \in Seq(Reports) /\ parked \in Seq(Tasks)
      /\ inbox \in Seq(Tasks)
  BY DEF Inductive, Typed
<1>3. /\ ready' \in Seq(Tasks) /\ h \in Tasks /\ h = ready[1] /\ Len(ready) \in Nat \ {0}
      /\ Len(ready') = Len(ready) - 1
      /\ \A i \in 1..Len(ready') : ready'[i] = ready[i + 1] /\ i + 1 \in 1..Len(ready)
  BY <1>2, Taken
<1>4. /\ h.uri \in Uris /\ h.of \in Nat /\ h.text \in Texts \cup {NoText} /\ h.kind \in Notices
      /\ h.sure \in BOOLEAN
  BY <1>3 DEF Tasks
<1>5. p \in Reports
  BY <1>4 DEF Reports
<1>6. /\ out' = Append(out, p)
      /\ parked' = IF Waits(out') THEN Append(parked, Suspended(h.uri, lock)) ELSE parked
  BY DEF Publish
<1>7. Suspended(h.uri, lock) \in Tasks /\ Suspended(h.uri, lock).kind = "resumed"
  BY <1>4, MessagesTyped DEF Suspended, Task
<1>same. (x = NoText <=> h.text = NoText) /\ (h.sure => x = h.text)
  OBVIOUS
<1> HIDE DEF h, p
<1>8. /\ out' \in Seq(Reports) /\ Len(out) \in Nat /\ Len(out') = n /\ out'[n] = p
      /\ \A i \in 1..Len(out) : out'[i] = out[i]
  BY <1>2, <1>5, <1>6, Queued
<1>9. /\ p.due = h.of /\ p.version = h.of /\ p.text = x /\ p.said = h.text /\ p.uri = h.uri
      /\ p.sure = h.sure
  BY DEF p
<1>10. /\ parked' \in Seq(Tasks)
       /\ \A i \in 1..Len(parked') : parked'[i].kind = "resumed"
       /\ Len(parked') = IF Len(out') > 1 THEN Len(out') - 1 ELSE 0
  <2>1. CASE n > 1
    <3>1. parked' = Append(parked, Suspended(h.uri, lock))
      BY <2>1, <1>6, <1>8 DEF Waits
    <3>2. /\ parked' \in Seq(Tasks) /\ Len(parked) \in Nat /\ Len(parked') = Len(parked) + 1
          /\ parked'[Len(parked) + 1] = Suspended(h.uri, lock)
          /\ \A i \in 1..Len(parked) : parked'[i] = parked[i]
      BY <3>1, <1>2, <1>7, Queued
    <3>3. \A i \in 1..Len(parked') : i = Len(parked) + 1 \/ i \in 1..Len(parked)
      BY <3>2
    <3>4. /\ \A i \in 1..Len(parked) : parked[i].kind = "resumed"
          /\ Len(parked) = IF Len(out) > 1 THEN Len(out) - 1 ELSE 0
      BY DEF Inductive, LocksHeld
    <3>5. Len(parked') = Len(out') - 1
      <4>1. \A k \in Nat : k + 1 > 1 => (IF k > 1 THEN k - 1 ELSE 0) + 1 = (k + 1) - 1
        OBVIOUS
      <4>2. Len(out) \in Nat /\ Len(out) + 1 > 1 /\ Len(out') = Len(out) + 1
            /\ Len(parked') = (IF Len(out) > 1 THEN Len(out) - 1 ELSE 0) + 1
        BY <2>1, <3>2, <3>4, <1>8
      <4> QED
        BY <4>1, <4>2
    <3>6. \A i \in 1..Len(parked') : parked'[i].kind = "resumed"
      BY <3>2, <3>3, <3>4, <1>7
    <3> QED
      BY <2>1, <3>2, <3>5, <3>6, <1>8
  <2>2. CASE ~ (n > 1)
    BY <2>2, <1>2, <1>6, <1>8 DEF Waits, Inductive, LocksHeld
  <2> QED
    BY <2>1, <2>2
<1>11. Typed'
  BY <1>1, <1>2, <1>3, <1>8, <1>10 DEF Typed
<1>12. InStep' /\ AnswersOfText' /\ SafeWhenPaced'
  <2>1. PICK told \in EditorStates, read \in EditorStates, made \in ServerStates :
          Explained(told, read, made)
    BY DEF Inductive, InStep
  <2>2. PICK next \in States :
          <<told, h, next>> \in TaskSteps /\ Leads(TaskSteps, next, ready', read)
    BY <2>1, <1>2, LeadsAway DEF h, Explained
  <2>3. next = Told(told, h) /\ next \in EditorStates
    BY <2>2, <1>4 DEF TaskSteps, Tells, Notices
  <2>kept. PICK now : now = Said(made, h.uri, h.of, x)
    OBVIOUS
  <2>4. now \in ServerStates
    BY <2>kept, <1>4, SaidTyped
  <2>5. documents' = [v \in Uris |-> Kept(now[v])]
    <3>1. documents' = [documents EXCEPT ![h.uri] = Kept([of |-> h.of, text |-> x])]
      BY DEF h
    <3>2. documents = [v \in Uris |-> Kept(made[v])]
      BY <2>1 DEF Explained
    <3> QED
      BY <3>1, <3>2, <2>kept, <1>4 DEF Said, ServerStates
  <2>6. Agrees(now, next)
    <3> SUFFICES ASSUME NEW v \in Uris
                 PROVE  /\ now[v].of = next[v].of
                        /\ now[v].text = NoText <=> next[v].text = NoText
                        /\ next[v].sure => now[v].text = next[v].text
      BY DEF Agrees
    <3>1. CASE v = h.uri
      <4>1. now[v] = [of |-> h.of, text |-> x]
        BY <3>1, <2>kept, <1>4 DEF Said, ServerStates
      <4>2. next[v] = [of |-> h.of, text |-> h.text, sure |-> h.sure]
        BY <3>1, <2>3, <1>4 DEF Told, EditorStates
      <4> QED
        BY <4>1, <4>2, <1>same
    <3>2. CASE v # h.uri
      <4>1. now[v] = made[v] /\ next[v] = told[v]
        BY <3>2, <2>kept, <2>3, <1>4 DEF Said, Told, ServerStates, EditorStates
      <4> QED
        BY <4>1, <2>1 DEF Explained, Agrees
    <3> QED
      BY <3>1, <3>2
  <2>7. <<made, p, now>> \in ReportSteps
    BY <2>kept, <2>4, <1>5, <1>9 DEF ReportSteps
  <2>8. Leads(ReportSteps, shown, out', now)
    BY <2>1, <2>4, <2>7, <1>2, <1>5, <1>6, LeadsOn DEF Explained, States
  <2>9. Explained(next, read, now)'
    BY <2>1, <2>2, <2>5, <2>6, <2>8, <1>1 DEF Explained
  <2> QED
    BY <2>1, <2>3, <2>4, <2>9, <1>1 DEF InStep, Inductive, AnswersOfText, SafeWhenPaced
<1>13. DiagnosesText'
  <2>1. \A i \in 1..Len(out') : i = n \/ i \in 1..Len(out)
    BY <1>8
  <2>2. DOMAIN out' = 1..Len(out') /\ DOMAIN out = 1..Len(out)
    BY <1>2, <1>8
  <2>3. \A i \in 1..Len(out) :
          out[i].version = out[i].due /\ (out[i].sure => out[i].text = out[i].said)
    BY <2>2 DEF Inductive, DiagnosesText
  <2>4. \A i \in 1..Len(out') :
          out'[i].version = out'[i].due /\ (out'[i].sure => out'[i].text = out'[i].said)
    BY <2>1, <2>3, <1>8, <1>9, <1>same
  <2> QED
    BY <2>2, <2>4 DEF DiagnosesText
<1>14. LocksHeld'
  <2>1. \A i \in 1..Len(ready') : ready'[i].kind # "resumed" => ready'[i].holds = "none"
    BY <1>3 DEF Inductive, LocksHeld
  <2> QED
    BY <2>1, <1>1, <1>10 DEF Inductive, LocksHeld
<1>15. Pacing'
  BY <1>1, <1>3 DEF Inductive, Pacing
<1>16. Numbered'
  <2>0. /\ h.of \in unseen
        /\ \A i \in 1..Len(out) : out[i].due < h.of
        /\ \A i \in 1..Len(ready') : ready'[i].kind \in Notices => h.of < ready'[i].of
        /\ \A i \in 1..Len(inbox) : inbox[i].kind \in Notices => h.of < inbox[i].of
    <3>1. 1 \in 1..Len(ready)
      BY <1>3
    <3>2. \A i \in 1..Len(ready') : 1 < i + 1
      BY <1>3
    <3> QED
      BY <3>1, <3>2, <1>3, <1>4 DEF Inductive, Numbered, Unprinted
  <2>kept. Unprinted(ready)'
    <3>1. Unprinted(ready)
      BY DEF Inductive, Numbered
    <3>2. ASSUME NEW i \in 1..Len(ready'), ready'[i].kind \in Notices PROVE ready'[i].of \in unseen'
      BY <3>1, <3>2, <1>1, <1>3 DEF Unprinted
    <3>3. ASSUME NEW i \in 1..Len(ready'), NEW j \in 1..Len(ready'), i < j,
                 ready'[i].kind \in Notices, ready'[j].kind \in Notices
          PROVE  ready'[i].of < ready'[j].of
      <4>1. i + 1 \in 1..Len(ready) /\ j + 1 \in 1..Len(ready) /\ i + 1 < j + 1
        BY <3>3, <1>3
      <4> QED
        BY <3>1, <3>3, <4>1, <1>3 DEF Unprinted
    <3> QED
      BY <3>2, <3>3 DEF Unprinted
  <2>inbox. Unprinted(inbox)'
    BY <1>1 DEF Inductive, Numbered, Unprinted
  <2>1. Unprinted(ready)' /\ Unprinted(inbox)'
    BY <2>kept, <2>inbox
  <2>2. \A i \in 1..Len(out') : (i = n /\ out'[i].due = h.of) \/ (i \in 1..Len(out) /\ out'[i] = out[i])
    <3>1. \A i \in 1..Len(out') : i = n \/ i \in 1..Len(out)
      BY <1>8
    <3>2. out'[n].due = h.of
      BY <1>8, <1>9
    <3> HIDE DEF n
    <3> QED
      BY <3>1, <3>2, <1>8
  <2>3. \A i \in 1..Len(out') : out'[i].due \in unseen
    BY <2>0, <2>2 DEF Inductive, Numbered
  <2>4. ASSUME NEW i \in 1..Len(out'), NEW j \in 1..Len(out'), i < j PROVE out'[i].due < out'[j].due
    <3>1. i \in 1..Len(out) /\ out'[i] = out[i]
      BY <2>4, <1>8
    <3>2. CASE j = n
      BY <3>1, <3>2, <2>0, <1>8, <1>9
    <3>3. CASE j \in 1..Len(out)
      BY <3>1, <3>3, <2>4, <1>8 DEF Inductive, Numbered
    <3> QED
      BY <3>2, <3>3, <1>8
  <2>5. \A i \in 1..Len(out'), j \in 1..Len(ready') : ready'[j].kind \in Notices => out'[i].due < ready'[j].of
    BY <2>0, <2>2, <1>3 DEF Inductive, Numbered
  <2>6. \A i \in 1..Len(out'), j \in 1..Len(inbox) : inbox[j].kind \in Notices => out'[i].due < inbox[j].of
    BY <2>0, <2>2 DEF Inductive, Numbered
  <2>7. \A i \in 1..Len(ready'), j \in 1..Len(inbox) :
          ready'[i].kind \in Notices /\ inbox[j].kind \in Notices => ready'[i].of < inbox[j].of
    BY <1>3 DEF Inductive, Numbered
  <2> QED
    BY <2>1, <2>3, <2>4, <2>5, <2>6, <2>7, <1>1 DEF Numbered
<1> QED
  BY <1>11, <1>12, <1>13, <1>14, <1>15, <1>16 DEF Inductive

\* The three handlers that a notification starts.
LEMMA HandlersHandle ==
  ASSUME Inductive, DidOpen \/ DidChange \/ DidClose
  PROVE  Inductive'
<1> DEFINE h == Head(ready)
           opened == [of |-> h.of, text |-> h.text]
           closed == [of |-> h.of, text |-> NoText]
<1>1. /\ ready # <<>> /\ ready' = Tail(ready) /\ h.kind \in Notices /\ stopped = "no"
      /\ UNCHANGED <<editor, shard, inbox, answers, stopped>>
  BY DEF DidOpen, DidChange, DidClose, Running, Polling, Notices
<1>2. /\ h \in Tasks
      /\ h.kind = "close" <=> h.text = NoText
      /\ h.kind = "change" =>
           /\ documents[h.uri] # NoDocument /\ documents[h.uri].text \in Texts
           /\ h.sure => Becomes(documents[h.uri].text, h)
  BY <1>1, Understood
<1>3. h.text \in Texts \cup {NoText}
  BY <1>2 DEF Tasks
<1>5. CASE DidOpen
  <2>0. h.text # NoText
    BY <1>2, <1>5 DEF DidOpen, Running
  <2>kept. Kept(opened) = [version |-> h.of, text |-> h.text] /\ Kept(opened) # NoDocument
    BY <2>0 DEF Kept, NoDocument
  <2>1. h.text # NoText /\ documents' = [documents EXCEPT ![h.uri] = Kept(opened)]
        /\ Analyze(h, Kept(opened))
    BY <2>0, <2>kept, <1>5 DEF DidOpen
  <2>2. Publish(h, h.of, h.text, "read")
    BY <2>1, <2>kept DEF Analyze, AnalysisLock
  <2> QED
    BY <2>1, <2>2, <1>1, <1>3, Handles
<1>6. CASE DidChange
  <2>1. h.kind = "change" /\ h.text # NoText
    BY <1>2, <1>6 DEF DidChange, Running
  <2> DEFINE x == FoldLeft(Applied, documents[h.uri].text, h.changes)
             changed == [of |-> h.of, text |-> x]
  <2>2. x \in Texts /\ x # NoText
    <3>1. h.changes \in {<<>>} \cup {<<change>> : change \in Changes}
      BY <1>2 DEF Tasks
    <3>2. documents[h.uri].text \in Texts
      BY <2>1, <1>2
    <3> QED
      BY <3>1, <3>2, ChangedTyped
  <2>3. h.sure => x = h.text
    BY <2>1, <1>2 DEF Becomes
  <2>4. Changed(documents[h.uri], h) = [version |-> h.of, text |-> x]
    BY DEF Changed
  <2> HIDE DEF x
  <2>kept. Kept(changed) = [version |-> h.of, text |-> x] /\ Kept(changed) # NoDocument
    BY <2>2 DEF Kept, NoDocument
  <2>5. documents' = [documents EXCEPT ![h.uri] = Kept(changed)] /\ Analyze(h, Kept(changed))
    BY <2>1, <2>4, <2>kept, <1>2, <1>6 DEF DidChange, Changeable
  <2>6. Publish(h, h.of, x, "read")
    BY <2>2, <2>5, <2>kept DEF Analyze, AnalysisLock
  <2> QED
    BY <2>1, <2>2, <2>3, <2>5, <2>6, <1>1, Handles
<1>7. CASE DidClose
  <2>1. h.kind = "close" /\ h.text = NoText
    BY <1>2, <1>7 DEF DidClose, Running
  <2>2. Kept(closed) = NoDocument
    BY DEF Kept
  <2>3. /\ documents' = [documents EXCEPT ![h.uri] = Kept(closed)]
        /\ Publish(h, h.of, NoText, "none")
    BY <2>2, <1>7 DEF DidClose, Clear
  <2> QED
    BY <2>1, <2>3, <1>1, Handles
<1> QED
  BY <1>5, <1>6, <1>7

\* A request is answered from the text the editor had, and a handler that waited ends.
LEMMA Ends ==
  ASSUME Inductive, Answer \/ Resume
  PROVE  Inductive'
<1> DEFINE h == Head(ready)
<1>1. /\ Typed /\ ready # <<>> /\ ready' = Tail(ready) /\ h.kind \in {"ask", "resumed"}
      /\ stopped' = "no"
      /\ sent' = sent /\ unseen' = unseen /\ paced' = paced /\ view' = view /\ shown' = shown
      /\ documents' = documents /\ inbox' = inbox /\ parked' = parked /\ out' = out /\ stopped' = stopped
  BY DEF Inductive, Answer, Resume, Running, Polling, editor
<1>2. ready \in Seq(Tasks) /\ ready' \in Seq(Tasks) /\ h \in Tasks
  BY <1>1, Taken DEF Typed
<1>3. PICK told \in EditorStates, read \in EditorStates, made \in ServerStates :
        Explained(told, read, made)
  BY DEF Inductive, InStep
<1>4. PICK next \in States :
        <<told, h, next>> \in TaskSteps /\ Leads(TaskSteps, next, ready', read)
  BY <1>1, <1>2, <1>3, LeadsAway DEF Explained
<1>5. next = told /\ (h.kind = "ask" => /\ h.text = told[h.uri].text /\ h.text \in Texts
                                        /\ h.sure = told[h.uri].sure)
  BY <1>1, <1>4 DEF TaskSteps, Tells, Notices
<1>6. InStep'
  <2>1. Explained(told, read, made)'
    BY <1>1, <1>3, <1>4, <1>5 DEF Explained
  <2> QED
    BY <2>1 DEF InStep
<1>7. LocksHeld' /\ Numbered' /\ Pacing' /\ DiagnosesText' /\ SafeWhenPaced'
  BY <1>1, HandlerGone DEF Inductive, DiagnosesText, SafeWhenPaced
<1>8. AnswersOfText' /\ answers' \in Seq(Responses)
  <2>1. CASE Resume
    BY <2>1 DEF Resume, Inductive, Typed, AnswersOfText
  <2>2. CASE Answer
    <3> DEFINE a == [text |-> documents[h.uri].text, said |-> h.text, sure |-> h.sure]
               n == Len(answers) + 1
    <3>1. answers' = Append(answers, a) /\ h.kind = "ask"
      BY <2>2 DEF Answer, Running
    <3>2. h.uri \in Uris /\ h.text \in Texts /\ h.sure \in BOOLEAN
      BY <3>1, <1>2, <1>5 DEF Tasks
    <3>kept. documents[h.uri].text \in Texts \cup {NoText} /\ (h.sure => documents[h.uri].text = h.text)
      <4>1. /\ documents[h.uri] = Kept(made[h.uri])
            /\ made[h.uri].text = NoText <=> told[h.uri].text = NoText
            /\ told[h.uri].sure => made[h.uri].text = told[h.uri].text
        BY <3>2, <1>3 DEF Explained, Agrees
      <4>2. made[h.uri].text \in Texts \cup {NoText}
        BY <3>2 DEF ServerStates
      <4>3. documents[h.uri].text = made[h.uri].text
        BY <4>1, <3>1, <3>2, <1>5 DEF Kept
      <4> QED
        BY <4>1, <4>2, <4>3, <3>1, <1>5
    <3>3. a \in Responses /\ (a.sure => a.text = a.said)
      BY <3>2, <3>kept DEF Responses
    <3> HIDE DEF a
    <3>4. /\ answers \in Seq(Responses) /\ answers' \in Seq(Responses) /\ Len(answers) \in Nat
          /\ Len(answers') = n /\ answers'[n] = a
          /\ \A i \in 1..Len(answers) : answers'[i] = answers[i]
      BY <3>1, <3>3, <1>1, Queued DEF Typed
    <3>5. /\ DOMAIN answers' = 1..Len(answers') /\ DOMAIN answers = 1..Len(answers)
          /\ \A i \in 1..Len(answers') : i = n \/ i \in 1..Len(answers)
      BY <3>4
    <3> QED
      BY <3>3, <3>4, <3>5 DEF Inductive, AnswersOfText
  <2> QED
    BY <2>1, <2>2
<1>9. Typed'
  BY <1>1, <1>2, <1>8 DEF Typed
<1> QED
  BY <1>6, <1>7, <1>8, <1>9 DEF Inductive

\* Three members make a set of more than two.
LEMMA Three ==
  ASSUME NEW S, IsFiniteSet(S), NEW a \in S, NEW b \in S, NEW c \in S, a # b, b # c, a # c
  PROVE  ~ (Cardinality(S) <= 2)
<1>1. IsFiniteSet({a}) /\ Cardinality({a}) = 1
  BY FS_Singleton
<1>2. IsFiniteSet({a} \cup {b}) /\ Cardinality({a} \cup {b}) = 2
  <2>1. Cardinality({a} \cup {b}) = IF b \in {a} THEN Cardinality({a}) ELSE Cardinality({a}) + 1
    BY <1>1, FS_AddElement
  <2>2. IsFiniteSet({a} \cup {b})
    BY <1>1, FS_AddElement
  <2> QED
    BY <1>1, <2>1, <2>2
<1>3. Cardinality({a, b} \cup {c}) = 3
  <2>1. {a} \cup {b} = {a, b}
    OBVIOUS
  <2>2. IsFiniteSet({a, b}) /\ Cardinality({a, b}) = 2
    BY <1>2, <2>1
  <2>3. Cardinality({a, b} \cup {c}) = IF c \in {a, b} THEN Cardinality({a, b}) ELSE Cardinality({a, b}) + 1
    BY <2>2, FS_AddElement
  <2> QED
    BY <2>2, <2>3
<1>4. ({a, b} \cup {c}) \in SUBSET S
  OBVIOUS
<1>5. Cardinality({a, b} \cup {c}) <= Cardinality(S) /\ Cardinality(S) \in Nat
  BY <1>4, FS_Subset, FS_CardinalityType
<1> QED
  BY <1>3, <1>5

LEMMA UnseenFinite ==
  ASSUME Typed
  PROVE  IsFiniteSet(unseen) /\ Cardinality(unseen) \in Nat
<1>1. IsFiniteSet(1..sent)
  BY FS_Interval DEF Typed
<1>2. IsFiniteSet(unseen)
  BY <1>1, FS_Subset DEF Typed
<1> QED
  BY <1>2, FS_CardinalityType

\* Two diagnostics that wait and a notification make three, which an editor that paces itself
\* never has.
LEMMA WaitingMeansAhead ==
  ASSUME Inductive, Len(out) > 1, NEW i \in 1..Len(ready), ready[i].kind \in Notices
  PROVE  ~ paced
<1>1. Len(out) \in Nat /\ 1 \in 1..Len(out) /\ 2 \in 1..Len(out) /\ unseen \subseteq Nat
  BY DEF Inductive, Typed
<1>2. /\ out[1].due \in unseen /\ out[2].due \in unseen /\ ready[i].of \in unseen
      /\ out[1].due < out[2].due /\ out[1].due < ready[i].of /\ out[2].due < ready[i].of
  BY <1>1 DEF Inductive, Numbered, Unprinted
<1>3. out[1].due # out[2].due /\ out[2].due # ready[i].of /\ out[1].due # ready[i].of
  <2>1. \A a, b \in Nat : a < b => a # b
    OBVIOUS
  <2>2. out[1].due \in Nat /\ out[2].due \in Nat /\ ready[i].of \in Nat
    BY <1>1, <1>2
  <2> QED
    BY <1>2, <2>1, <2>2
<1>4. ~ (Cardinality(unseen) <= 2)
  BY <1>2, <1>3, Three, UnseenFinite DEF Inductive
<1> QED
  BY <1>4 DEF Inductive, Pacing

\* The thread blocks only when the editor is three notifications ahead.
LEMMA Blocks ==
  ASSUME Inductive, Block
  PROVE  Inductive'
<1>1. /\ stopped' = "blocked" /\ ready # <<>>
      /\ sent' = sent /\ unseen' = unseen /\ paced' = paced /\ view' = view /\ shown' = shown
      /\ documents' = documents /\ inbox' = inbox /\ ready' = ready /\ parked' = parked
      /\ out' = out /\ answers' = answers
  BY DEF Block, Running, editor
<1>2. ready \in Seq(Tasks) /\ parked \in Seq(Tasks) /\ out \in Seq(Reports)
  BY DEF Inductive, Typed
<1>3. Head(ready) = ready[1] /\ 1 \in 1..Len(ready)
  BY <1>1, <1>2
<1>4. ASSUME NEW h \in ToSet(parked) \cup ToSet(ready) PROVE h.holds # "write"
  <2>1. h \in Tasks
    BY <1>2 DEF ToSet
  <2> QED
    BY <2>1 DEF Tasks
<1>5. Readable(Head(ready).uri)
  BY <1>4 DEF Readable, Locks
<1>6. Head(ready).kind \in Notices /\ ~ Writable(Head(ready).uri)
  BY <1>5 DEF Block, Running, Notices
<1>7. PICK h \in ToSet(parked) \cup ToSet(ready) : h.holds # "none"
  BY <1>6 DEF Writable, Locks
<1>8. ~ paced
  <2>1. CASE h \in ToSet(parked)
    <3>1. Len(parked) # 0
      BY <2>1, <1>2 DEF ToSet
    <3>2. Len(out) > 1
      BY <3>1 DEF Inductive, LocksHeld
    <3> QED
      BY <3>2, <1>3, <1>6, WaitingMeansAhead
  <2>2. CASE h \in ToSet(ready)
    <3>1. PICK i \in 1..Len(ready) : h = ready[i]
      BY <2>2, <1>2 DEF ToSet
    <3>2. ready[i].kind = "resumed"
      BY <3>1, <1>7 DEF Inductive, LocksHeld
    <3>3. i # 1
      BY <3>2, <1>3, <1>6 DEF Notices
    <3> QED
      BY <3>1, <3>2, <3>3, <1>3, <1>6 DEF Inductive, Pacing
  <2> QED
    BY <2>1, <2>2
<1>9. Typed' /\ InStep' /\ SafeWhenPaced'
  <2>1. InStep'
    BY <1>1 DEF Inductive, InStep, Explained
  <2> QED
    BY <2>1, <1>1, <1>8 DEF Inductive, Typed, SafeWhenPaced
<1>10. DiagnosesText' /\ AnswersOfText' /\ LocksHeld' /\ Numbered' /\ Pacing'
  BY <1>1 DEF Inductive, DiagnosesText, AnswersOfText, LocksHeld, Numbered, Unprinted, Pacing
<1> QED
  BY <1>9, <1>10 DEF Inductive

\* A change panics only in a document that is not sure.
LEMMA PanicsUnsure ==
  ASSUME Inductive, Panic
  PROVE  Inductive'
<1> DEFINE h == Head(ready)
<1>1. /\ stopped' = "panicked" /\ ready # <<>> /\ h.kind = "change" /\ ChangePanics(h)
      /\ sent' = sent /\ unseen' = unseen /\ paced' = paced /\ view' = view /\ shown' = shown
      /\ documents' = documents /\ inbox' = inbox /\ ready' = ready /\ parked' = parked
      /\ out' = out /\ answers' = answers
  BY DEF Panic, Running, editor
<1>2. h.sure => Becomes(documents[h.uri].text, h)
  BY <1>1, Understood DEF Notices
<1>3. ~ h.sure
  BY <1>1, <1>2 DEF ChangePanics, Becomes
<1>4. Typed' /\ InStep' /\ SafeWhenPaced'
  <2>1. InStep'
    BY <1>1 DEF Inductive, InStep, Explained
  <2> QED
    BY <2>1, <1>1, <1>3 DEF Inductive, Typed, SafeWhenPaced
<1>5. DiagnosesText' /\ AnswersOfText' /\ LocksHeld' /\ Numbered' /\ Pacing'
  BY <1>1 DEF Inductive, DiagnosesText, AnswersOfText, LocksHeld, Numbered, Unprinted, Pacing
<1> QED
  BY <1>4, <1>5 DEF Inductive

\* What is printed makes room: the next handler that waited is to run again.
LEMMA Prints ==
  ASSUME Inductive, PrintDiagnostics
  PROVE  Inductive'
<1> DEFINE p == Head(out)
           n == Len(ready) + 1
<1>1. /\ out # <<>> /\ out' = Tail(out) /\ unseen' = unseen \ {p.due}
      /\ shown' = Said(shown, p.uri, p.version, p.text)
      /\ sent' = sent /\ paced' = paced /\ view' = view /\ documents' = documents
      /\ inbox' = inbox /\ answers' = answers /\ stopped' = stopped
      /\ stopped' = "no"
      /\ IF parked = <<>> THEN ready' = ready /\ parked' = parked
         ELSE ready' = Append(ready, Head(parked)) /\ parked' = Tail(parked)
  BY DEF PrintDiagnostics, Said
<1>2. /\ Typed /\ out \in Seq(Reports) /\ ready \in Seq(Tasks) /\ parked \in Seq(Tasks)
      /\ shown \in ServerStates /\ inbox \in Seq(Tasks)
  BY DEF Inductive, Typed
<1>3. /\ out' \in Seq(Reports) /\ p \in Reports /\ p = out[1] /\ Len(out) \in Nat \ {0}
      /\ Len(out') = Len(out) - 1 /\ 1 \in 1..Len(out)
      /\ \A i \in 1..Len(out') : out'[i] = out[i + 1] /\ i + 1 \in 1..Len(out) /\ 1 < i + 1
  BY <1>1, <1>2, Taken
<1>4. p.uri \in Uris /\ p.version \in Nat /\ p.text \in Texts \cup {NoText} /\ p.due \in Nat
  BY <1>3 DEF Reports
<1> HIDE DEF p
<1>5. shown' \in ServerStates
  BY <1>1, <1>2, <1>4, SaidTyped
<1>6. PICK told \in EditorStates, read \in EditorStates, made \in ServerStates :
        Explained(told, read, made)
  BY DEF Inductive, InStep
<1>7. Leads(ReportSteps, shown', out', made)
  <2>1. PICK next \in States :
          <<shown, p, next>> \in ReportSteps /\ Leads(ReportSteps, next, out', made)
    BY <1>1, <1>2, <1>6, LeadsAway DEF p, Explained
  <2> QED
    BY <2>1, <1>1 DEF ReportSteps
<1>8. DiagnosesText'
  <2>1. DOMAIN out' = 1..Len(out') /\ DOMAIN out = 1..Len(out)
    BY <1>2, <1>3
  <2>2. \A i \in 1..Len(out) :
          out[i].version = out[i].due /\ (out[i].sure => out[i].text = out[i].said)
    BY <2>1 DEF Inductive, DiagnosesText
  <2>3. \A i \in 1..Len(out') :
          out'[i].version = out'[i].due /\ (out'[i].sure => out'[i].text = out'[i].said)
    BY <2>2, <1>3
  <2> QED
    BY <2>1, <2>3 DEF DiagnosesText
<1>9. /\ parked' \in Seq(Tasks) /\ \A i \in 1..Len(parked') : parked'[i].kind = "resumed"
      /\ Len(parked') = IF Len(out') > 1 THEN Len(out') - 1 ELSE 0
  <2>1. /\ \A i \in 1..Len(parked) : parked[i].kind = "resumed"
        /\ Len(parked) = IF Len(out) > 1 THEN Len(out) - 1 ELSE 0
    BY DEF Inductive, LocksHeld
  <2>2. CASE parked = <<>>
    <3>1. Len(parked) = 0 /\ parked' = parked
      BY <2>2, <1>1
    <3>2. \A k \in Nat \ {0} :
            (IF k > 1 THEN k - 1 ELSE 0) = 0 => (IF k - 1 > 1 THEN (k - 1) - 1 ELSE 0) = 0
      OBVIOUS
    <3>3. (IF Len(out) > 1 THEN Len(out) - 1 ELSE 0) = 0
      BY <2>1, <3>1
    <3> QED
      BY <2>1, <3>1, <3>2, <3>3, <1>2, <1>3
  <2>3. CASE parked # <<>>
    <3>1. /\ parked' \in Seq(Tasks) /\ Len(parked) \in Nat \ {0} /\ Len(parked') = Len(parked) - 1
          /\ \A i \in 1..Len(parked') : parked'[i] = parked[i + 1] /\ i + 1 \in 1..Len(parked)
      BY <2>3, <1>1, <1>2, Taken
    <3>2. \A k \in Nat \ {0} :
            (IF k > 1 THEN k - 1 ELSE 0) # 0
              => (IF k > 1 THEN k - 1 ELSE 0) - 1 = IF k - 1 > 1 THEN (k - 1) - 1 ELSE 0
      OBVIOUS
    <3>3. (IF Len(out) > 1 THEN Len(out) - 1 ELSE 0) # 0
      BY <2>1, <3>1
    <3>4. Len(parked') = (IF Len(out) > 1 THEN Len(out) - 1 ELSE 0) - 1
      BY <2>1, <3>1
    <3>5. Len(parked') = IF Len(out') > 1 THEN Len(out') - 1 ELSE 0
      BY <3>2, <3>3, <3>4, <1>3
    <3> QED
      BY <2>1, <3>1, <3>5
  <2> QED
    BY <2>2, <2>3
\* The handler that runs again stands behind the others.
<1>10. /\ ready' \in Seq(Tasks) /\ Len(ready) \in Nat
       /\ \A i \in 1..Len(ready) : ready'[i] = ready[i]
       /\ \A i \in 1..Len(ready') :
            i \in 1..Len(ready) \/ (i = n /\ ready'[i].kind = "resumed" /\ ready'[i].kind \notin Notices)
       /\ Leads(TaskSteps, told, ready', read)
       /\ ready' # ready => Len(out) > 1
  <2>1. CASE parked = <<>>
    BY <2>1, <1>1, <1>2, <1>6 DEF Explained
  <2>2. CASE parked # <<>>
    <3> DEFINE h == Head(parked)
    <3>1. h \in Tasks /\ h = parked[1] /\ 1 \in 1..Len(parked)
      BY <2>2, <1>2, Taken
    <3>2. h.kind = "resumed" /\ Len(out) > 1
      BY <3>1 DEF Inductive, LocksHeld
    <3> HIDE DEF h
    <3>3. ready' = Append(ready, h)
      BY <2>2, <1>1 DEF h
    <3>4. /\ ready' \in Seq(Tasks) /\ Len(ready) \in Nat /\ Len(ready') = n /\ ready'[n] = h
          /\ \A i \in 1..Len(ready) : ready'[i] = ready[i]
      BY <3>1, <3>3, <1>2, Queued
    <3>5. <<read, h, read>> \in TaskSteps
      BY <3>1, <3>2, <1>6 DEF TaskSteps, Tells
    <3>6. Leads(TaskSteps, told, ready', read)
      BY <3>1, <3>3, <3>5, <1>2, <1>6, LeadsOn DEF Explained, States
    <3>7. \A i \in 1..Len(ready') : i = n \/ i \in 1..Len(ready)
      BY <3>4
    <3> QED
      BY <3>2, <3>4, <3>6, <3>7 DEF Notices
  <2> QED
    BY <2>1, <2>2
<1>11. Typed'
  BY <1>1, <1>2, <1>3, <1>5, <1>9, <1>10 DEF Typed
<1>12. InStep' /\ AnswersOfText' /\ SafeWhenPaced'
  <2>1. Explained(told, read, made)'
    BY <1>1, <1>6, <1>7, <1>10 DEF Explained
  <2> QED
    BY <2>1, <1>1 DEF InStep, Inductive, AnswersOfText, SafeWhenPaced
<1>13. LocksHeld'
  <2>1. \A i \in 1..Len(ready') : ready'[i].kind # "resumed" => ready'[i].holds = "none"
    BY <1>10 DEF Inductive, LocksHeld
  <2> QED
    BY <2>1, <1>1, <1>9 DEF Inductive, LocksHeld
<1>14. Pacing'
  <2> SUFFICES ASSUME paced PROVE Pacing'
    BY <1>1 DEF Pacing
  <2>1. Cardinality(unseen') <= 2
    <3>1. IsFiniteSet(unseen) /\ Cardinality(unseen) \in Nat /\ Cardinality(unseen) <= 2
      BY <1>2, UnseenFinite DEF Inductive, Pacing
    <3>2. unseen' \in SUBSET unseen
      BY <1>1
    <3>3. Cardinality(unseen') <= Cardinality(unseen) /\ Cardinality(unseen') \in Nat
      BY <3>1, <3>2, FS_Subset, FS_CardinalityType
    <3> QED
      BY <3>1, <3>3
  <2>2. ASSUME NEW i \in 1..Len(ready'), NEW j \in 1..Len(ready'), i < j, ready'[i].kind \in Notices
        PROVE  ready'[j].kind # "resumed"
    <3>1. i \in 1..Len(ready) /\ ready'[i] = ready[i]
      BY <2>2, <1>10
    <3>2. CASE ready' = ready
      BY <2>2, <3>2 DEF Inductive, Pacing
    <3>3. CASE ready' # ready
      BY <2>2, <3>1, <3>3, <1>10, WaitingMeansAhead
    <3> QED
      BY <3>2, <3>3
  <2> QED
    BY <2>1, <2>2 DEF Pacing
<1>15. Numbered'
  <2>1. /\ \A i \in 1..Len(ready') : ready'[i].kind \in Notices =>
             i \in 1..Len(ready) /\ ready'[i] = ready[i]
        /\ \A a, b \in Nat : a < b => b # a
        /\ unseen \subseteq Nat
    <3>1. \A a, b \in Nat : a < b => b # a
      OBVIOUS
    <3>2. unseen \subseteq Nat
      BY <1>2 DEF Typed
    <3>3. ASSUME NEW i \in 1..Len(ready'), ready'[i].kind \in Notices
          PROVE  i \in 1..Len(ready) /\ ready'[i] = ready[i]
      BY <3>3, <1>10
    <3> QED
      BY <3>1, <3>2, <3>3
  <2>2. ASSUME NEW i \in 1..Len(ready'), ready'[i].kind \in Notices PROVE ready'[i].of \in unseen'
    <3>1. i \in 1..Len(ready) /\ ready'[i] = ready[i]
      BY <2>1, <2>2
    <3>2. ready[i].of \in unseen /\ p.due < ready[i].of
      BY <2>2, <3>1, <1>3 DEF Inductive, Numbered, Unprinted
    <3> QED
      BY <3>1, <3>2, <2>1, <1>1, <1>4
  <2>3. \A i \in 1..Len(inbox) : inbox[i].kind \in Notices => inbox[i].of \in unseen'
    BY <2>1, <1>1, <1>3, <1>4 DEF Inductive, Numbered, Unprinted
  <2>4. ASSUME NEW i \in 1..Len(out') PROVE out'[i].due \in unseen'
    <3>1. out'[i].due \in unseen /\ p.due < out'[i].due
      BY <1>3 DEF Inductive, Numbered
    <3> QED
      BY <3>1, <2>1, <1>1, <1>4
  <2>5. Unprinted(ready)' /\ Unprinted(inbox)'
    BY <2>1, <2>2, <2>3, <1>1 DEF Inductive, Numbered, Unprinted
  <2>6. /\ \A i, j \in 1..Len(out') : i < j => out'[i].due < out'[j].due
        /\ \A i \in 1..Len(out'), j \in 1..Len(inbox) : inbox[j].kind \in Notices => out'[i].due < inbox[j].of
    <3>1. ASSUME NEW i \in 1..Len(out'), NEW j \in 1..Len(out'), i < j PROVE out'[i].due < out'[j].due
      <4>1. i + 1 < j + 1
        BY <3>1
      <4> QED
        BY <4>1, <1>3 DEF Inductive, Numbered
    <3> QED
      BY <3>1, <1>3 DEF Inductive, Numbered
  <2>7. ASSUME NEW i \in 1..Len(out'), NEW j \in 1..Len(ready'), ready'[j].kind \in Notices
        PROVE  out'[i].due < ready'[j].of
    <3>1. j \in 1..Len(ready) /\ ready'[j] = ready[j]
      BY <2>1, <2>7
    <3>2. i + 1 \in 1..Len(out) /\ out'[i] = out[i + 1]
      BY <1>3
    <3> QED
      BY <3>1, <3>2, <2>7 DEF Inductive, Numbered
  <2>8. \A i \in 1..Len(ready'), j \in 1..Len(inbox) :
          ready'[i].kind \in Notices /\ inbox[j].kind \in Notices => ready'[i].of < inbox[j].of
    BY <2>1 DEF Inductive, Numbered
  <2> QED
    BY <2>4, <2>5, <2>6, <2>7, <2>8, <1>1 DEF Numbered
<1> QED
  BY <1>8, <1>11, <1>12, <1>13, <1>14, <1>15 DEF Inductive

LEMMA AnswerPrinted ==
  ASSUME Inductive, PrintAnswer
  PROVE  Inductive'
<1>1. /\ answers # <<>> /\ answers' = Tail(answers)
      /\ sent' = sent /\ unseen' = unseen /\ paced' = paced /\ view' = view /\ shown' = shown
      /\ documents' = documents /\ inbox' = inbox /\ ready' = ready /\ parked' = parked
      /\ out' = out /\ stopped' = stopped
  BY DEF PrintAnswer, editor
<1>2. answers \in Seq(Responses)
  BY DEF Inductive, Typed
<1>3. /\ answers' \in Seq(Responses) /\ DOMAIN answers' = 1..Len(answers') /\ DOMAIN answers = 1..Len(answers)
      /\ \A i \in 1..Len(answers') : answers'[i] = answers[i + 1] /\ i + 1 \in 1..Len(answers)
  BY <1>1, <1>2, Taken
<1>4. Typed' /\ InStep' /\ AnswersOfText'
  BY <1>1, <1>3 DEF Inductive, Typed, InStep, Explained, AnswersOfText
<1>5. DiagnosesText' /\ LocksHeld' /\ Numbered' /\ Pacing' /\ SafeWhenPaced'
  BY <1>1 DEF Inductive, DiagnosesText, LocksHeld, Numbered, Unprinted, Pacing, SafeWhenPaced
<1> QED
  BY <1>4, <1>5 DEF Inductive

LEMMA Stutters ==
  ASSUME Inductive, UNCHANGED vars
  PROVE  Inductive'
BY DEF Inductive, vars, editor, Typed, InStep, Explained, DiagnosesText, AnswersOfText, LocksHeld, Numbered,
       Unprinted, Pacing, SafeWhenPaced

-----------------------------------------------------------------------------
\* The invariant of the language server, for any texts and edits, any number of documents,
\* handlers and messages, and any placement of documents in shards.
THEOREM Invariant == Spec => []Inductive
<1>1. Init => Inductive
  BY Initially
<1>2. Inductive /\ [Next]_vars => Inductive'
  <2> SUFFICES ASSUME Inductive, [Next]_vars PROVE Inductive'
    OBVIOUS
  <2>1. CASE Editor
    BY <2>1, EditorNotifies, EditorAsks DEF Editor
  <2>2. CASE Server
    BY <2>2, Starts, HandlersHandle, Ends, Blocks, PanicsUnsure, Prints, AnswerPrinted DEF Server, Poll
  <2>3. CASE UNCHANGED vars
    BY <2>3, Stutters
  <2> QED
    BY <2>1, <2>2, <2>3 DEF Next
<1> QED
  BY <1>1, <1>2, PTL DEF Spec

\* Type correctness of the editor's side, the queues and the channel.
THEOREM TypeCorrect == Spec => []Typed
<1>1. Inductive => Typed
  BY DEF Inductive
<1> QED
  BY <1>1, Invariant, PTL

\* The diagnostics that analyze_document hands over are of the version of the notification they
\* answer, and while a document is sure, of its text: whatever the texts and the edits, the
\* server's text is the editor's as long as every edit since the document was last sent whole
\* meant the same to both.
THEOREM DiagnosesTheText == Spec => []DiagnosesText
<1>1. Inductive => DiagnosesText
  BY DEF Inductive
<1> QED
  BY <1>1, Invariant, PTL

\* A request about a document that is sure is answered from the text that the editor had when it
\* asked.
THEOREM AnswersOfTheText == Spec => []AnswersOfText
<1>1. Inductive => AnswersOfText
  BY DEF Inductive
<1> QED
  BY <1>1, Invariant, PTL

\* When nothing is under way the editor shows the diagnostics of the last version of every
\* document, and of its own text for one that is sure, also after texts have come apart.
THEOREM LatestShown == Spec => []ShownIsLatest
<1>1. Inductive => ShownIsLatest
  <2> SUFFICES ASSUME Inductive, inbox \o ready \o parked \o out = <<>> PROVE Agrees(shown, view)
    BY DEF ShownIsLatest, Agrees
  <2>1. inbox = <<>> /\ ready = <<>> /\ out = <<>>
    <3>1. /\ Len(inbox) \in Nat /\ Len(ready) \in Nat /\ Len(parked) \in Nat /\ Len(out) \in Nat
          /\ inbox \in Seq(Tasks) /\ ready \in Seq(Tasks) /\ out \in Seq(Reports)
      BY DEF Inductive, Typed
    <3>2. PICK S : inbox \in Seq(S) /\ ready \in Seq(S) /\ parked \in Seq(S) /\ out \in Seq(S)
      <4> DEFINE S == Tasks \cup Reports
      <4>1. inbox \in Seq(S) /\ ready \in Seq(S) /\ parked \in Seq(S) /\ out \in Seq(S)
        BY DEF Inductive, Typed
      <4> QED
        BY <4>1
    <3>3. Len(inbox \o ready \o parked \o out) = Len(inbox) + Len(ready) + Len(parked) + Len(out)
      BY <3>2
    <3>4. Len(inbox) = 0 /\ Len(ready) = 0 /\ Len(out) = 0
      BY <3>1, <3>3
    <3> QED
      BY <3>1, <3>4
  <2>2. PICK told \in EditorStates, read \in EditorStates, made \in ServerStates :
          /\ Leads(TaskSteps, told, <<>>, read) /\ Leads(TaskSteps, read, <<>>, view)
          /\ Leads(ReportSteps, shown, <<>>, made) /\ Agrees(made, told)
    BY <2>1 DEF Inductive, InStep, Explained
  <2>3. told = read /\ read = view /\ shown = made
    BY <2>2, LeadsEmpty
  <2> QED
    BY <2>2, <2>3
<1> QED
  BY <1>1, Invariant, PTL

\* An editor that is at most two notifications ahead never blocks the server's thread, although
\* analyze_document keeps its lock while it waits; and didChange panics only in a document that
\* is not sure.
THEOREM PacedIsSafe == Spec => []SafeWhenPaced
<1>1. Inductive => SafeWhenPaced
  BY DEF Inductive
<1> QED
  BY <1>1, Invariant, PTL
=============================================================================
