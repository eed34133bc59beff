--------------------------- MODULE LanguageServer ---------------------------
(***************************************************************************)
(* The language server (language-server/src/main.rs): an editor opens,     *)
(* changes and closes documents and asks about them, and is sent the       *)
(* diagnostics of every text.                                              *)
(*                                                                         *)
(* One thread runs everything.  Messages are read in the order they are    *)
(* sent, and each starts a handler, a future that runs until it waits; it  *)
(* can wait only to hand over diagnostics, in a channel that has room for  *)
(* one.  The documents are in shards, and a shard is locked while a        *)
(* reference into it exists.  A handler that wants a lock which another    *)
(* handler holds blocks the thread, and the other never runs again.  A     *)
(* panic of a handler ends the process, as all run in its main task.       *)
(*                                                                         *)
(* Editor and server do not always mean the same by a position (see        *)
(* DocumentText), so their texts may differ: a document is sure while all  *)
(* edits since it was last sent whole meant the same to both.              *)
(***************************************************************************)
EXTENDS DocumentText

CONSTANTS Uris,
          Placements,      \* which documents share a shard: functions on Uris
          NoText,          \* for a document that is not open
          Concurrency,     \* how many handlers run at a time (tower-lsp: 4)
          Opened,          \* bound: the texts of documents that are opened
          Inserted,        \* bound: what is put in place of a range
          MaxLength,       \* bound: characters of a text
          MaxSent,         \* bound: notifications
          MaxAsked         \* bound: requests that are not answered

ASSUME BoundsAssumption ==
  Concurrency \in Nat /\ MaxLength \in Nat /\ MaxSent \in Nat /\ MaxAsked \in Nat

\* The texts of documents; a document that is not open has none.
Texts == Seq(UNION {ToSet(text) : text \in Opened \cup Inserted})

ASSUME TextsAssumption == Opened \cup Inserted \subseteq Texts /\ NoText \notin Texts

VARIABLES
  \* the editor
  view,        \* the text of each document, whether it is sure, and its last notification
  shown,       \* the diagnostics that are shown: of which version and text
  sent,        \* the number of notifications, which number versions too
  unseen,      \* the notifications whose diagnostics have not come
  paced,       \* history: there were never more than two of them
  \* the server
  documents,   \* DashMap<Url, TextDocumentItem>
  shard,       \* the shard of the map a document is in: the hash is seeded at random
  inbox,       \* messages that are sent and not started
  ready,       \* handlers that are to run, the next first
  parked,      \* handlers that wait for room in the channel, the first to be woken first
  out,         \* the channel of diagnostics to the editor
  answers,     \* responses on their way to the editor
  stopped      \* no; blocked: the thread waits for a lock; panicked: the process has ended

editor == <<view, shown, sent, unseen, paced>>
vars == <<editor, documents, shard, inbox, ready, parked, out, answers, stopped>>

\* A message, with what the editor's text is when it is sent and whether it is sure; or a
\* handler that waited, with the lock it holds.
Task(kind, u, of, text, sure, changes, holds) ==
  [kind |-> kind, uri |-> u, of |-> of, text |-> text, sure |-> sure, changes |-> changes,
   holds |-> holds]
Message(kind, u, of, text, sure, changes) == Task(kind, u, of, text, sure, changes, "none")
Suspended(u, holds) == Task("resumed", u, 0, NoText, TRUE, <<>>, holds)

NoDocument == [version |-> 0, text |-> NoText]

Init ==
  /\ view = [u \in Uris |-> [of |-> 0, text |-> NoText, sure |-> TRUE]]
  /\ shown = [u \in Uris |-> [of |-> 0, text |-> NoText]]
  /\ sent = 0 /\ unseen = {} /\ paced = TRUE
  /\ documents = [u \in Uris |-> NoDocument]
  /\ shard \in Placements
  /\ inbox = <<>> /\ ready = <<>> /\ parked = <<>> /\ out = <<>> /\ answers = <<>>
  /\ stopped = "no"

-----------------------------------------------------------------------------
\* The editor.

IsOpen(u) == view[u].text # NoText

\* A notification says that the text of a document is now another.
Notify(kind, u, text, sure, changes) ==
  /\ sent < MaxSent
  /\ sent' = sent + 1
  /\ unseen' = unseen \cup {sent + 1}
  /\ paced' = (paced /\ Cardinality(unseen') <= 2)
  /\ view' = [view EXCEPT ![u] = [of |-> sent + 1, text |-> text, sure |-> sure]]
  /\ inbox' = Append(inbox, Message(kind, u, sent + 1, text, sure, changes))
  /\ UNCHANGED <<shown, documents, shard, ready, parked, out, answers, stopped>>

\* What the editor makes of its own edit between two indexes.
Edited(text, i, j, new) == SubSeq(text, 1, i) \o new \o SubSeq(text, j + 1, Len(text))

Open(u) == ~IsOpen(u) /\ \E text \in Opened : Notify("open", u, text, TRUE, <<>>)
Replace(u) ==
  /\ IsOpen(u)
  /\ \E new \in Opened : Notify("change", u, new, TRUE, <<Whole(view[u].text, new)>>)
Edit(u) ==
  /\ IsOpen(u)
  /\ \E new \in Inserted, i, j \in 0..Len(view[u].text), past \in BOOLEAN :
       LET old == view[u].text
           text == Edited(old, i, j, new)
       IN /\ i <= j /\ text # old /\ Len(text) <= MaxLength
          /\ past => EndsLine(old, j)
          /\ Notify("change", u, text, view[u].sure /\ SameForBoth(old, i, j, past),
                    <<Ranged(old, i, j, new, past)>>)
Close(u) == IsOpen(u) /\ Notify("close", u, NoText, TRUE, <<>>)

Asks(queue) == {i \in DOMAIN queue : queue[i].kind = "ask"}

\* completion, hover, formatting, rangeFormatting, codeAction, semanticTokens.
Ask(u) ==
  /\ IsOpen(u)
  /\ Cardinality(Asks(inbox)) + Cardinality(Asks(ready)) + Len(answers) < MaxAsked
  /\ inbox' = Append(inbox, Message("ask", u, 0, view[u].text, view[u].sure, <<>>))
  /\ UNCHANGED <<editor, documents, shard, ready, parked, out, answers, stopped>>

-----------------------------------------------------------------------------
\* The server's thread.

\* A response that cannot be handed over yet holds up the handlers.
Polling == stopped = "no" /\ Len(answers) < 2

Start ==
  /\ Polling /\ inbox # <<>> /\ Len(ready) + Len(parked) < Concurrency
  /\ ready' = Append(ready, Head(inbox))
  /\ inbox' = Tail(inbox)
  /\ UNCHANGED <<editor, documents, shard, parked, out, answers, stopped>>

\* The locks on a shard that handlers which wait, or waited, hold.
Locks(u) ==
  {h.holds : h \in {h \in ToSet(parked) \cup ToSet(ready) : shard[h.uri] = shard[u]}} \ {"none"}
Readable(u) == "write" \notin Locks(u)
Writable(u) == Locks(u) = {}

Running(kind) == Polling /\ ready # <<>> /\ Head(ready).kind = kind

\* Sending waits when more than one message is in the channel.
Waits(queue) == Len(queue) > 1

\* publish_diagnostics(..).await, for handler h, which holds a lock meanwhile.
Publish(h, version, text, holds) ==
  /\ out' = Append(out, [uri |-> h.uri, version |-> version, text |-> text,
                         due |-> h.of, said |-> h.text, sure |-> h.sure])
  /\ parked' = IF Waits(out') THEN Append(parked, Suspended(h.uri, holds)) ELSE parked

\* Mutant: the document is fetched to be changed.
FaultAnalysisLock == "write"

\* analyze_document keeps its reference to the document until the diagnostics are handed over.
AnalysisLock == "read"
Analyze(h, document) ==
  IF document = NoDocument THEN UNCHANGED <<out, parked>>
  ELSE Publish(h, document.version, document.text, AnalysisLock)

DidOpen ==
  /\ Running("open") /\ Writable(Head(ready).uri)
  /\ LET h == Head(ready)
         document == [version |-> h.of, text |-> h.text]
     IN documents' = [documents EXCEPT ![h.uri] = document] /\ Analyze(h, document)
  /\ ready' = Tail(ready)
  /\ UNCHANGED <<editor, shard, inbox, answers, stopped>>

\* Mutant: the document keeps its version.
FaultChanged(document, h) == [document EXCEPT !.text = FoldLeft(Applied, @, h.changes)]

Changed(document, h) == [version |-> h.of, text |-> FoldLeft(Applied, document.text, h.changes)]

\* A change that panics, in the text that the changes before it have made.
ChangePanics(h) ==
  \E i \in DOMAIN h.changes :
    Panics(FoldLeft(Applied, documents[h.uri].text, SubSeq(h.changes, 1, i - 1)), h.changes[i])
Changeable(h) == documents[h.uri] # NoDocument

DidChange ==
  /\ Running("change") /\ Writable(Head(ready).uri)
  /\ Changeable(Head(ready)) => ~ChangePanics(Head(ready))
  /\ LET h == Head(ready)
         document == IF Changeable(h) THEN Changed(documents[h.uri], h) ELSE NoDocument
     IN documents' = [documents EXCEPT ![h.uri] = document] /\ Analyze(h, document)
  /\ ready' = Tail(ready)
  /\ UNCHANGED <<editor, shard, inbox, answers, stopped>>

\* Mutant: the diagnostics of a document that is closed stay.
FaultClear(h) == UNCHANGED <<out, parked>>

\* No diagnostics, and no version.
Clear(h) == Publish(h, h.of, NoText, "none")

DidClose ==
  /\ Running("close") /\ Writable(Head(ready).uri)
  /\ documents' = [documents EXCEPT ![Head(ready).uri] = NoDocument]
  /\ Clear(Head(ready))
  /\ ready' = Tail(ready)
  /\ UNCHANGED <<editor, shard, inbox, answers, stopped>>

\* A request is answered from the text of the document, without waiting.
Answer ==
  /\ Running("ask") /\ Readable(Head(ready).uri)
  /\ LET h == Head(ready)
     IN answers' = Append(answers, [text |-> documents[h.uri].text, said |-> h.text, sure |-> h.sure])
  /\ ready' = Tail(ready)
  /\ UNCHANGED <<editor, documents, shard, inbox, parked, out, stopped>>

\* The diagnostics are handed over, the handler ends, and its reference goes.
Resume ==
  /\ Running("resumed")
  /\ ready' = Tail(ready)
  /\ UNCHANGED <<editor, documents, shard, inbox, parked, out, answers, stopped>>

\* The handler blocks the thread, for a lock that another handler holds.
Block ==
  /\ \/ \E kind \in {"open", "change", "close"} : Running(kind) /\ ~Writable(Head(ready).uri)
     \/ Running("ask") /\ ~Readable(Head(ready).uri)
  /\ stopped' = "blocked"
  /\ UNCHANGED <<editor, documents, shard, inbox, ready, parked, out, answers>>

\* line(l) in didChange, for a line just past the last: the process ends.
Panic ==
  /\ Running("change") /\ Writable(Head(ready).uri)
  /\ Changeable(Head(ready)) /\ ChangePanics(Head(ready))
  /\ stopped' = "panicked"
  /\ UNCHANGED <<editor, documents, shard, inbox, ready, parked, out, answers>>

Poll == DidOpen \/ DidChange \/ DidClose \/ Answer \/ Resume \/ Block \/ Panic

\* What is written out is taken from the channel, and makes room for a handler.
PrintDiagnostics ==
  /\ stopped = "no" /\ out # <<>>
  /\ LET p == Head(out)
     IN /\ shown' = [shown EXCEPT ![p.uri] = [of |-> p.version, text |-> p.text]]
        /\ unseen' = unseen \ {p.due}
  /\ out' = Tail(out)
  /\ IF parked = <<>> THEN UNCHANGED <<ready, parked>>
     ELSE ready' = Append(ready, Head(parked)) /\ parked' = Tail(parked)
  /\ UNCHANGED <<view, sent, paced, documents, shard, inbox, answers, stopped>>

PrintAnswer ==
  /\ stopped = "no" /\ answers # <<>>
  /\ answers' = Tail(answers)
  /\ UNCHANGED <<editor, documents, shard, inbox, ready, parked, out, stopped>>

-----------------------------------------------------------------------------
Editor == \E u \in Uris : Open(u) \/ Replace(u) \/ Edit(u) \/ Close(u) \/ Ask(u)
Server == Start \/ Poll \/ PrintDiagnostics \/ PrintAnswer
Next == Editor \/ Server

Spec == Init /\ [][Next]_vars

\* The thread goes on while there is something to do, and the editor reads what is written;
\* it need not send anything.
Fairness ==
  WF_vars(Start) /\ WF_vars(Poll) /\ WF_vars(PrintDiagnostics) /\ WF_vars(PrintAnswer)
FairSpec == Spec /\ Fairness

-----------------------------------------------------------------------------
\* Diagnostics carry the version of the notification they answer, whatever was changed or
\* handled meanwhile, and while a document is sure they are of the text that the notification
\* is about: an edit with wide characters or further breaks elsewhere, or that ends past the
\* end of the text, makes of the server's text what it makes of the editor's.
DiagnosesText ==
  \A i \in DOMAIN out :
    out[i].version = out[i].due /\ (out[i].sure => out[i].text = out[i].said)

\* An answer about a document that is sure is of the text that the editor had when it asked,
\* and not of a later one.
AnswersOfText == \A i \in DOMAIN answers : answers[i].sure => answers[i].text = answers[i].said

\* When nothing is under way the editor shows the diagnostics of the last version of every
\* document, none for one that is closed, and of its own text for one that is sure: texts that
\* have come apart are together again when the document is opened anew or sent whole.
ShownIsLatest ==
  inbox \o ready \o parked \o out = <<>> =>
    \A u \in Uris :
      /\ shown[u].of = view[u].of
      /\ shown[u].text = NoText <=> view[u].text = NoText
      /\ view[u].sure => shown[u].text = view[u].text

\* An editor that is at most two notifications ahead of the diagnostics never blocks the
\* server, whatever it asks meanwhile and however the documents share shards; and a change
\* ends the server only in a document that is not sure.
SafeWhenPaced ==
  /\ stopped = "blocked" => ~paced
  /\ stopped = "panicked" => ~Head(ready).sure

\* When the editor pauses, the diagnostics of every notification come, unless the thread
\* blocks or a change ends the server.
SettlesOrStops == []<>(unseen = {} \/ stopped # "no")

\* "Re-analyze the document": the diagnostics of every notification come (README.md of the
\* language server: "Real-time error reporting").
Reported == []<>(unseen = {})
=============================================================================
