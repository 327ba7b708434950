----------------------------- MODULE MockServer ------------------------------
(***************************************************************************)
(* src/frontend/src/mock-server.ts, ot-engine.ts and app.ts: tabs of one   *)
(* browser that edit together without a server.  Each tab keeps its own    *)
(* docs, an engine with the text it last knew (baseContent), and an        *)
(* editor; it applies and passes on its own edits, and applies those of    *)
(* the others as they come.  A handler is one task of the tab.  While an   *)
(* input method composes, the engine is not told what is on screen.        *)
(*                                                                         *)
(* The engine's list of pending operations is left out: nothing is ever    *)
(* put on it, so transformRemote returns the operation it is given.  So    *)
(* are version numbers, which decide nothing, and localStorage: the        *)
(* documents here are the two seedMockDocs sets anew when a tab loads.     *)
(* Users have different ids.                                               *)
(***************************************************************************)
EXTENDS Naturals, Sequences, FiniteSets

CONSTANTS Tab, Doc,
          Char,
          Typed,            \* the texts a user types
          Seed,             \* Seed[d]: the text seedMockDocs gives d
          MaxEdits,         \* bound on the edits
          MaxOpens,         \* bound on the documents opened
          NoDoc

ASSUME MockAssumption ==
  /\ NoDoc \notin Doc /\ MaxEdits \in Nat /\ MaxOpens \in Nat
  /\ Typed \subseteq Seq(Char) /\ Seed \in [Doc -> Seq(Char)]

VARIABLES
  loaded,    \* the tabs that are there
  docs,      \* docs[t][d]
  roomId,    \* roomId[t]: the document t has open, or NoDoc
  base,      \* base[t]: the engine's baseContent
  editor,    \* editor[t]: the text on screen
  composing, \* the tabs in which an input method composes
  channel,   \* channel[s][t]: what s has posted and t has not seen
  edits, opens,
  disturbed  \* ghost: see DocsAgree

tabVars == <<loaded, docs, roomId, base, editor, composing, channel, edits, opens,
             disturbed>>

TabInit ==
  /\ loaded = {}
  /\ docs = [t \in Tab |-> Seed]
  /\ roomId = [t \in Tab |-> NoDoc]
  /\ base = [t \in Tab |-> <<>>] /\ editor = [t \in Tab |-> <<>>]
  /\ composing = {}
  /\ channel = [s \in Tab |-> [t \in Tab |-> <<>>]]
  /\ edits = 0 /\ opens = 0 /\ disturbed = FALSE

-----------------------------------------------------------------------------
(* Texts and operations.                                                   *)

\* text.slice(from, to): positions past the end count as the end.
Slice(text, from, to) == SubSeq(text, from + 1, IF to < Len(text) THEN to ELSE Len(text))

\* insert, delete or replace, as the mock server, the engine and the editor do it.
Applied(text, op) ==
  LET skip == IF op.type = "insert" THEN 0 ELSE Len(op.content)
      put == IF op.type = "delete" THEN <<>> ELSE op.content
  IN  Slice(text, 0, op.position) \o put \o Slice(text, op.position + skip, Len(text))

\* The length of the longest common prefix.
PrefixLength(old, new) ==
  LET Same(n) == n <= Len(old) /\ n <= Len(new) /\ \A i \in 1..n : old[i] = new[i]
  IN  CHOOSE n \in 0..Len(old) : Same(n) /\ ~Same(n + 1)

\* And of the longest common suffix behind it.
SuffixLength(old, new, prefix) ==
  LET Same(n) == /\ n <= Len(old) - prefix /\ n <= Len(new) - prefix
                 /\ \A i \in 0..n-1 : old[Len(old) - i] = new[Len(new) - i]
  IN  CHOOSE n \in 0..Len(old) : Same(n) /\ ~Same(n + 1)

\* What was deleted between them, then what was inserted.
Diff(old, new) ==
  LET prefix == PrefixLength(old, new)
      suffix == SuffixLength(old, new, prefix)
      deleted == Slice(old, prefix, Len(old) - suffix)
      inserted == Slice(new, prefix, Len(new) - suffix)
      Op(type, content) == IF content = <<>> THEN <<>>
                           ELSE <<[type |-> type, position |-> prefix, content |-> content]>>
  IN  Op("delete", deleted) \o Op("insert", inserted)

\* text with ops applied one after the other.
After(text, ops) ==
  LET f[i \in 0..Len(ops)] == IF i = 0 THEN text ELSE Applied(f[i - 1], ops[i])
  IN  f[Len(ops)]

-----------------------------------------------------------------------------
\* channelSend: the other tabs hear of messages.
Posted(s, messages) ==
  [channel EXCEPT ![s] =
     [t \in Tab |-> IF t \in loaded \ {s} THEN channel[s][t] \o messages ELSE channel[s][t]]]

HasOperation(messages) == \E i \in 1..Len(messages) : messages[i].kind = "operation"

\* An operation somebody else has made and t has not seen.
Unseen(t) == \E s \in Tab : HasOperation(channel[s][t])

\* An operation another tab than t has made and somebody has not seen.
OnItsWay(t) == \E s \in Tab \ {t}, u \in Tab : HasOperation(channel[s][u])

Shows(t, text) == base' = [base EXCEPT ![t] = text] /\ editor' = [editor EXCEPT ![t] = text]

\* init: the documents are set anew.
Load(t) ==
  /\ t \notin loaded
  /\ loaded' = loaded \cup {t}
  /\ docs' = [docs EXCEPT ![t] = Seed]
  /\ disturbed' = (disturbed \/ edits > 0)
  /\ UNCHANGED <<roomId, base, editor, composing, channel, edits, opens>>

\* JOIN_ROOM, which tells the other tabs.
JoinRoom(t, d) ==
  /\ roomId' = [roomId EXCEPT ![t] = d]
  /\ channel' = Posted(t, <<[kind |-> "join", room |-> d]>>)

\* openDocument: setDocContent for the document that is left, then JOIN_ROOM;
\* the tab's own copy is shown.
OpenDocument(t, d) ==
  /\ t \in loaded /\ opens < MaxOpens
  /\ docs' = IF roomId[t] = NoDoc THEN docs ELSE [docs EXCEPT ![t][roomId[t]] = editor[t]]
  /\ disturbed' = (disturbed \/ docs' # docs)
  /\ JoinRoom(t, d)
  /\ Shows(t, docs'[t][d])
  /\ opens' = opens + 1
  /\ UNCHANGED <<loaded, composing, edits>>

\* onEditorInput, with text on screen: the operations the engine makes of
\* the change go through handle() one by one.
OnEditorInput(t, text) ==
  /\ LET ops == Diff(base[t], text)
     IN  /\ docs' = [docs EXCEPT ![t][roomId[t]] = After(@, ops)]
         /\ channel' = Posted(t, [i \in DOMAIN ops |->
                                    [kind |-> "operation", room |-> roomId[t], op |-> ops[i]]])
  /\ Shows(t, text)
  /\ disturbed' = (disturbed \/ OnItsWay(t))
  /\ UNCHANGED <<loaded, roomId, opens>>

\* A user types.
Input(t) ==
  /\ roomId[t] # NoDoc /\ t \notin composing /\ edits < MaxEdits
  /\ \E text \in Typed \ {editor[t]} : OnEditorInput(t, text)
  /\ edits' = edits + 1
  /\ UNCHANGED composing

\* A user types with an input method, from compositionstart on: only the
\* screen changes, whatever else arrives at the tab before ...
Compose(t) ==
  /\ roomId[t] # NoDoc /\ edits < MaxEdits
  /\ \E text \in Typed \ {editor[t]} : editor' = [editor EXCEPT ![t] = text]
  /\ composing' = composing \cup {t}
  /\ edits' = edits + 1
  /\ UNCHANGED <<loaded, docs, roomId, base, channel, opens, disturbed>>

\* ... compositionend, which takes what is on screen then for the edit.
CompositionEnd(t) ==
  /\ t \in composing /\ composing' = composing \ {t}
  /\ OnEditorInput(t, editor[t])
  /\ UNCHANGED edits

Received(s, t, kind) == channel[s][t] # <<>> /\ Head(channel[s][t]).kind = kind

Seen(s, t) == [channel EXCEPT ![s][t] = Tail(@)]

\* The engine's text and the text on screen are edited alike.
ApplyRemoteOp(t, op) ==
  /\ base' = [base EXCEPT ![t] = Applied(@, op)]
  /\ editor' = [editor EXCEPT ![t] = Applied(@, op)]

\* Mutant: the operations of other documents are passed over.
OnOperationHere(s, t) ==
  /\ Received(s, t, "operation")
  /\ LET m == Head(channel[s][t])
     IN  IF m.room = roomId[t]
         THEN /\ docs' = [docs EXCEPT ![t][m.room] = Applied(@, m.op)]
              /\ Shows(t, Applied(editor[t], m.op))
         ELSE UNCHANGED <<docs, base, editor>>
  /\ channel' = Seen(s, t)
  /\ UNCHANGED <<loaded, roomId, composing, edits, opens, disturbed>>

\* The copy of its document is edited, and the text on screen, whatever
\* document that is.
OnOperation(s, t) ==
  /\ Received(s, t, "operation")
  /\ LET m == Head(channel[s][t])
     IN  /\ docs' = [docs EXCEPT ![t][m.room] = Applied(@, m.op)]
         /\ ApplyRemoteOp(t, m.op)
  /\ channel' = Seen(s, t)
  /\ UNCHANGED <<loaded, roomId, composing, edits, opens, disturbed>>

\* Mutant: the one who joins is told who is there and not what is written.
OnUserJoinGreeting(s, t) ==
  /\ Received(s, t, "join")
  /\ channel' =
       LET m == Head(channel[s][t])
       IN  [Posted(t, IF roomId[t] = m.room THEN <<m>> ELSE <<>>) EXCEPT ![s][t] = Tail(@)]
  /\ UNCHANGED <<loaded, docs, roomId, base, editor, composing, edits, opens, disturbed>>

\* In the same document, the tab answers with a USER_JOIN of its own, which is
\* answered in turn, and with its copy.
OnUserJoin(s, t) ==
  /\ Received(s, t, "join")
  /\ channel' =
       LET m == Head(channel[s][t])
           answer == IF roomId[t] = m.room
                     THEN <<m, [kind |-> "sync", content |-> docs[t][m.room]]>> ELSE <<>>
       IN  [Posted(t, answer) EXCEPT ![s][t] = Tail(@)]
  /\ UNCHANGED <<loaded, docs, roomId, base, editor, composing, edits, opens, disturbed>>

\* DOCUMENT_SYNC names no document: it replaces the text on screen, and not
\* the tab's copy of the document.
OnDocumentSync(s, t) ==
  /\ Received(s, t, "sync")
  /\ Shows(t, Head(channel[s][t]).content)
  /\ channel' = Seen(s, t)
  /\ UNCHANGED <<loaded, docs, roomId, composing, edits, opens, disturbed>>

OnMessageFrom(s, t) == OnOperation(s, t) \/ OnUserJoin(s, t) \/ OnDocumentSync(s, t)

TabNext ==
  \/ \E t \in Tab : Load(t) \/ Input(t) \/ Compose(t) \/ CompositionEnd(t)
  \/ \E t \in Tab, d \in Doc : OpenDocument(t, d)
  \/ \E s, t \in Tab : OnMessageFrom(s, t)

\* The browser delivers what was posted.
TabFairness == \A s \in Tab : \A t \in Tab \ {s} : WF_tabVars(OnMessageFrom(s, t))

-----------------------------------------------------------------------------
(* The engine knows the text on screen, save while an input method         *)
(* composes, and the operations made of any change of it make the new text *)
(* of the old one; and when all has arrived the tabs have the same copies  *)
(* of every document, unless one was edited while an operation of another  *)
(* tab was on its way to any, was left while the screen showed another     *)
(* text, or a tab was loaded after the first edit: nothing is transformed, *)
(* and channels of two tabs are not in step.                               *)
DocsAgree ==
  /\ \A t \in Tab \ composing : base[t] = editor[t]
  /\ \A t \in Tab : \A text \in Typed : After(base[t], Diff(base[t], text)) = text
  /\ ~disturbed /\ (\A t \in Tab : ~Unseen(t)) => \A s, t \in loaded : docs[s] = docs[t]

(* Under the same proviso, when all tabs stay in one document and no input *)
(* method is left composing, they show the same text in the end, whatever  *)
(* stale syncs, operations of other documents and operations that came     *)
(* into a composition have put on their screens before.                    *)
EditorsHeal ==
  <>[](~disturbed /\ composing = {} /\ \E d \in Doc : \A t \in Tab : roomId[t] = d)
    => <>[](\A s, t \in Tab : editor[s] = editor[t])
=============================================================================
