---------------------------- MODULE SettingsProofs ----------------------------
(***************************************************************************)
(* Settings, for any nodes, templates, tabs, networks and any number of    *)
(* cards and of calls in flight.  What is sent and which images are        *)
(* offered follows from the calls alone (IInv); the cards, what was asked  *)
(* about the subject and what is shown of it are a second invariant        *)
(* (FormOK), inductive given the first.                                    *)
(***************************************************************************)
EXTENDS Settings, SequenceTheorems, FiniteSetTheorems, TLAPS

Args    == {""} \cup Sources \cup Nodes \cup {NoNode}
Tabs    == ToSet(WriteOrder) \cup UpdateParts
Calling == [op : {"nodes", "images", "inspect", "save"}, arg : Args, parts : SUBSET Tabs]

SentOK ==
  /\ calls \in Seq(Calling) /\ node \in Nodes \cup {NoNode} /\ template \in Sources
  /\ dialog.parts \subseteq Tabs

\* A window that edits a container shows no message that would be followed by
\* the parts it has.
NoMessage == kind = "edit" => dialog.is # "message"

\* While a container is created, and its node not chosen: the list of nodes is
\* asked for once, and the images after it, of the node it brings.
ImagesFollow ==
  kind = "create" /\ "node" \notin touched =>
    /\ images \in {NoNode, node}
    /\ \A i \in DOMAIN calls : calls[i].op = "images" => calls[i].arg = node
    /\ \A i \in DOMAIN calls : calls[i].op = "nodes" =>
         /\ images = NoNode
         /\ \A j \in DOMAIN calls : calls[j].op # "images" /\ (calls[j].op = "nodes" => i = j)

IInv == SentOK /\ NoMessage /\ UpdateIsWhole /\ ImagesFollow

\* The cards are one list without repetition, and never none.
ListOK == rows \in Seq(Cards) /\ rows # <<>> /\ IsInjective(rows)
Contents == [Cards -> [offers : Nodes \cup {NoNode}, value : Values]]
CardsOK == ListOK /\ CardsAgree /\ content \in Contents

\* The subject is inspected once, by the windows that are opened for it; the
\* others inspect nothing, or the templates chosen.
Inspecting == {"edit", "editTemplate", "generate"}
AskedOK ==
  /\ kind \notin Inspecting => ~inspected
  /\ kind = "from" => template \in Templates
  /\ \A i \in DOMAIN calls : calls[i].op = "images" => calls[i].arg \in Nodes \cup {NoNode}
  /\ \A i \in DOMAIN calls : calls[i].op = "inspect" =>
       \/ kind = "from" /\ calls[i].arg \in Templates
       \/ /\ kind \in Inspecting /\ calls[i].arg = Subject /\ ~inspected
          /\ \A j \in DOMAIN calls : calls[j].op = "inspect" => i = j

\* Until the configuration of the subject is shown, or the user adds one, there
\* is the card of the constructor only.
Pristine == kind # "from" /\ ~inspected /\ touched = {} => Len(rows) = 1

PlainOK ==
  /\ kind \in Kinds /\ life \in {"open", "closed", "overrun", "freed"}
  /\ nodes \subseteq Nodes /\ node \in nodes \cup {NoNode} /\ images \in Nodes \cup {NoNode}
  /\ wrong \subseteq Faults
  /\ dialog \in [is : {"none", "delete", "message"}, card : Cards \cup {0},
                parts : SUBSET ToSet(WriteOrder)]
  /\ Len(calls) <= MaxCalls
  /\ touched \subseteq {"node", "cards"} /\ inspected \in BOOLEAN

\* The inductive invariant of the form, given that of the calls.
FormOK == PlainOK /\ CardsOK /\ AskedOK /\ Pristine /\ ShowsInspected /\ OffersItsNode

-----------------------------------------------------------------------------
(* The calls in flight, a sequence.                                        *)

\* What is left of a sequence without its i-th element.
LEMMA Removed ==
  ASSUME NEW S, NEW s \in Seq(S), NEW i \in 1..Len(s)
  PROVE  /\ RemoveAt(s, i) \in Seq(S) /\ Len(RemoveAt(s, i)) = Len(s) - 1
         /\ \A k \in 1..(Len(s) - 1) : RemoveAt(s, i)[k] = IF k < i THEN s[k] ELSE s[k + 1]
  <1> DEFINE front == SubSeq(s, 1, i - 1)
             back  == SubSeq(s, i + 1, Len(s))
  <1>1. /\ front \in Seq(S) /\ Len(front) = i - 1
        /\ \A k \in 1..(i - 1) : front[k] = s[k]
    <2>1. \A k \in 1..(i - 1) : s[k] \in S
      OBVIOUS
    <2>2. /\ SubSeq(s, 1, i - 1) \in Seq(S)
          /\ Len(SubSeq(s, 1, i - 1)) = IF 1 <= i - 1 THEN i - 1 - 1 + 1 ELSE 0
          /\ \A k \in 1..(i - 1 - 1 + 1) : SubSeq(s, 1, i - 1)[k] = s[1 + k - 1]
      BY <2>1, SubSeqProperties
    <2> QED BY <2>2
  <1>2. /\ back \in Seq(S) /\ Len(back) = Len(s) - i
        /\ \A k \in 1..(Len(s) - i) : back[k] = s[i + k]
    <2>1. \A k \in (i + 1)..Len(s) : s[k] \in S
      OBVIOUS
    <2>2. /\ SubSeq(s, i + 1, Len(s)) \in Seq(S)
          /\ Len(SubSeq(s, i + 1, Len(s))) = IF i + 1 <= Len(s) THEN Len(s) - (i + 1) + 1 ELSE 0
          /\ \A k \in 1..(Len(s) - (i + 1) + 1) : SubSeq(s, i + 1, Len(s))[k] = s[i + 1 + k - 1]
      BY <2>1, SubSeqProperties
    <2> QED BY <2>2
  <1> HIDE DEF front, back
  <1>3. /\ front \o back \in Seq(S) /\ Len(front \o back) = Len(s) - 1
        /\ \A k \in 1..(Len(s) - 1) : (front \o back)[k] = IF k < i THEN front[k] ELSE back[k - (i - 1)]
    <2>1. /\ front \o back \in Seq(S) /\ Len(front \o back) = Len(front) + Len(back)
          /\ \A k \in 1..(Len(front) + Len(back)) :
               (front \o back)[k] = IF k <= Len(front) THEN front[k] ELSE back[k - Len(front)]
      BY <1>1, <1>2, ConcatProperties
    <2>2. Len(front) = i - 1 /\ Len(front) + Len(back) = Len(s) - 1 /\ Len(s) \in Nat
      BY <1>1, <1>2
    <2>3. \A k \in 1..(Len(s) - 1) : k <= i - 1 <=> k < i
      BY <2>2
    <2> QED BY <2>1, <2>2, <2>3
  <1>4. RemoveAt(s, i) = front \o back
    BY DEF RemoveAt, front, back
  <1>5. ASSUME NEW k \in 1..(Len(s) - 1)
        PROVE  (front \o back)[k] = IF k < i THEN s[k] ELSE s[k + 1]
    <2>1. CASE k < i
      BY <1>1, <1>3, <2>1
    <2>2. CASE ~(k < i)
      <3>1. k - (i - 1) \in 1..(Len(s) - i) /\ i + (k - (i - 1)) = k + 1
        BY <2>2
      <3> QED BY <1>2, <1>3, <2>2, <3>1
    <2> QED BY <2>1, <2>2
  <1> QED BY <1>3, <1>4, <1>5

LEMMA CallOK ==
  ASSUME NEW op \in {"nodes", "images", "inspect", "save"}, NEW arg \in Args
  PROVE  Call(op, arg) \in Calling /\ Call(op, arg).op = op /\ Call(op, arg).arg = arg
  BY DEF Call, Calling

LEMMA SaveOK ==
  ASSUME NEW parts \in SUBSET Tabs
  PROVE  Save(parts) \in Calling /\ Save(parts).op = "save" /\ Save(parts).parts = parts
  BY DEF Save, Calling, Args

LEMMA WrittenOK == Written \in SUBSET Tabs
  BY DEF Written, Tabs, ToSet

LEMMA ArgsOK ==
  ASSUME node \in Nodes \cup {NoNode}
  PROVE  /\ node \in Args /\ "" \in Args /\ Subject \in Args
         /\ \A n \in Nodes : n \in Args
         /\ \A t \in Templates : t \in Args
  BY DEF Args, Sources

\* A call is made: not of images, nor of nodes.
LEMMA SendKeeps ==
  ASSUME IInv, NEW call \in Calling, Send(call),
         call.op \in {"inspect", "save"},
         kind = "edit" /\ call.op = "save" => call.parts = UpdateParts,
         UNCHANGED <<kind, images, touched>>, NoMessage', dialog'.parts \subseteq Tabs, template' \in Sources,
         node' \in Nodes \cup {NoNode}, kind = "create" => node' = node
  PROVE  IInv'
  <1>1. /\ calls' \in Seq(Calling) /\ Len(calls') = Len(calls) + 1
        /\ \A k \in 1..Len(calls) : calls'[k] = calls[k]
        /\ calls'[Len(calls) + 1] = call
    BY DEF Send, IInv, SentOK
  <1>2. DOMAIN calls = 1..Len(calls) /\ DOMAIN calls' = 1..(Len(calls) + 1) /\ Len(calls) \in Nat
    BY <1>1 DEF IInv, SentOK
  <1>3. UpdateIsWhole'
    BY <1>1, <1>2 DEF IInv, UpdateIsWhole
  <1>4. ImagesFollow'
    <2>1. \A k \in DOMAIN calls' : (k \in DOMAIN calls /\ calls'[k] = calls[k]) \/ calls'[k] = call
      BY <1>1, <1>2
    <2>2. \A k \in DOMAIN calls' : calls'[k].op \in {"images", "nodes"} =>
            k \in DOMAIN calls /\ calls'[k] = calls[k]
      BY <2>1
    <2> QED BY <2>2 DEF IInv, ImagesFollow
  <1> QED BY <1>1, <1>3, <1>4 DEF IInv, SentOK

\* A call is answered, and no other made.
LEMMA OthersKeep ==
  ASSUME IInv, NEW i \in DOMAIN calls, calls' = Others(i),
         UNCHANGED <<kind, touched, node, template, dialog>>,
         \/ UNCHANGED images
         \/ calls[i].op = "images" /\ images' = calls[i].arg
  PROVE  IInv'
  <1>1. calls \in Seq(Calling) /\ i \in 1..Len(calls) /\ Len(calls) \in Nat /\ DOMAIN calls = 1..Len(calls)
    BY DEF IInv, SentOK
  <1>2. /\ calls' \in Seq(Calling) /\ Len(calls') = Len(calls) - 1
        /\ \A k \in 1..(Len(calls) - 1) : calls'[k] = IF k < i THEN calls[k] ELSE calls[k + 1]
    BY <1>1, Removed DEF Others
  <1>3. DOMAIN calls' = 1..(Len(calls) - 1)
    BY <1>2
  <1> DEFINE was(k) == IF k < i THEN k ELSE k + 1
  <1>4. /\ \A k \in DOMAIN calls' : was(k) \in DOMAIN calls /\ calls'[k] = calls[was(k)]
        /\ \A k, l \in DOMAIN calls' : was(k) = was(l) => k = l
    BY <1>1, <1>2, <1>3
  <1> HIDE DEF was
  <1>5. UpdateIsWhole'
    BY <1>4 DEF IInv, UpdateIsWhole
  <1>6. ImagesFollow'
    <2> SUFFICES ASSUME kind = "create", "node" \notin touched
                 PROVE  /\ images' \in {NoNode, node}
                        /\ \A k \in DOMAIN calls' : calls'[k].op = "images" => calls'[k].arg = node
                        /\ \A k \in DOMAIN calls' : calls'[k].op = "nodes" =>
                             /\ images' = NoNode
                             /\ \A l \in DOMAIN calls' :
                                  calls'[l].op # "images" /\ (calls'[l].op = "nodes" => k = l)
      BY DEF ImagesFollow
    <2>1. images' \in {NoNode, node}
      BY DEF IInv, ImagesFollow
    <2>2. \A k \in DOMAIN calls' : calls'[k].op = "images" => calls'[k].arg = node
      BY <1>4 DEF IInv, ImagesFollow
    <2>3. ASSUME NEW k \in DOMAIN calls', calls'[k].op = "nodes"
          PROVE  /\ images' = NoNode
                 /\ \A l \in DOMAIN calls' :
                      calls'[l].op # "images" /\ (calls'[l].op = "nodes" => k = l)
      <3>1. was(k) \in DOMAIN calls /\ calls[was(k)].op = "nodes"
        BY <1>4, <2>3
      <3>2. /\ images = NoNode
            /\ \A j \in DOMAIN calls : calls[j].op # "images" /\ (calls[j].op = "nodes" => was(k) = j)
        BY <3>1 DEF IInv, ImagesFollow
      <3> QED BY <1>4, <3>2
    <2> QED BY <2>1, <2>2, <2>3
  <1>7. NoMessage'
    BY DEF IInv, NoMessage
  <1> QED BY <1>2, <1>5, <1>6, <1>7 DEF IInv, SentOK

\* No call is made nor answered.
LEMMA SameKeeps ==
  ASSUME IInv, UNCHANGED <<kind, calls, node, template, images>>, touched \subseteq touched',
         NoMessage', dialog'.parts \subseteq Tabs
  PROVE  IInv'
  <1>1. SentOK'
    BY DEF IInv, SentOK
  <1>2. UpdateIsWhole' /\ ImagesFollow'
    BY DEF IInv, UpdateIsWhole, ImagesFollow
  <1> QED BY <1>1, <1>2 DEF IInv

-----------------------------------------------------------------------------
(* The user.                                                               *)

LEMMA ChooseNodeKeeps == ASSUME IInv, NEW n \in Nodes, ChooseNode(n) PROVE IInv'
  <1> USE DEF ChooseNode
  <1>1. AsksImages(n) \in Seq(Calling)
    <2>1. Call("images", n) \in Calling
      BY CallOK DEF Args
    <2> QED BY <2>1 DEF AsksImages
  <1>2. SentOK'
    BY <1>1, ConcatProperties DEF IInv, SentOK
  <1>3. NoMessage' /\ UpdateIsWhole' /\ ImagesFollow'
    BY DEF IInv, NoMessage, UpdateIsWhole, ImagesFollow
  <1> QED BY <1>2, <1>3 DEF IInv

LEMMA ChooseTemplateKeeps == ASSUME IInv, NEW t \in Templates, ChooseTemplate(t) PROVE IInv'
  <1> USE DEF ChooseTemplate
  <1>1. Call("inspect", t) \in Calling /\ Call("inspect", t).op = "inspect"
    BY CallOK DEF Args, Sources
  <1>2. t \in Sources /\ NodeOf[t] \in Nodes
    BY SettingsAssumption DEF Sources
  <1>3. node' \in Nodes \cup {NoNode}
    BY <1>2 DEF Picked, IInv, SentOK
  <1>4. NoMessage' /\ dialog'.parts \subseteq Tabs
    BY DEF IInv, NoMessage, SentOK
  <1>5. Send(Call("inspect", t)) /\ UNCHANGED <<kind, images, touched>> /\ kind # "create"
        /\ template' \in Sources
    BY <1>2
  <1> HIDE DEF ChooseTemplate
  <1> QED BY <1>1, <1>3, <1>4, <1>5, SendKeeps

LEMMA WorkKeeps ==
  ASSUME IInv, \/ AddItem \/ Close
               \/ \E card \in Cards : TypeNetwork(card) \/ AskDelete(card)
               \/ \E f \in Faults : TypeTab(f)
               \/ \E yes \in BOOLEAN : AnswerDelete(yes)
  PROVE  IInv'
  <1>1. UNCHANGED <<kind, calls, node, template, images>>
    BY DEF AddItem, Close, TypeNetwork, AskDelete, TypeTab, AnswerDelete, choice, form
  <1>2. touched \subseteq touched'
    BY DEF AddItem, Close, TypeNetwork, AskDelete, TypeTab, AnswerDelete, DelItem
  <1>3. dialog' = dialog \/ dialog' = NoDialog \/ \E card : dialog' = Question(card)
    BY DEF AddItem, Close, TypeNetwork, AskDelete, TypeTab, AnswerDelete
  <1>4. NoMessage' /\ dialog'.parts \subseteq Tabs
    <2>1. NoDialog.is = "none" /\ NoDialog.parts = {}
      BY DEF NoDialog
    <2>2. \A card : Question(card).is = "delete" /\ Question(card).parts = {}
      BY DEF NoDialog, Question
    <2> QED BY <1>1, <1>3, <2>1, <2>2 DEF IInv, NoMessage, SentOK
  <1> QED BY <1>1, <1>2, <1>4, SameKeeps

LEMMA ConfirmKeeps ==
  ASSUME IInv, ConfirmCreate \/ DismissMessage \/ ConfirmUpdate
  PROVE  IInv'
  <1>1. /\ UNCHANGED <<kind, node, template, images, touched>>
        /\ template \in Sources /\ node \in Nodes \cup {NoNode} /\ dialog.parts \subseteq Tabs
    BY DEF ConfirmCreate, DismissMessage, ConfirmUpdate, form, choice, IInv, SentOK
  <1>2. ASSUME NEW parts \in SUBSET Tabs, Send(Save(parts)), kind = "edit" => parts = UpdateParts,
               dialog' = dialog \/ dialog' = NoDialog
        PROVE  IInv'
    <2>1. Save(parts) \in Calling /\ Save(parts).op = "save" /\ Save(parts).parts = parts
      BY SaveOK
    <2>2. NoMessage' /\ dialog'.parts \subseteq Tabs
      BY <1>1, <1>2 DEF IInv, NoMessage, NoDialog
    <2> QED BY <1>1, <1>2, <2>1, <2>2, SendKeeps
  <1>3. CASE ConfirmCreate
    <2>1. CASE Send(Save(Written)) /\ UNCHANGED dialog
      BY <1>2, <1>3, <2>1, WrittenOK DEF ConfirmCreate
    <2>2. CASE dialog' = Message(Written) /\ UNCHANGED calls
      <3>1. NoMessage' /\ dialog'.parts \subseteq Tabs
        BY <1>3, <2>2, WrittenOK DEF ConfirmCreate, NoMessage, Message, NoDialog
      <3> QED BY <1>1, <2>2, <3>1, SameKeeps
    <2> QED BY <1>3, <2>1, <2>2 DEF ConfirmCreate
  <1>4. CASE DismissMessage
    <2>1. Send(Save(dialog.parts)) /\ kind # "edit" /\ dialog' = NoDialog /\ dialog.parts \in SUBSET Tabs
      BY <1>1, <1>4 DEF DismissMessage, IInv, NoMessage
    <2> QED BY <1>2, <2>1
  <1>5. CASE ConfirmUpdate
    <2>1. Send(Save(UpdateParts)) /\ dialog' = dialog /\ UpdateParts \in SUBSET Tabs
      BY <1>5 DEF ConfirmUpdate, Tabs
    <2> QED BY <1>2, <2>1
  <1> QED BY <1>3, <1>4, <1>5

-----------------------------------------------------------------------------
(* Replies.                                                                *)

\* The list of nodes: it selects one, and asks for the images of that.
LEMMA NodeListKeeps ==
  ASSUME IInv, NEW i, NEW listed \in SUBSET Nodes, GetNodeListResult(i, listed)
  PROVE  IInv'
  <1> DEFINE rest == Others(i)
             more == IF kind = "from" THEN <<Call("inspect", template)>> ELSE <<>>
             last == AsksImages(node')
  <1>1. /\ i \in DOMAIN calls /\ calls[i].op = "nodes" /\ calls' = rest \o more \o last
        /\ UNCHANGED <<kind, template, images, dialog, touched>>
    BY DEF GetNodeListResult, Pending
  <1>2. node' \in Nodes \cup {NoNode}
    <2>1. \A wanted, otherwise : Picked(wanted, listed, otherwise) \in listed \cup {otherwise}
      BY DEF Picked
    <2>2. \E first \in IF listed = {} THEN {NoNode} ELSE listed :
            \E wanted : node' = Picked(wanted, listed, first)
      BY Zenon DEF GetNodeListResult
    <2> QED BY <2>1, <2>2
  <1>3. calls \in Seq(Calling) /\ i \in 1..Len(calls) /\ Len(calls) \in Nat
    BY <1>1 DEF IInv, SentOK
  <1>4. /\ rest \in Seq(Calling) /\ Len(rest) = Len(calls) - 1
        /\ \A k \in 1..(Len(calls) - 1) : rest[k] = IF k < i THEN calls[k] ELSE calls[k + 1]
    BY <1>3, Removed DEF Others
  <1>5. Call("inspect", template) \in Calling /\ Call("images", node') \in Calling
        /\ Call("images", node').op = "images" /\ Call("images", node').arg = node'
    BY <1>2, CallOK DEF IInv, SentOK, Args
  <1>6. more \in Seq(Calling) /\ last \in Seq(Calling)
    BY <1>5 DEF AsksImages
  <1>7. kind = "create" => more = <<>> /\ last = <<Call("images", node')>>
    BY DEF AsksImages, ForImages
  <1>8. kind = "edit" => more = <<>> /\ last = <<>>
    BY DEF AsksImages, ForImages
  <1> HIDE DEF rest, more, last
  <1>9. SentOK' /\ NoMessage'
    <2>1. calls' \in Seq(Calling)
      BY <1>1, <1>4, <1>6, ConcatProperties
    <2> QED BY <1>1, <1>2, <2>1 DEF IInv, SentOK, NoMessage
  <1>10. \A k \in DOMAIN rest : \E j \in DOMAIN calls : j # i /\ rest[k] = calls[j]
    BY <1>3, <1>4
  <1>11. UpdateIsWhole'
    <2> SUFFICES ASSUME kind = "edit" PROVE UpdateIsWhole'
      BY <1>1 DEF UpdateIsWhole
    <2>1. calls' = rest
      BY <1>1, <1>4, <1>8
    <2> QED BY <1>1, <1>10, <2>1 DEF IInv, UpdateIsWhole
  <1>12. ImagesFollow'
    <2> SUFFICES ASSUME kind = "create", "node" \notin touched
                 PROVE  /\ images' \in {NoNode, node'}
                        /\ \A k \in DOMAIN calls' : calls'[k].op = "images" => calls'[k].arg = node'
                        /\ \A k \in DOMAIN calls' : calls'[k].op # "nodes"
      BY <1>1 DEF ImagesFollow
    <2>1. images = NoNode /\ \A j \in DOMAIN calls : j # i => calls[j].op \notin {"images", "nodes"}
      BY <1>1 DEF IInv, ImagesFollow
    <2> DEFINE asked == Call("images", node')
    <2> HIDE DEF asked
    <2>2. calls' = rest \o <<asked>> /\ asked \in Calling
      <3>1. rest \o <<>> = rest
        BY <1>4, ConcatEmptySeq
      <3> QED BY <1>1, <1>5, <1>7, <3>1 DEF asked
    <2>3. /\ Len(calls') = Len(rest) + 1 /\ calls' \in Seq(Calling)
          /\ \A k \in 1..(Len(rest) + 1) : calls'[k] = IF k <= Len(rest) THEN rest[k] ELSE asked
      <3>1. <<asked>> \in Seq(Calling) /\ Len(<<asked>>) = 1 /\ <<asked>>[1] = asked
        BY <2>2
      <3>2. /\ rest \o <<asked>> \in Seq(Calling) /\ Len(rest \o <<asked>>) = Len(rest) + Len(<<asked>>)
            /\ \A k \in 1..(Len(rest) + Len(<<asked>>)) :
                 (rest \o <<asked>>)[k] = IF k <= Len(rest) THEN rest[k] ELSE <<asked>>[k - Len(rest)]
        BY <1>4, <3>1, ConcatProperties
      <3> QED BY <1>3, <1>4, <2>2, <3>1, <3>2
    <2>4. \A k \in DOMAIN calls' : calls'[k] = asked \/ (k \in DOMAIN rest /\ calls'[k] = rest[k])
      <3>1. DOMAIN calls' = 1..(Len(rest) + 1) /\ DOMAIN rest = 1..Len(rest) /\ Len(rest) \in Nat
        BY <1>3, <1>4, <2>3
      <3> QED BY <2>3, <3>1
    <2>5. asked.op = "images" /\ asked.arg = node'
      BY <1>5 DEF asked
    <2> QED BY <1>1, <1>10, <2>1, <2>4, <2>5
  <1> QED BY <1>9, <1>11, <1>12 DEF IInv

LEMMA ReplyKeeps == ASSUME IInv, NEW i, Reply(i) PROVE IInv'
  <1>1. CASE \E listed \in SUBSET Nodes : GetNodeListResult(i, listed)
    BY <1>1, NodeListKeeps
  <1>2. CASE GetListImageFinishedResult(i)
    BY <1>2, OthersKeep DEF GetListImageFinishedResult, Pending
  <1>3. CASE \/ CallFails(i) \/ GetContainerInspectResult(i) \/ GetInspectTemplateFinishResult(i)
             \/ GetSaveResult(i)
    <2>1. i \in DOMAIN calls /\ calls' = Others(i)
          /\ UNCHANGED <<kind, touched, node, template, dialog, images>>
      BY <1>3 DEF CallFails, GetContainerInspectResult, GetInspectTemplateFinishResult, GetSaveResult,
         Pending, form, choice
    <2> QED BY <2>1, OthersKeep
  <1> QED BY <1>1, <1>2, <1>3 DEF Reply

-----------------------------------------------------------------------------
(* Lists of cards.                                                         *)

LEMMA FirstOK ==
  ASSUME NEW n \in Nat
  PROVE  IsFiniteSet(1..n) /\ Cardinality(1..n) = n
  <1>1. IsFiniteSet(1..n) /\ Cardinality(1..n) = IF 1 > n THEN 0 ELSE n - 1 + 1
    BY FS_Interval
  <1> QED BY <1>1

\* A finite set of numbers has an i-th smallest, for each i up to its size:
\* the rank is an injection into 1..Cardinality(S), and so it is onto.
LEMMA NthIsRanked ==
  ASSUME NEW S \in SUBSET Nat, IsFiniteSet(S), NEW i \in 1..Cardinality(S)
  PROVE  Nth(S, i) \in S /\ Cardinality({m \in S : m <= Nth(S, i)}) = i
  <1> DEFINE upTo(k) == {m \in S : m <= k}
             rank == [k \in S |-> Cardinality(upTo(k))]
             ranks == 1..Cardinality(S)
  <1>1. \A k \in S : IsFiniteSet(upTo(k)) /\ Cardinality(upTo(k)) \in ranks
    <2> TAKE k \in S
    <2>1. upTo(k) \in SUBSET S /\ k \in upTo(k)
      OBVIOUS
    <2>2. IsFiniteSet(upTo(k)) /\ Cardinality(upTo(k)) <= Cardinality(S)
      BY <2>1, FS_Subset
    <2>3. Cardinality(upTo(k)) \in Nat /\ Cardinality(S) \in Nat
      BY <2>2, FS_CardinalityType
    <2>4. Cardinality(upTo(k)) # 0
      BY <2>1, <2>2, FS_EmptySet
    <2> QED BY <2>2, <2>3, <2>4
  <1>2. ASSUME NEW k \in S, NEW l \in S, k < l PROVE Cardinality(upTo(k)) # Cardinality(upTo(l))
    <2>1. k \in Nat /\ l \in Nat /\ \A m \in S : m \in Nat
      OBVIOUS
    <2>2. \A m \in S : m <= k => m <= l
      BY <1>2, <2>1
    <2>3. upTo(k) \in SUBSET upTo(l)
      BY <2>2
    <2>4. l \in upTo(l) /\ l \notin upTo(k)
      BY <1>2, <2>1
    <2> QED BY <1>1, <2>3, <2>4, FS_Subset
  <1>3. \A k, l \in S : rank[k] = rank[l] => k = l
    <2> HIDE DEF upTo
    <2> SUFFICES ASSUME NEW k \in S, NEW l \in S, rank[k] = rank[l] PROVE k = l
      OBVIOUS
    <2>1. ~(k < l) /\ ~(l < k)
      BY <1>2
    <2> QED BY <2>1
  <1>4. rank \in Injection(S, ranks)
    <2> HIDE DEF upTo, ranks
    <2>1. rank \in [S -> ranks] /\ DOMAIN rank = S
      BY <1>1
    <2> HIDE DEF rank
    <2> QED BY <1>3, <2>1 DEF Injection, IsInjective
  <1>5. IsFiniteSet(ranks) /\ Cardinality(ranks) = Cardinality(S)
    <2>1. Cardinality(S) \in Nat
      BY FS_CardinalityType
    <2> QED BY <2>1, FS_Interval
  <1>6. rank \in Surjection(S, ranks)
    <2> HIDE DEF rank, ranks
    <2> QED BY <1>4, <1>5, FS_Injection
  <1>7. \E k \in S : Cardinality(upTo(k)) = i
    <2>1. PICK k \in S : rank[k] = i
      BY <1>6 DEF Surjection
    <2> QED BY <2>1
  <1> QED BY <1>7 DEF Nth

\* What is left of a list without repetition is a list without repetition, of
\* elements it had, and as much shorter as was deleted.
LEMMA WithoutOK ==
  ASSUME NEW T, NEW s \in Seq(T), IsInjective(s), NEW which \in SUBSET DOMAIN s
  PROVE  /\ Cardinality(which) \in Nat /\ Cardinality(which) <= Len(s)
         /\ Without(s, which) \in Seq(T) /\ IsInjective(Without(s, which))
         /\ Len(Without(s, which)) = Len(s) - Cardinality(which)
         /\ \A i \in DOMAIN Without(s, which) : Without(s, which)[i] \in ToSet(s)
  <1> DEFINE kept == DOMAIN s \ which
             n == Len(s) - Cardinality(which)
  <1>1. /\ DOMAIN s = 1..Len(s) /\ Len(s) \in Nat
        /\ IsFiniteSet(DOMAIN s) /\ Cardinality(DOMAIN s) = Len(s)
    BY FirstOK
  <1>2. IsFiniteSet(which) /\ Cardinality(which) <= Len(s) /\ Cardinality(which) \in Nat
    BY <1>1, FS_Subset, FS_CardinalityType
  <1>3. /\ IsFiniteSet(kept) /\ Cardinality(kept) = n
        /\ kept \in SUBSET Nat /\ kept \subseteq DOMAIN s
    <2>1. DOMAIN s \cap which = which
      OBVIOUS
    <2> DEFINE all == DOMAIN s
    <2>2. IsFiniteSet(all) /\ Cardinality(all) = Len(s) /\ all \cap which = which
      BY <1>1, <2>1
    <2> HIDE DEF all
    <2>3. /\ IsFiniteSet(all \ which)
          /\ Cardinality(all \ which) = Cardinality(all) - Cardinality(all \cap which)
      BY <2>2, FS_Difference
    <2>4. IsFiniteSet(kept) /\ Cardinality(kept) = n
      BY <2>2, <2>3 DEF all
    <2> QED BY <1>1, <2>4
  <1>4. n \in Nat
    BY <1>1, <1>2
  <1> HIDE DEF kept, n
  <1>5. \A i \in 1..n : Nth(kept, i) \in kept /\ Cardinality({m \in kept : m <= Nth(kept, i)}) = i
    BY <1>3, NthIsRanked
  <1>6. Without(s, which) = [i \in 1..n |-> s[Nth(kept, i)]]
    BY DEF Without, n, kept
  <1>7. \A i \in 1..n : s[Nth(kept, i)] \in T
    <2>1. \A k \in kept : s[k] \in T
      BY <1>1, <1>3, ElementOfSeq
    <2> QED BY <1>5, <2>1
  <1>8. Without(s, which) \in [1..n -> T] /\ DOMAIN Without(s, which) = 1..n
    BY <1>6, <1>7
  <1>9. Without(s, which) \in Seq(T) /\ Len(Without(s, which)) = n
    BY <1>4, <1>8
  <1>10. IsInjective(Without(s, which))
    <2> SUFFICES ASSUME NEW i \in 1..n, NEW j \in 1..n, s[Nth(kept, i)] = s[Nth(kept, j)]
                 PROVE  i = j
      BY <1>6, <1>8 DEF IsInjective
    <2>1. Nth(kept, i) = Nth(kept, j)
      BY <1>3, <1>5 DEF IsInjective
    <2> QED BY <1>5, <2>1
  <1>11. \A i \in 1..n : Without(s, which)[i] \in ToSet(s)
    <2>1. \A i \in 1..n : Without(s, which)[i] = s[Nth(kept, i)] /\ Nth(kept, i) \in DOMAIN s
      BY <1>3, <1>5, <1>6
    <2> QED BY <2>1 DEF ToSet
  <1> QED BY <1>2, <1>8, <1>9, <1>10, <1>11 DEF n

\* New cards are none of those in the list.
LEMMA FreshOK ==
  ASSUME rows \in Seq(Cards), NEW n \in Nat, HasRoom(n)
  PROVE  /\ Fresh(n) \in Seq(Cards) /\ IsInjective(Fresh(n)) /\ Len(Fresh(n)) = n
         /\ \A i \in 1..n : Fresh(n)[i] \notin ToSet(rows)
  <1> DEFINE free == Cards \ ToSet(rows)
  <1>1. IsFiniteSet(free) /\ free \in SUBSET Nat /\ free \subseteq Cards /\ Cardinality(free) \in Nat
    <2>1. Cards \in SUBSET Nat /\ IsFiniteSet(Cards)
      BY SettingsAssumption, FS_Interval DEF Cards
    <2>2. IsFiniteSet(free)
      BY <2>1, FS_Difference
    <2> QED BY <2>1, <2>2, FS_CardinalityType
  <1>2. n <= Cardinality(free)
    BY DEF HasRoom
  <1>3. \A i \in 1..n : Nth(free, i) \in free /\ Cardinality({m \in free : m <= Nth(free, i)}) = i
    <2> TAKE i \in 1..n
    <2>1. i \in 1..Cardinality(free)
      BY <1>1, <1>2
    <2> HIDE DEF free
    <2> QED BY <1>1, <2>1, NthIsRanked
  <1>4. Fresh(n) = [i \in 1..n |-> Nth(free, i)]
    BY DEF Fresh
  <1> HIDE DEF free
  <1>5. Fresh(n) \in [1..n -> Cards] /\ DOMAIN Fresh(n) = 1..n
    BY <1>1, <1>3, <1>4
  <1>6. Fresh(n) \in Seq(Cards) /\ Len(Fresh(n)) = n
    BY <1>5
  <1>7. IsInjective(Fresh(n))
    <2> SUFFICES ASSUME NEW i \in 1..n, NEW j \in 1..n, Nth(free, i) = Nth(free, j)
                 PROVE  i = j
      BY <1>4, <1>5 DEF IsInjective
    <2> QED BY <1>3
  <1>8. \A i \in 1..n : Fresh(n)[i] \notin ToSet(rows)
    BY <1>3, <1>4 DEF free
  <1> QED BY <1>6, <1>7, <1>8

\* What the two operators do to cards that are one list, kept three times.
LEMMA CreateKeeps ==
  ASSUME CardsOK, NEW n \in Nat, CreateItems(n)
  PROVE  /\ ListOK' /\ CardsAgree' /\ Len(rows') = Len(rows) + n
         /\ \A i \in 1..Len(rows) : rows'[i] = rows[i]
  <1> DEFINE fresh == Fresh(n)
  <1>1. /\ rows \in Seq(Cards) /\ rows # <<>> /\ IsInjective(rows)
        /\ stack = rows /\ pages = rows /\ count = Len(rows) /\ Len(rows) \in Nat /\ Len(rows) >= 1
    BY EmptySeq DEF CardsOK, ListOK, CardsAgree
  <1>2. /\ fresh \in Seq(Cards) /\ IsInjective(fresh) /\ Len(fresh) = n
        /\ \A i \in 1..n : fresh[i] \notin ToSet(rows)
    BY <1>1, FreshOK DEF CreateItems
  <1>3. /\ rows' = rows \o fresh /\ stack' = rows' /\ pages' = rows'
        /\ count' = Len(rows) + n /\ UpdateRemovable(count')
    BY <1>1 DEF CreateItems
  <1> HIDE DEF fresh
  <1>4. /\ rows' \in Seq(Cards) /\ Len(rows') = Len(rows) + n
        /\ \A i \in 1..(Len(rows) + n) : rows'[i] = IF i <= Len(rows) THEN rows[i] ELSE fresh[i - Len(rows)]
    BY <1>1, <1>2, <1>3, ConcatProperties
  <1>5. DOMAIN rows' = 1..(Len(rows) + n) /\ DOMAIN rows = 1..Len(rows) /\ DOMAIN fresh = 1..n
    BY <1>1, <1>2, <1>4
  <1>6. IsInjective(rows')
    <2> SUFFICES ASSUME NEW i \in 1..(Len(rows) + n), NEW j \in 1..(Len(rows) + n), rows'[i] = rows'[j]
                 PROVE  i = j
      BY <1>5 DEF IsInjective
    <2>1. \A k \in 1..Len(rows) : rows[k] \in ToSet(rows)
      BY <1>5 DEF ToSet
    <2>2. /\ i <= Len(rows) => i \in DOMAIN rows /\ rows'[i] = rows[i]
          /\ j <= Len(rows) => j \in DOMAIN rows /\ rows'[j] = rows[j]
      BY <1>1, <1>4, <1>5
    <2>3. /\ i > Len(rows) => i - Len(rows) \in 1..n /\ rows'[i] = fresh[i - Len(rows)]
          /\ j > Len(rows) => j - Len(rows) \in 1..n /\ rows'[j] = fresh[j - Len(rows)]
      <3>1. ASSUME NEW k \in 1..(Len(rows) + n), k > Len(rows)
            PROVE  k - Len(rows) \in 1..n /\ rows'[k] = fresh[k - Len(rows)]
        <4>1. k - Len(rows) \in 1..n /\ ~(k <= Len(rows))
          BY <1>1, <3>1
        <4>2. rows'[k] = IF k <= Len(rows) THEN rows[k] ELSE fresh[k - Len(rows)]
          BY <1>4
        <4> QED BY <4>1, <4>2
      <3> QED BY <3>1
    <2>4. CASE i <= Len(rows) /\ j <= Len(rows)
      <3>1. rows[i] = rows[j] /\ i \in DOMAIN rows /\ j \in DOMAIN rows
        BY <2>2, <2>4
      <3> QED BY <1>1, <3>1 DEF IsInjective
    <2>5. CASE i > Len(rows) /\ j > Len(rows)
      <3>1. fresh[i - Len(rows)] = fresh[j - Len(rows)]
            /\ i - Len(rows) \in DOMAIN fresh /\ j - Len(rows) \in DOMAIN fresh
        BY <1>5, <2>3, <2>5
      <3>2. i - Len(rows) = j - Len(rows)
        BY <1>2, <3>1 DEF IsInjective
      <3> QED BY <1>1, <3>2
    <2>6. CASE i <= Len(rows) /\ j > Len(rows)
      <3>1. rows'[i] \in ToSet(rows) /\ rows'[j] \notin ToSet(rows)
        BY <1>2, <1>5, <2>1, <2>2, <2>3, <2>6
      <3> QED BY <3>1
    <2>7. CASE i > Len(rows) /\ j <= Len(rows)
      <3>1. rows'[j] \in ToSet(rows) /\ rows'[i] \notin ToSet(rows)
        BY <1>2, <1>5, <2>1, <2>2, <2>3, <2>7
      <3> QED BY <3>1
    <2> QED BY <1>1, <2>4, <2>5, <2>6, <2>7
  <1>7. ListOK'
    BY <1>1, <1>4, <1>6 DEF ListOK
  <1>8. CardsAgree'
    BY <1>1, <1>3, <1>4 DEF CardsAgree, UpdateRemovable
  <1> QED BY <1>1, <1>4, <1>7, <1>8

LEMMA DeleteKeeps ==
  ASSUME CardsOK, NEW which \in SUBSET DOMAIN rows, Cardinality(which) < Len(rows), DeleteItems(which)
  PROVE  /\ ListOK' /\ CardsAgree' /\ Len(rows') = Len(rows) - Cardinality(which)
         /\ \A i \in DOMAIN rows' : rows'[i] \in ToSet(rows)
  <1>1. /\ rows \in Seq(Cards) /\ IsInjective(rows)
        /\ stack = rows /\ pages = rows /\ count = Len(rows) /\ Len(rows) \in Nat
    BY DEF CardsOK, ListOK, CardsAgree
  <1>2. {i \in DOMAIN pages : \E r \in which : pages[i] = stack[r]} = which
    BY <1>1 DEF IsInjective
  <1>3. /\ Cardinality(which) \in Nat
        /\ Without(rows, which) \in Seq(Cards) /\ IsInjective(Without(rows, which))
        /\ Len(Without(rows, which)) = Len(rows) - Cardinality(which)
        /\ \A i \in DOMAIN Without(rows, which) : Without(rows, which)[i] \in ToSet(rows)
    BY <1>1, WithoutOK
  <1>4. /\ rows' = Without(rows, which) /\ stack' = rows' /\ pages' = rows'
        /\ count' = Len(rows) - Cardinality(which) /\ UpdateRemovable(count')
    BY <1>1, <1>2 DEF DeleteItems
  <1>5. Len(rows') >= 1 /\ rows' # <<>>
    BY <1>1, <1>3, <1>4
  <1>6. ListOK'
    BY <1>3, <1>4, <1>5 DEF ListOK
  <1>7. CardsAgree'
    BY <1>1, <1>3, <1>4, <1>5 DEF CardsAgree, UpdateRemovable
  <1> QED BY <1>3, <1>4, <1>6, <1>7

\* The first pages show the networks of a configuration, in their order.
LEMMA InfoOK ==
  ASSUME NEW from \in Sources, NEW of \in Nodes \cup {NoNode}, content \in Contents,
         pages' \in Seq(Cards), IsInjective(pages'), SetNetworkInfo(from, of)
  PROVE  /\ content' \in Contents
         /\ \A i \in DOMAIN pages' : i <= NetsOf[from] =>
              content'[pages'[i]] = [offers |-> of, value |-> <<from, i>>]
  <1> DEFINE shown(card) == \E i \in DOMAIN pages' : i <= NetsOf[from] /\ pages'[i] = card
             at(card) == CHOOSE i \in DOMAIN pages' : pages'[i] = card
             new(card) == IF shown(card) THEN [offers |-> of, value |-> <<from, at(card)>>] ELSE Kept(card)
  <1>1. content' = [card \in Cards |-> new(card)]
    BY DEF SetNetworkInfo
  <1>2. DOMAIN pages' = 1..Len(pages') /\ Len(pages') \in Nat /\ NetsOf[from] \in Nat
        /\ \A i \in DOMAIN pages' : pages'[i] \in Cards
    BY SettingsAssumption, ElementOfSeq
  <1>3. \A i \in DOMAIN pages' : at(pages'[i]) = i
    BY DEF IsInjective
  <1>4. ASSUME NEW i \in DOMAIN pages', i <= NetsOf[from]
        PROVE  new(pages'[i]) = [offers |-> of, value |-> <<from, i>>]
    BY <1>3, <1>4
  <1>5. \A i \in 1..NetsOf[from] : <<from, i>> \in Values
    BY DEF Values
  <1>6. ASSUME NEW card \in Cards PROVE new(card) \in [offers : Nodes \cup {NoNode}, value : Values]
    <2>1. CASE shown(card)
      <3>1. PICK i \in DOMAIN pages' : i <= NetsOf[from] /\ pages'[i] = card
        BY <2>1
      <3>2. new(card) = [offers |-> of, value |-> <<from, i>>] /\ i \in 1..NetsOf[from]
        BY <1>2, <1>4, <3>1
      <3> HIDE DEF new, shown, at
      <3>3. <<from, i>> \in Values
        BY <1>5, <3>2
      <3> QED BY <3>2, <3>3
    <2>2. CASE ~shown(card)
      <3>1. content[card] \in [offers : Nodes \cup {NoNode}, value : Values]
        BY DEF Contents
      <3>2. NewPage \in [offers : Nodes \cup {NoNode}, value : Values]
        BY DEF NewPage, Values
      <3>3. new(card) = content[card] \/ new(card) = NewPage
        BY <2>2 DEF Kept
      <3> QED BY <3>1, <3>2, <3>3
    <2> QED BY <2>1, <2>2
  <1> HIDE DEF new
  <1>7. content' \in Contents
    BY <1>1, <1>6 DEF Contents
  <1> QED BY <1>1, <1>2, <1>4, <1>7

-----------------------------------------------------------------------------
(* What is asked of the daemon, and its configuration shown once.          *)

\* The calls that a window makes after those of the constructor.
NewCalls ==
  {c \in Calling : \/ c.op = "save"
                   \/ c.op = "images" /\ c.arg \in Nodes \cup {NoNode}
                   \/ kind = "from" /\ c.op = "inspect" /\ c.arg \in Templates}

\* A call in flight was in flight already, in a place of its own, or is new.
Follows(was) ==
  /\ IsInjective(was)
  /\ \A k \in DOMAIN calls' :
       \/ k \in DOMAIN was /\ was[k] \in DOMAIN calls /\ calls'[k] = calls[was[k]]
       \/ calls'[k] \in NewCalls

LEMMA CallsFollow ==
  ASSUME \A k \in DOMAIN calls' : (k \in DOMAIN calls /\ calls'[k] = calls[k]) \/ calls'[k] \in NewCalls
  PROVE  \E was : Follows(was)
  <1> DEFINE was == [k \in DOMAIN calls |-> k]
  <1>1. Follows(was)
    BY DEF Follows, IsInjective
  <1> QED BY <1>1

LEMMA OthersFollow ==
  ASSUME calls \in Seq(Calling), NEW i \in DOMAIN calls,
         \A k \in DOMAIN calls' : (k \in 1..(Len(calls) - 1) /\ calls'[k] = Others(i)[k])
                                    \/ calls'[k] \in NewCalls
  PROVE  \E was : Follows(was) /\ DOMAIN was = 1..(Len(calls) - 1) /\ \A k \in DOMAIN was : was[k] # i
  <1> DEFINE dom == 1..(Len(calls) - 1)
             was == [k \in dom |-> IF k < i THEN k ELSE k + 1]
  <1>1. i \in 1..Len(calls) /\ Len(calls) \in Nat /\ DOMAIN calls = 1..Len(calls)
    OBVIOUS
  <1>2. \A k \in dom : Others(i)[k] = IF k < i THEN calls[k] ELSE calls[k + 1]
    BY <1>1, Removed DEF Others
  <1>3. \A k \in dom : was[k] \in DOMAIN calls /\ was[k] # i /\ calls[was[k]] = Others(i)[k]
    BY <1>1, <1>2
  <1>4. \A k, l \in dom : was[k] = was[l] => k = l
    BY <1>1
  <1>5. DOMAIN was = dom
    OBVIOUS
  <1> HIDE DEF was
  <1>6. IsInjective(was)
    BY <1>4, <1>5 DEF IsInjective
  <1>7. Follows(was)
    BY <1>3, <1>5, <1>6 DEF Follows
  <1> QED BY <1>3, <1>5, <1>7

LEMMA AskedKeeps ==
  ASSUME AskedOK, NEW was, Follows(was), UNCHANGED kind, kind = "from" => template' \in Templates,
         \/ UNCHANGED inspected
         \/ kind \in Inspecting /\ \A k \in DOMAIN calls' : calls'[k].op # "inspect"
  PROVE  AskedOK'
  <1>1. \A k \in DOMAIN calls' : calls'[k].op = "images" => calls'[k].arg \in Nodes \cup {NoNode}
    BY DEF AskedOK, Follows, NewCalls
  <1>2. ASSUME UNCHANGED inspected, NEW k \in DOMAIN calls', calls'[k].op = "inspect"
        PROVE  \/ kind = "from" /\ calls'[k].arg \in Templates
               \/ /\ kind \in Inspecting /\ calls'[k].arg = Subject /\ ~inspected'
                  /\ \A l \in DOMAIN calls' : calls'[l].op = "inspect" => k = l
    <2>1. CASE kind = "from"
      BY <1>2, <2>1 DEF AskedOK, Follows, NewCalls, Inspecting
    <2>2. CASE kind # "from"
      <3>1. \A l \in DOMAIN calls' : calls'[l].op = "inspect" =>
              l \in DOMAIN was /\ was[l] \in DOMAIN calls /\ calls'[l] = calls[was[l]]
        BY <2>2 DEF Follows, NewCalls
      <3>2. /\ kind \in Inspecting /\ calls[was[k]].arg = Subject /\ ~inspected
            /\ \A j \in DOMAIN calls : calls[j].op = "inspect" => was[k] = j
        BY <1>2, <2>2, <3>1 DEF AskedOK
      <3>3. ASSUME NEW l \in DOMAIN calls', calls'[l].op = "inspect" PROVE k = l
        <4>1. was[k] = was[l] /\ k \in DOMAIN was /\ l \in DOMAIN was
          BY <1>2, <3>1, <3>2, <3>3
        <4> QED BY <4>1 DEF Follows, IsInjective
      <3> QED BY <1>2, <3>1, <3>2, <3>3
    <2> QED BY <2>1, <2>2
  <1>3. CASE UNCHANGED inspected
    BY <1>1, <1>2, <1>3 DEF AskedOK
  <1>4. CASE kind \in Inspecting /\ \A k \in DOMAIN calls' : calls'[k].op # "inspect"
    BY <1>1, <1>4 DEF AskedOK
  <1> QED BY <1>3, <1>4

\* A call is answered, and others may follow.
LEMMA AskedOthers ==
  ASSUME IInv, AskedOK, NEW i \in DOMAIN calls, UNCHANGED <<kind, template, inspected>>,
         NEW more \in Seq(NewCalls), NEW last \in Seq(NewCalls),
         calls' = Others(i) \/ calls' = Others(i) \o more \o last
  PROVE  AskedOK'
  <1> DEFINE rest == Others(i)
  <1>1. calls \in Seq(Calling) /\ Len(calls) \in Nat /\ i \in 1..Len(calls)
    BY DEF IInv, SentOK
  <1>2. rest \in Seq(Calling) /\ Len(rest) = Len(calls) - 1
    BY <1>1, Removed DEF Others
  <1>3. \A k \in DOMAIN calls' :
          (k \in 1..(Len(calls) - 1) /\ calls'[k] = rest[k]) \/ calls'[k] \in NewCalls
    <2>0. calls' = rest \/ calls' = rest \o more \o last
      OBVIOUS
    <2> HIDE DEF rest
    <2>1. CASE calls' = rest
      <3>1. DOMAIN rest = 1..(Len(calls) - 1)
        BY <1>2
      <3> QED BY <2>1, <3>1
    <2>2. CASE calls' = rest \o more \o last
      <3>1. more \in Seq(Calling) /\ last \in Seq(Calling)
        BY DEF NewCalls
      <3>2. /\ rest \o more \in Seq(Calling) /\ Len(rest \o more) = Len(rest) + Len(more)
            /\ \A k \in 1..(Len(rest) + Len(more)) :
                 (rest \o more)[k] = IF k <= Len(rest) THEN rest[k] ELSE more[k - Len(rest)]
        BY <1>2, <3>1, ConcatProperties
      <3>3. /\ Len(calls') = Len(rest \o more) + Len(last) /\ DOMAIN calls' = 1..Len(calls')
            /\ \A k \in 1..Len(calls') :
                 calls'[k] = IF k <= Len(rest \o more) THEN (rest \o more)[k]
                             ELSE last[k - Len(rest \o more)]
        BY <2>2, <3>1, <3>2, ConcatProperties
      <3>4. /\ \A k \in 1..Len(more) : more[k] \in NewCalls
            /\ \A k \in 1..Len(last) : last[k] \in NewCalls
            /\ Len(more) \in Nat /\ Len(last) \in Nat /\ Len(rest) \in Nat
        BY <1>2
      <3> DEFINE l == Len(rest)
                 m == Len(more)
      <3>5. ASSUME NEW k \in DOMAIN calls'
            PROVE  (k \in 1..(Len(calls) - 1) /\ calls'[k] = rest[k]) \/ calls'[k] \in NewCalls
        <4>1. k \in 1..(l + m + Len(last)) /\ l \in Nat /\ m \in Nat
          BY <3>2, <3>3, <3>4
        <4>2. CASE k <= l
          <5>1. k \in 1..l /\ k \in 1..(l + m) /\ k <= l + m
            BY <4>1, <4>2
          <5> QED BY <1>2, <3>2, <3>3, <4>2, <5>1
        <4>3. CASE ~(k <= l) /\ k <= l + m
          <5>1. k - l \in 1..m /\ k \in 1..(l + m)
            BY <4>1, <4>3
          <5>2. calls'[k] = more[k - l]
            BY <3>2, <3>3, <4>3, <5>1
          <5> QED BY <3>4, <5>1, <5>2
        <4>4. CASE ~(k <= l + m)
          <5>1. k - (l + m) \in 1..Len(last)
            BY <3>4, <4>1, <4>4
          <5>2. calls'[k] = last[k - (l + m)]
            BY <3>2, <3>3, <4>4
          <5> QED BY <3>4, <5>1, <5>2
        <4> QED BY <4>2, <4>3, <4>4
      <3> QED BY <3>5
    <2> QED BY <2>0, <2>1, <2>2
  <1>4. PICK was : Follows(was)
    BY <1>1, <1>3, OthersFollow
  <1>5. kind = "from" => template' \in Templates
    BY DEF AskedOK
  <1> QED BY <1>4, <1>5, AskedKeeps

\* The configuration of the subject comes: no other is asked for.
LEMMA AskedShown ==
  ASSUME IInv, AskedOK, NEW i \in DOMAIN calls, calls[i].op = "inspect", calls' = Others(i),
         UNCHANGED <<kind, template>>, kind \in Inspecting
  PROVE  AskedOK'
  <1>1. calls \in Seq(Calling) /\ Len(calls) \in Nat /\ i \in 1..Len(calls)
    BY DEF IInv, SentOK
  <1>2. Len(calls') = Len(calls) - 1 /\ DOMAIN calls' = 1..(Len(calls) - 1)
    <2>1. calls' \in Seq(Calling) /\ Len(calls') = Len(calls) - 1
      BY <1>1, Removed DEF Others
    <2> QED BY <1>1, <2>1
  <1>3. PICK was : Follows(was) /\ DOMAIN was = 1..(Len(calls) - 1) /\ \A k \in DOMAIN was : was[k] # i
    BY <1>1, <1>2, OthersFollow
  <1>4. ASSUME NEW k \in DOMAIN calls', calls'[k].op = "inspect" PROVE FALSE
    <2>1. kind # "from"
      BY DEF Inspecting
    <2>2. k \in DOMAIN was /\ was[k] \in DOMAIN calls /\ calls'[k] = calls[was[k]]
      BY <1>3, <1>4, <2>1 DEF Follows, NewCalls
    <2>3. i = was[k]
      BY <1>4, <2>1, <2>2 DEF AskedOK
    <2> QED BY <1>3, <2>2, <2>3
  <1>5. kind = "from" => template' \in Templates
    BY DEF Inspecting
  <1> QED BY <1>3, <1>4, <1>5, AskedKeeps

-----------------------------------------------------------------------------
(* The user, and the form.                                                 *)

\* What a step that leaves the cards and the tabs alone keeps.
LEMMA CardsRest ==
  ASSUME FormOK, UNCHANGED <<kind, cards, inspected, touched>>, life' = "open" => life = "open",
         kind \in {"create", "createTemplate"} => node' = node
  PROVE  CardsOK' /\ Pristine' /\ ShowsInspected' /\ OffersItsNode'
  <1>1. UNCHANGED <<kind, rows, stack, pages, count, removable, content, inspected, touched>>
    BY DEF cards
  <1>2. CardsOK' /\ Pristine'
    BY <1>1 DEF FormOK, CardsOK, ListOK, CardsAgree, Pristine
  <1>3. ShowsInspected' /\ OffersItsNode'
    BY <1>1 DEF FormOK, ShowsInspected, OffersItsNode
  <1> QED BY <1>2, <1>3

\* Nothing is asked nor answered.
LEMMA AskedRest ==
  ASSUME AskedOK, UNCHANGED <<kind, template, calls, inspected>>
  PROVE  AskedOK'
  BY DEF AskedOK

\* One more call.
LEMMA AskedSend ==
  ASSUME IInv, AskedOK, NEW call \in NewCalls, Send(call), UNCHANGED <<kind, inspected>>,
         kind = "from" => template' \in Templates
  PROVE  AskedOK'
  <1>1. /\ calls' \in Seq(Calling) /\ Len(calls') = Len(calls) + 1
        /\ \A k \in 1..Len(calls) : calls'[k] = calls[k]
        /\ calls'[Len(calls) + 1] = call
    BY DEF Send, IInv, SentOK, NewCalls
  <1>2. DOMAIN calls = 1..Len(calls) /\ DOMAIN calls' = 1..(Len(calls) + 1) /\ Len(calls) \in Nat
    BY <1>1 DEF IInv, SentOK
  <1>3. \A k \in DOMAIN calls' : (k \in DOMAIN calls /\ calls'[k] = calls[k]) \/ calls'[k] \in NewCalls
    BY <1>1, <1>2
  <1>4. PICK was : Follows(was)
    BY <1>3, CallsFollow
  <1> QED BY <1>4, AskedKeeps

LEMMA ImagesNew ==
  ASSUME NEW of \in Nodes \cup {NoNode}
  PROVE  AsksImages(of) \in Seq(NewCalls)
  <1>1. Call("images", of) \in Calling /\ Call("images", of).op = "images" /\ Call("images", of).arg = of
    BY CallOK DEF Args
  <1>2. Call("images", of) \in NewCalls
    BY <1>1 DEF NewCalls
  <1> QED BY <1>2 DEF AsksImages

LEMMA InspectNew ==
  ASSUME kind = "from", NEW t \in Templates
  PROVE  Call("inspect", t) \in NewCalls
  <1>1. Call("inspect", t) \in Calling /\ Call("inspect", t).op = "inspect" /\ Call("inspect", t).arg = t
    BY CallOK DEF Args, Sources
  <1> QED BY <1>1 DEF NewCalls

LEMMA ChooseNodeForm == ASSUME IInv, FormOK, NEW n \in Nodes, ChooseNode(n) PROVE FormOK'
  <1>1. /\ n \in nodes /\ node' = n /\ calls' = calls \o AsksImages(n) /\ Len(calls') <= MaxCalls
        /\ SetNodeNetworkList(n) /\ touched' = touched \cup {"node"}
        /\ UNCHANGED <<kind, life, nodes, template, images, rows, stack, pages, count,
                       removable, wrong, dialog, inspected>>
    BY DEF ChooseNode
  <1>2. PlainOK'
    BY <1>1 DEF FormOK, PlainOK
  <1>3. AskedOK'
    <2>1. /\ calls \in Seq(Calling) /\ AsksImages(n) \in Seq(NewCalls)
          /\ Len(calls) \in Nat /\ DOMAIN calls = 1..Len(calls)
      BY ImagesNew DEF IInv, SentOK
    <2>2. AsksImages(n) \in Seq(Calling)
      BY <2>1 DEF NewCalls
    <2> DEFINE new == AsksImages(n)
    <2> HIDE DEF new
    <2>3. /\ calls' \in Seq(Calling) /\ Len(calls') = Len(calls) + Len(new)
          /\ \A k \in 1..(Len(calls) + Len(new)) :
               calls'[k] = IF k <= Len(calls) THEN calls[k] ELSE new[k - Len(calls)]
      BY <1>1, <2>1, <2>2, ConcatProperties DEF new
    <2>4. /\ DOMAIN calls' = 1..(Len(calls) + Len(new)) /\ Len(new) \in Nat
          /\ \A k \in 1..Len(new) : new[k] \in NewCalls
      BY <2>1, <2>3 DEF new
    <2>5. ASSUME NEW k \in DOMAIN calls'
          PROVE  (k \in DOMAIN calls /\ calls'[k] = calls[k]) \/ calls'[k] \in NewCalls
      <3>1. CASE k <= Len(calls)
        BY <2>1, <2>3, <2>4, <3>1
      <3>2. CASE ~(k <= Len(calls))
        <4>1. k - Len(calls) \in 1..Len(new)
          BY <2>1, <2>4, <3>2
        <4> QED BY <2>3, <2>4, <3>2, <4>1
      <3> QED BY <3>1, <3>2
    <2>6. PICK was : Follows(was)
      BY <2>5, CallsFollow
    <2>7. AskedOK /\ (kind = "from" => template' \in Templates)
      BY <1>1 DEF FormOK, AskedOK
    <2> QED BY <1>1, <2>6, <2>7, AskedKeeps
  <1>4. ListOK' /\ CardsAgree'
    BY <1>1 DEF FormOK, CardsOK, ListOK, CardsAgree
  <1>5. /\ content' \in Contents
        /\ \A card \in ToSet(pages) : content'[card].offers = n
    <2>1. ToSet(pages) \subseteq Cards
      BY DEF FormOK, CardsOK, ListOK, CardsAgree, ToSet
    <2>2. content' = [card \in Cards |-> IF card \in ToSet(pages) THEN [offers |-> n, value |-> Own]
                                         ELSE content[card]]
      BY <1>1 DEF SetNodeNetworkList
    <2>3. [offers |-> n, value |-> Own] \in [offers : Nodes \cup {NoNode}, value : Values]
      BY DEF Values
    <2>4. \A card \in Cards : content[card] \in [offers : Nodes \cup {NoNode}, value : Values]
      BY DEF FormOK, CardsOK, Contents
    <2> QED BY <2>1, <2>2, <2>3, <2>4 DEF Contents
  <1>6. Pristine' /\ ShowsInspected'
    BY <1>1 DEF Pristine, ShowsInspected
  <1>7. OffersItsNode'
    BY <1>1, <1>5 DEF OffersItsNode, ToSet
  <1> QED BY <1>2, <1>3, <1>4, <1>5, <1>6, <1>7 DEF FormOK, CardsOK

LEMMA ChooseTemplateForm == ASSUME IInv, FormOK, NEW t \in Templates, ChooseTemplate(t) PROVE FormOK'
  <1>1. /\ kind = "from" /\ template' = t /\ Send(Call("inspect", t))
        /\ node' = Picked(NodeOf[t], nodes, node)
        /\ UNCHANGED <<kind, life, nodes, images, cards, wrong, dialog, touched, inspected>>
    BY DEF ChooseTemplate
  <1>2. PlainOK'
    <2>1. node' \in nodes \cup {NoNode}
      BY <1>1 DEF FormOK, PlainOK, Picked
    <2>2. Len(calls') <= MaxCalls
      <3>1. Call("inspect", t) \in Calling /\ calls \in Seq(Calling)
        BY CallOK DEF Args, Sources, IInv, SentOK
      <3>2. Len(calls') = Len(calls) + 1 /\ Len(calls) < MaxCalls /\ Len(calls) \in Nat
        BY <1>1, <3>1 DEF Send
      <3> QED BY <3>2, SettingsAssumption
    <2> QED BY <1>1, <2>1, <2>2 DEF FormOK, PlainOK
  <1>3. AskedOK'
    BY <1>1, InspectNew, AskedSend DEF FormOK
  <1>4. CardsOK' /\ Pristine' /\ ShowsInspected' /\ OffersItsNode'
    BY <1>1, CardsRest
  <1> QED BY <1>2, <1>3, <1>4 DEF FormOK

LEMMA TypeForm ==
  ASSUME FormOK, \/ \E card \in Cards : TypeNetwork(card)
                 \/ \E f \in Faults : TypeTab(f)
  PROVE  FormOK'
  <1>1. CASE \E card \in Cards : TypeNetwork(card)
    <2>1. PICK card \in Cards : TypeNetwork(card)
      BY <1>1
    <2>2. /\ content' = [content EXCEPT ![card].value = Own] /\ touched' = touched \cup {"cards"}
          /\ UNCHANGED <<kind, life, nodes, node, template, images, rows, stack, pages, count,
                         removable, wrong, dialog, calls, inspected>>
      BY <2>1 DEF TypeNetwork, choice
    <2>3. PlainOK' /\ AskedOK'
      BY <2>2 DEF FormOK, PlainOK, AskedOK
    <2>4. ListOK' /\ CardsAgree'
      BY <2>2 DEF FormOK, CardsOK, ListOK, CardsAgree
    <2>5. content' \in Contents /\ \A c \in Cards : content'[c].offers = content[c].offers
      <3>1. Own \in Values /\ content \in Contents
        BY DEF Values, FormOK, CardsOK
      <3> QED BY <2>2, <3>1 DEF Contents
    <2>6. Pristine' /\ ShowsInspected'
      BY <2>2 DEF Pristine, ShowsInspected
    <2>7. OffersItsNode'
      <3>1. \A i \in DOMAIN pages : pages[i] \in Cards
        BY ElementOfSeq DEF FormOK, CardsOK, ListOK, CardsAgree
      <3> QED BY <2>2, <2>5, <3>1 DEF FormOK, OffersItsNode
    <2> QED BY <2>3, <2>4, <2>5, <2>6, <2>7 DEF FormOK, CardsOK
  <1>2. CASE \E f \in Faults : TypeTab(f)
    <2>1. PICK f \in Faults : TypeTab(f)
      BY <1>2
    <2>2. /\ wrong' = SymDiff(wrong, {f})
          /\ UNCHANGED <<kind, life, nodes, node, template, images, cards, dialog, calls, touched, inspected>>
      BY <2>1 DEF TypeTab, choice
    <2>3. wrong' \subseteq Faults
      BY <2>2 DEF SymDiff, FormOK, PlainOK
    <2>4. PlainOK' /\ AskedOK'
      <3>1. PlainOK'
        BY <2>2, <2>3 DEF FormOK, PlainOK
      <3> QED BY <2>2, <3>1, AskedRest DEF FormOK
    <2>5. CardsOK' /\ Pristine' /\ ShowsInspected' /\ OffersItsNode'
      BY <2>2, CardsRest
    <2> QED BY <2>4, <2>5 DEF FormOK
  <1> QED BY <1>1, <1>2

LEMMA AddItemForm == ASSUME FormOK, AddItem PROVE FormOK'
  <1>1. /\ CreateItems(1) /\ content' = [content EXCEPT ![Last(rows')].offers = node]
        /\ touched' = touched \cup {"cards"}
        /\ UNCHANGED <<kind, life, nodes, node, template, images, wrong, dialog, calls, inspected>>
    BY DEF AddItem, choice
  <1>2. PlainOK' /\ AskedOK'
    BY <1>1 DEF FormOK, PlainOK, AskedOK
  <1>3. /\ ListOK' /\ CardsAgree' /\ Len(rows') = Len(rows) + 1
        /\ \A i \in 1..Len(rows) : rows'[i] = rows[i]
    BY <1>1, CreateKeeps DEF FormOK
  <1>4. /\ rows' \in Seq(Cards) /\ rows \in Seq(Cards) /\ pages' = rows' /\ pages = rows
        /\ Len(rows) \in Nat /\ DOMAIN rows = 1..Len(rows) /\ DOMAIN rows' = 1..(Len(rows) + 1)
        /\ Last(rows') = rows'[Len(rows) + 1]
    BY <1>3 DEF ListOK, CardsAgree, FormOK, CardsOK, Last
  <1>5. \A i \in DOMAIN rows' : rows'[i] \in Cards
    BY <1>4, ElementOfSeq
  <1>6. /\ content' \in Contents
        /\ \A c \in Cards : content'[c].offers = IF c = Last(rows') THEN node ELSE content[c].offers
    <2>1. node \in Nodes \cup {NoNode} /\ content \in Contents /\ Last(rows') \in Cards
      BY <1>4, <1>5 DEF FormOK, PlainOK, CardsOK
    <2> QED BY <1>1, <2>1 DEF Contents
  <1>7. Pristine' /\ ShowsInspected'
    BY <1>1 DEF Pristine, ShowsInspected
  <1>8. OffersItsNode'
    <2> SUFFICES ASSUME kind \in {"create", "createTemplate"}, NEW i \in DOMAIN rows'
                 PROVE  content'[rows'[i]].offers = node
      BY <1>1, <1>4 DEF OffersItsNode
    <2>1. \A k \in DOMAIN rows : content[rows[k]].offers = node
      BY <1>4 DEF FormOK, OffersItsNode
    <2>2. (i \in DOMAIN rows /\ rows'[i] = rows[i]) \/ rows'[i] = Last(rows')
      BY <1>3, <1>4
    <2> QED BY <1>5, <1>6, <2>1, <2>2
  <1> QED BY <1>2, <1>3, <1>6, <1>7, <1>8 DEF FormOK, CardsOK

\* A row that is deleted: of the cards it is one, and not the last.
LEMMA AnswerDeleteForm == ASSUME FormOK, NEW yes \in BOOLEAN, AnswerDelete(yes) PROVE FormOK'
  <1>1. /\ dialog' = NoDialog
        /\ UNCHANGED <<kind, life, nodes, node, template, images, wrong, calls, inspected>>
    BY DEF AnswerDelete, choice
  <1>2. touched' = touched \/ touched' = touched \cup {"cards"}
    BY DEF AnswerDelete, DelItem
  <1>3. PlainOK' /\ AskedOK'
    <2>1. dialog' \in [is : {"none", "delete", "message"}, card : Cards \cup {0},
                      parts : SUBSET ToSet(WriteOrder)]
      BY <1>1 DEF NoDialog
    <2>2. PlainOK'
      BY <1>1, <1>2, <2>1 DEF FormOK, PlainOK
    <2> QED BY <1>1, <2>2, AskedRest DEF FormOK
  <1>4. CASE UNCHANGED <<cards, touched>>
    BY <1>1, <1>3, <1>4, CardsRest DEF FormOK
  <1>5. CASE ~UNCHANGED <<cards, touched>>
    <2> DEFINE at == {r \in DOMAIN rows : rows[r] = dialog.card}
    <2>1. /\ at # {} /\ count > 1 /\ DeleteItems(at)
          /\ content' = [c \in Cards |-> Kept(c)] /\ touched' = touched \cup {"cards"}
      BY <1>5 DEF AnswerDelete, DelItem
    <2>2. /\ rows \in Seq(Cards) /\ IsInjective(rows) /\ pages = rows /\ count = Len(rows)
      BY DEF FormOK, CardsOK, ListOK, CardsAgree
    <2>3. PICK r \in DOMAIN rows : at = {r}
      BY <2>1, <2>2 DEF IsInjective
    <2>4. at \in SUBSET DOMAIN rows /\ Cardinality(at) = 1 /\ Cardinality(at) < Len(rows)
      BY <2>1, <2>2, <2>3, FS_Singleton
    <2> HIDE DEF at
    <2>5. /\ ListOK' /\ CardsAgree'
          /\ \A i \in DOMAIN rows' : rows'[i] \in ToSet(rows)
      BY <2>1, <2>4, DeleteKeeps DEF FormOK
    <2>6. pages' = rows' /\ \A i \in DOMAIN rows' : rows'[i] \in Cards /\ rows'[i] \in ToSet(rows')
      BY <2>5, ElementOfSeq DEF ListOK, CardsAgree, ToSet
    <2>7. /\ content' \in Contents
          /\ \A c \in ToSet(rows') : c \in Cards => content'[c] = content[c]
      <3>1. NewPage \in [offers : Nodes \cup {NoNode}, value : Values]
        BY DEF NewPage, Values
      <3>2. content \in [Cards -> [offers : Nodes \cup {NoNode}, value : Values]]
        BY DEF FormOK, CardsOK, Contents
      <3> QED BY <2>1, <2>6, <3>1, <3>2 DEF Kept, Contents
    <2>8. Pristine' /\ ShowsInspected'
      BY <2>1 DEF Pristine, ShowsInspected
    <2>9. OffersItsNode'
      <3> SUFFICES ASSUME kind \in {"create", "createTemplate"}, NEW i \in DOMAIN rows'
                   PROVE  content'[rows'[i]].offers = node
        BY <1>1, <2>6 DEF OffersItsNode
      <3>1. \A k \in DOMAIN rows : content[rows[k]].offers = node
        BY <2>2 DEF FormOK, OffersItsNode
      <3>2. rows'[i] \in ToSet(rows) /\ content'[rows'[i]] = content[rows'[i]]
        BY <2>5, <2>6, <2>7
      <3> QED BY <3>1, <3>2 DEF ToSet
    <2> QED BY <1>3, <2>5, <2>7, <2>8, <2>9 DEF FormOK, CardsOK
  <1> QED BY <1>4, <1>5

\* Questions, messages, requests, and the end of the window.
LEMMA ConfirmForm ==
  ASSUME IInv, FormOK,
         \/ ConfirmCreate \/ DismissMessage \/ ConfirmUpdate \/ Close
         \/ \E card \in Cards : AskDelete(card)
  PROVE  FormOK'
  <1>1. /\ UNCHANGED <<kind, nodes, node, template, images, cards, wrong, touched, inspected>>
        /\ life' = life \/ life' = "closed"
    BY DEF ConfirmCreate, DismissMessage, ConfirmUpdate, Close, AskDelete, form, choice
  <1>2. CardsOK' /\ Pristine' /\ ShowsInspected' /\ OffersItsNode'
    BY <1>1, CardsRest
  <1> DEFINE dialogs == [is : {"none", "delete", "message"}, card : Cards \cup {0},
                         parts : SUBSET ToSet(WriteOrder)]
  <1>3. dialog' \in dialogs
    <2>1. dialog' = dialog \/ dialog' = NoDialog \/ dialog' = Message(Written)
          \/ \E card \in Cards : dialog' = Question(card)
      BY DEF ConfirmCreate, DismissMessage, ConfirmUpdate, Close, AskDelete
    <2>2. Written \in SUBSET ToSet(WriteOrder)
      BY DEF Written, ToSet
    <2>3. NoDialog \in dialogs
      BY DEF NoDialog
    <2>4. Message(Written) \in dialogs
      BY <2>2 DEF NoDialog, Message
    <2>5. \A card \in Cards : Question(card) \in dialogs
      BY DEF NoDialog, Question
    <2>6. dialog \in dialogs
      BY DEF FormOK, PlainOK
    <2> QED BY <2>1, <2>3, <2>4, <2>5, <2>6
  <1>4. CASE UNCHANGED calls
    <2>1. PlainOK' /\ AskedOK'
      BY <1>1, <1>3, <1>4 DEF FormOK, PlainOK, AskedOK
    <2> QED BY <1>2, <2>1 DEF FormOK
  <1>5. ASSUME NEW parts \in SUBSET Tabs, Send(Save(parts))
        PROVE  FormOK'
    <2>1. Save(parts) \in NewCalls
      BY SaveOK DEF NewCalls
    <2>2. AskedOK'
      BY <1>1, <1>5, <2>1, AskedSend DEF FormOK, AskedOK
    <2>3. Len(calls') <= MaxCalls
      <3>1. Save(parts) \in Calling /\ calls \in Seq(Calling)
        BY SaveOK DEF IInv, SentOK
      <3>2. Len(calls') = Len(calls) + 1 /\ Len(calls) < MaxCalls /\ Len(calls) \in Nat
        BY <1>5, <3>1 DEF Send
      <3> QED BY <3>2, SettingsAssumption
    <2>4. PlainOK'
      BY <1>1, <1>3, <2>3 DEF FormOK, PlainOK
    <2> QED BY <1>2, <2>2, <2>4 DEF FormOK
  <1>6. \/ UNCHANGED calls
        \/ Send(Save(Written)) \/ Send(Save(dialog.parts)) \/ Send(Save(UpdateParts))
    BY DEF ConfirmCreate, DismissMessage, ConfirmUpdate, Close, AskDelete
  <1>7. Written \in SUBSET Tabs /\ dialog.parts \in SUBSET Tabs /\ UpdateParts \in SUBSET Tabs
    BY WrittenOK DEF IInv, SentOK, Tabs
  <1> QED BY <1>4, <1>5, <1>6, <1>7

-----------------------------------------------------------------------------
(* Replies, and the form.                                                  *)

\* Those that bring nothing to the cards.
LEMMA PlainReplyForm ==
  ASSUME IInv, FormOK, NEW i, CallFails(i) \/ GetListImageFinishedResult(i) \/ GetSaveResult(i)
  PROVE  FormOK'
  <1>1. /\ i \in DOMAIN calls /\ calls' = Others(i)
        /\ UNCHANGED <<kind, nodes, node, template, cards, wrong, dialog, touched, inspected>>
        /\ life' = life \/ life' \in {"closed", "freed"}
        /\ \/ images' = images
           \/ calls[i].op = "images" /\ images' = calls[i].arg
    BY DEF CallFails, GetListImageFinishedResult, GetSaveResult, Pending, form, choice
  <1>2. CardsOK' /\ Pristine' /\ ShowsInspected' /\ OffersItsNode'
    BY <1>1, CardsRest
  <1>3. AskedOK'
    <2>1. <<>> \in Seq(NewCalls)
      OBVIOUS
    <2> QED BY <1>1, <2>1, AskedOthers DEF FormOK
  <1>4. Len(calls') <= MaxCalls
    <2>1. calls \in Seq(Calling) /\ i \in 1..Len(calls) /\ Len(calls) \in Nat
      BY <1>1 DEF IInv, SentOK
    <2>2. Len(calls') = Len(calls) - 1
      BY <1>1, <2>1, Removed DEF Others
    <2> QED BY <2>1, <2>2, SettingsAssumption DEF FormOK, PlainOK
  <1>5. images' \in Nodes \cup {NoNode}
    BY <1>1 DEF FormOK, PlainOK, AskedOK
  <1>6. PlainOK'
    BY <1>1, <1>4, <1>5 DEF FormOK, PlainOK
  <1> QED BY <1>2, <1>3, <1>6 DEF FormOK

LEMMA NodeListForm ==
  ASSUME IInv, FormOK, NEW i, NEW listed \in SUBSET Nodes, GetNodeListResult(i, listed)
  PROVE  FormOK'
  <1> DEFINE more == IF kind = "from" THEN <<Call("inspect", template)>> ELSE <<>>
             last == AsksImages(node')
  <1>1. /\ i \in DOMAIN calls /\ calls' = Others(i) \o more \o last /\ Len(calls') <= MaxCalls
        /\ nodes' = listed
        /\ IF ListsNetworks THEN SetNodeNetworkList(node') ELSE UNCHANGED content
        /\ UNCHANGED <<kind, life, template, images, rows, stack, pages, count, removable,
                       wrong, dialog, touched, inspected>>
    BY DEF GetNodeListResult, Pending
  <1>2. node' \in listed \cup {NoNode}
    BY DEF GetNodeListResult, Picked
  <1>3. PlainOK'
    BY <1>1, <1>2 DEF FormOK, PlainOK
  <1>4. AskedOK'
    <2>1. more \in Seq(NewCalls)
      <3>1. CASE kind = "from"
        <4>1. Call("inspect", template) \in NewCalls
          BY <3>1, InspectNew DEF FormOK, AskedOK
        <4> QED BY <3>1, <4>1
      <3> QED BY <3>1
    <2>2. last \in Seq(NewCalls)
      BY <1>2, ImagesNew
    <2> HIDE DEF more, last
    <2> QED BY <1>1, <2>1, <2>2, AskedOthers DEF FormOK
  <1> HIDE DEF more, last
  <1>5. CASE ~ListsNetworks
    <2>1. UNCHANGED cards /\ kind \notin {"create", "createTemplate"}
      BY <1>1, <1>5 DEF cards, ListsNetworks
    <2>2. CardsOK' /\ Pristine' /\ ShowsInspected' /\ OffersItsNode'
      BY <1>1, <2>1, CardsRest
    <2> QED BY <1>3, <1>4, <2>2 DEF FormOK
  <1>6. CASE ListsNetworks
    <2>1. kind \in {"create", "createTemplate"} /\ SetNodeNetworkList(node') /\ ~inspected
      BY <1>1, <1>6 DEF ListsNetworks, FormOK, AskedOK, Inspecting
    <2>2. ListOK' /\ CardsAgree' /\ Pristine' /\ ShowsInspected'
      BY <1>1, <2>1 DEF FormOK, CardsOK, ListOK, CardsAgree, Pristine, ShowsInspected
    <2>3. /\ content' \in Contents
          /\ \A card \in ToSet(pages) : content'[card].offers = node'
      <3>1. ToSet(pages) \subseteq Cards
        BY DEF FormOK, CardsOK, ListOK, CardsAgree, ToSet
      <3>2. content' = [card \in Cards |-> IF card \in ToSet(pages) THEN [offers |-> node', value |-> Own]
                                           ELSE content[card]]
        BY <2>1 DEF SetNodeNetworkList
      <3>3. [offers |-> node', value |-> Own] \in [offers : Nodes \cup {NoNode}, value : Values]
        BY <1>2 DEF Values
      <3>4. \A card \in Cards : content[card] \in [offers : Nodes \cup {NoNode}, value : Values]
        BY DEF FormOK, CardsOK, Contents
      <3> QED BY <3>1, <3>2, <3>3, <3>4 DEF Contents
    <2>4. OffersItsNode'
      BY <1>1, <2>3 DEF OffersItsNode, ToSet
    <2> QED BY <1>3, <1>4, <2>2, <2>3, <2>4 DEF FormOK, CardsOK
  <1> QED BY <1>5, <1>6

\* What a reply that shows a configuration keeps, apart from the number of cards.
LEMMA ShownForm ==
  ASSUME IInv, FormOK, NEW i \in DOMAIN calls, calls[i].op = "inspect", calls' = Others(i), FillTabs,
         UNCHANGED <<kind, choice, dialog, touched>>,
         life' \in {life, "overrun"}, life' = "open" => life = "open",
         inspected' \in BOOLEAN,
         kind \in Inspecting \/ UNCHANGED inspected,
         ListOK', CardsAgree', content' \in Contents
  PROVE  PlainOK' /\ AskedOK' /\ CardsOK'
  <1>1. UNCHANGED <<kind, nodes, node, template, images, dialog, touched>>
    BY DEF choice
  <1>2. Len(calls') <= MaxCalls
    <2>1. calls \in Seq(Calling) /\ i \in 1..Len(calls) /\ Len(calls) \in Nat
      BY DEF IInv, SentOK
    <2>2. Len(calls') = Len(calls) - 1
      BY <2>1, Removed DEF Others
    <2> QED BY <2>1, <2>2, SettingsAssumption DEF FormOK, PlainOK
  <1>3. wrong' \subseteq Faults
    BY DEF FillTabs, FormOK, PlainOK
  <1>4. PlainOK'
    BY <1>1, <1>2, <1>3 DEF FormOK, PlainOK
  <1>5. AskedOK'
    <2>1. CASE kind \in Inspecting
      BY <1>1, <2>1, AskedShown DEF FormOK
    <2>2. CASE UNCHANGED inspected
      <3>1. <<>> \in Seq(NewCalls)
        OBVIOUS
      <3> QED BY <1>1, <2>2, <3>1, AskedOthers DEF FormOK
    <2> QED BY <2>1, <2>2
  <1> QED BY <1>4, <1>5 DEF CardsOK

\* The configuration of a container: before it, there is one card, or the user
\* has changed something.
LEMMA ContainerShownForm == ASSUME IInv, FormOK, NEW i, GetContainerInspectResult(i) PROVE FormOK'
  <1> DEFINE size == NetsOf[Subject]
             n == IF size > 0 THEN size - 1 ELSE 0
  <1>1. /\ i \in DOMAIN calls /\ calls[i].op = "inspect" /\ kind \in {"edit", "generate"}
        /\ CreateItems(n) /\ SetNetworkInfo(Subject, Home) /\ FillTabs
        /\ inspected' = TRUE /\ calls' = Others(i)
        /\ UNCHANGED <<kind, life, choice, dialog, touched>>
    BY DEF GetContainerInspectResult, Pending
  <1>2. size \in Nat /\ n \in Nat /\ Subject \in Sources /\ Home \in Nodes
    BY SettingsAssumption DEF Sources, Home
  <1> HIDE DEF n
  <1>3. ListOK' /\ CardsAgree' /\ Len(rows') = Len(rows) + n
    BY <1>1, <1>2, CreateKeeps DEF FormOK
  <1>4. pages' = rows' /\ pages' \in Seq(Cards) /\ IsInjective(pages')
    BY <1>3 DEF ListOK, CardsAgree
  <1>5. /\ content' \in Contents
        /\ \A k \in DOMAIN pages' : k <= size =>
             content'[pages'[k]] = [offers |-> Home, value |-> <<Subject, k>>]
    <2>1. content \in Contents
      BY DEF FormOK, CardsOK
    <2> QED BY <1>1, <1>2, <1>4, <2>1, InfoOK
  <1>6. PlainOK' /\ AskedOK' /\ CardsOK'
    <2>1. kind \in Inspecting /\ life' \in {life, "overrun"} /\ (life' = "open" => life = "open")
          /\ inspected' \in BOOLEAN
      BY <1>1 DEF Inspecting
    <2> QED BY <1>1, <1>3, <1>5, <2>1, ShownForm
  <1>7. Pristine' /\ OffersItsNode'
    BY <1>1 DEF Pristine, OffersItsNode
  <1>8. ShowsInspected'
    <2> SUFFICES ASSUME touched = {}
                 PROVE  /\ Len(pages') = IF size = 0 THEN 1 ELSE size
                        /\ \A k \in 1..size :
                             content'[pages'[k]] = [offers |-> Home, value |-> <<Subject, k>>]
      BY <1>1 DEF ShowsInspected
    <2>1. Len(rows) = 1
      BY <1>1 DEF FormOK, AskedOK, Pristine
    <2>2. Len(pages') = IF size = 0 THEN 1 ELSE size
      BY <1>2, <1>3, <1>4, <2>1 DEF n
    <2>3. \A k \in 1..size : k \in DOMAIN pages' /\ k <= size
      BY <1>2, <1>4, <2>2
    <2> QED BY <1>5, <2>2, <2>3
  <1> QED BY <1>6, <1>7, <1>8 DEF FormOK

\* The rows that are deleted are rows, and not all of them.
LEMMA SurplusOK ==
  ASSUME CardsOK, NEW size \in Nat, size <= Len(pages)
  PROVE  /\ Surplus(size) \in SUBSET DOMAIN rows /\ Cardinality(Surplus(size)) \in Nat
         /\ Cardinality(Surplus(size)) < Len(rows) /\ Cardinality(Surplus(size)) <= Len(rows) - size
         /\ Len(rows) = 1 => Surplus(size) = {}
  <1> DEFINE bounds == {Len(pages) - size, (Len(rows) + 1) \div 2, count - 1}
             n == CHOOSE x \in bounds : \A m \in bounds : x <= m
  <1>1. /\ Len(rows) \in Nat /\ Len(rows) >= 1 /\ DOMAIN rows = 1..Len(rows)
        /\ Len(pages) = Len(rows) /\ count = Len(rows)
    BY EmptySeq DEF CardsOK, ListOK, CardsAgree
  <1>2. bounds = {Len(rows) - size, (Len(rows) + 1) \div 2, Len(rows) - 1}
    BY <1>1
  <1>3. n \in Nat /\ n <= Len(rows) - size /\ n <= (Len(rows) + 1) \div 2 /\ n <= Len(rows) - 1
    <2> DEFINE a == Len(rows) - size
               b == (Len(rows) + 1) \div 2
               c == Len(rows) - 1
    <2>1. a \in Nat /\ b \in Nat /\ c \in Nat
      BY <1>1
    <2>2. bounds = {a, b, c}
      BY <1>2
    <2> HIDE DEF a, b, c, bounds
    <2>3. \E x \in bounds : \A m \in bounds : x <= m
      <3>1. \/ a <= b /\ a <= c
            \/ b <= a /\ b <= c
            \/ c <= a /\ c <= b
        BY <2>1
      <3>2. a <= a /\ b <= b /\ c <= c
        BY <2>1
      <3> QED BY <2>2, <3>1, <3>2
    <2>4. n \in bounds /\ \A m \in bounds : n <= m
      BY <2>3
    <2> HIDE DEF n
    <2>5. n \in Nat /\ n <= a /\ n <= b /\ n <= c
      BY <2>1, <2>2, <2>4
    <2> QED BY <2>5 DEF a, b, c
  <1>4. Surplus(size) = {2 * k - 1 : k \in 1..n}
    BY DEF Surplus
  <1> HIDE DEF n, bounds
  <1>5. Surplus(size) \in SUBSET DOMAIN rows
    <2>1. \A k \in 1..n : 2 * k - 1 \in 1..Len(rows)
      BY <1>1, <1>3
    <2> QED BY <1>1, <1>4, <2>1
  <1>6. Cardinality(Surplus(size)) <= n
    <2>1. IsFiniteSet(1..n) /\ Cardinality(1..n) = n
      BY <1>3, FS_Interval
    <2> DEFINE row == [k \in 1..n |-> 2 * k - 1]
    <2>2. row \in Surjection(1..n, Surplus(size))
      BY <1>4 DEF Surjection
    <2> HIDE DEF row
    <2> QED BY <2>1, <2>2, FS_Surjection
  <1>7. Cardinality(Surplus(size)) \in Nat
    <2>1. IsFiniteSet(DOMAIN rows)
      BY <1>1, FS_Interval
    <2> QED BY <1>5, <2>1, FS_Subset, FS_CardinalityType
  <1>8. Len(rows) = 1 => Surplus(size) = {}
    BY <1>1, <1>3, <1>4
  <1> QED BY <1>1, <1>3, <1>5, <1>6, <1>7, <1>8

\* The configuration of a template.
LEMMA TemplateShownForm == ASSUME IInv, FormOK, NEW i, GetInspectTemplateFinishResult(i) PROVE FormOK'
  <1> DEFINE from == calls[i].arg
             size == NetsOf[from]
             of   == IF kind = "editTemplate" THEN Home ELSE node
  <1>1. /\ i \in DOMAIN calls /\ calls[i].op = "inspect" /\ kind \in {"editTemplate", "from"}
        /\ IF size > Len(pages) THEN CreateItems(Added(size)) ELSE DeleteItems(Surplus(size))
        /\ SetNetworkInfo(from, of) /\ FillTabs
        /\ inspected' = (inspected \/ from = Subject)
        /\ life' = IF size > Len(pages') THEN "overrun" ELSE life
        /\ calls' = Others(i)
        /\ UNCHANGED <<kind, choice, dialog, touched>> /\ life = "open"
    BY DEF GetInspectTemplateFinishResult, Pending
  <1>2. /\ kind = "editTemplate" => from = Subject /\ ~inspected
        /\ kind = "from" => from \in Templates
    BY <1>1 DEF FormOK, AskedOK, Inspecting
  <1>3. from \in Sources /\ size \in Nat /\ of \in Nodes \cup {NoNode}
    <2>1. from \in Sources /\ Subject \in Sources
      BY <1>1, <1>2 DEF Sources
    <2> QED BY <2>1, SettingsAssumption DEF Home, IInv, SentOK
  <1> HIDE DEF from, size, of
  <1>4. Len(rows) \in Nat /\ Len(rows) >= 1 /\ pages = rows
    BY EmptySeq DEF FormOK, CardsOK, ListOK, CardsAgree
  <1>5. /\ ListOK' /\ CardsAgree'
        /\ Len(rows') = IF size > Len(pages) THEN Len(rows) + Added(size)
                        ELSE Len(rows) - Cardinality(Surplus(size))
    <2>1. CASE size > Len(pages)
      <3>1. Added(size) \in Nat
        BY <1>3, <1>4, <2>1 DEF Added
      <3> QED BY <1>1, <2>1, <3>1, CreateKeeps DEF FormOK
    <2>2. CASE ~(size > Len(pages))
      <3>1. size <= Len(pages)
        BY <1>3, <1>4, <2>2
      <3>2. Surplus(size) \in SUBSET DOMAIN rows /\ Cardinality(Surplus(size)) < Len(rows)
        BY <1>3, <3>1, SurplusOK DEF FormOK
      <3> QED BY <1>1, <2>2, <3>2, DeleteKeeps DEF FormOK
    <2> QED BY <2>1, <2>2
  <1>6. pages' = rows' /\ pages' \in Seq(Cards) /\ IsInjective(pages')
    BY <1>5 DEF ListOK, CardsAgree
  <1>7. /\ content' \in Contents
        /\ \A k \in DOMAIN pages' : k <= size =>
             content'[pages'[k]] = [offers |-> of, value |-> <<from, k>>]
    <2>1. content \in Contents
      BY DEF FormOK, CardsOK
    <2> QED BY <1>1, <1>3, <1>6, <2>1, InfoOK DEF size
  <1>8. inspected' \in BOOLEAN /\ (kind \in Inspecting \/ UNCHANGED inspected)
    <2>1. CASE kind = "editTemplate"
      BY <1>1, <1>2, <2>1 DEF Inspecting
    <2>2. CASE kind = "from"
      <3>1. from # Subject /\ inspected \in BOOLEAN
        BY <1>2, <2>2, SettingsAssumption DEF FormOK, PlainOK
      <3> QED BY <1>1, <3>1
    <2> QED BY <1>1, <2>1, <2>2
  <1>9. PlainOK' /\ AskedOK' /\ CardsOK'
    <2>1. life' \in {life, "overrun"} /\ (life' = "open" => life = "open")
      BY <1>1
    <2> QED BY <1>1, <1>5, <1>7, <1>8, <2>1, ShownForm
  <1>10. Pristine' /\ OffersItsNode'
    BY <1>1, <1>2 DEF Pristine, OffersItsNode
  <1>11. ShowsInspected'
    <2> SUFFICES ASSUME inspected', touched = {}, life' = "open"
                 PROVE  LET s == NetsOf[Subject]
                        IN  /\ Len(pages') = IF s = 0 THEN 1 ELSE s
                            /\ \A k \in 1..s :
                                 content'[pages'[k]] = [offers |-> Home, value |-> <<Subject, k>>]
      BY <1>1 DEF ShowsInspected
    <2>1. kind = "editTemplate" /\ from = Subject /\ of = Home /\ size = NetsOf[Subject] /\ ~inspected
      <3>1. kind # "from"
        BY <1>2, <1>1, SettingsAssumption DEF FormOK, AskedOK, Inspecting
      <3> QED BY <1>1, <1>2, <3>1 DEF of, size
    <2>2. Len(rows) = 1
      BY <2>1 DEF FormOK, Pristine
    <2>3. ~(size > Len(pages'))
      BY <1>1
    <2>4. Len(pages') \in Nat
      BY <1>6
    <2>5. Len(pages') = IF size = 0 THEN 1 ELSE size
      <3>1. CASE size > 1
        <4>1. Len(pages') = 1 + (size - 1 + 1) \div 2
          BY <1>4, <1>5, <1>6, <2>2, <3>1 DEF Added
        <4> QED BY <1>3, <2>3, <3>1, <4>1
      <3>2. CASE ~(size > 1)
        <4>1. Surplus(size) = {} /\ size <= Len(pages)
          BY <1>3, <1>4, <2>2, <3>2, SurplusOK DEF FormOK
        <4>2. Len(pages') = 1
          BY <1>4, <1>5, <1>6, <2>2, <3>2, <4>1, FS_EmptySet
        <4> QED BY <1>3, <3>2, <4>2
      <3> QED BY <3>1, <3>2
    <2>6. \A k \in 1..size : k \in DOMAIN pages' /\ k <= size
      BY <1>3, <1>6, <2>5
    <2> QED BY <1>7, <2>1, <2>5, <2>6
  <1> QED BY <1>9, <1>10, <1>11 DEF FormOK

-----------------------------------------------------------------------------
(* Theorems.                                                               *)

LEMMA Starts == Init => IInv
  <1> SUFFICES ASSUME Init PROVE IInv
    OBVIOUS
  <1> DEFINE inspect == Call("inspect", Subject)
             list    == Call("nodes", "")
  <1>1. template \in Sources
    BY DEF Init, Sources
  <1>2. inspect \in Calling /\ list \in Calling
    BY CallOK DEF Args, Sources
  <1>3. inspect.op = "inspect" /\ list.op = "nodes"
    BY DEF Call
  <1>4. /\ calls = <<inspect, list>> \/ calls = <<list>>
        /\ kind = "create" => calls = <<list>>
    BY DEF Init
  <1> HIDE DEF inspect, list
  <1>5. calls \in Seq(Calling) /\ \A k \in DOMAIN calls : calls[k].op # "save"
    <2>1. ASSUME calls = <<list>>
          PROVE  calls \in Seq(Calling) /\ \A k \in DOMAIN calls : calls[k] = list
      BY <1>2, <2>1
    <2>2. ASSUME calls = <<inspect, list>>
          PROVE  calls \in Seq(Calling) /\ \A k \in DOMAIN calls : calls[k] \in {inspect, list}
      BY <1>2, <2>2
    <2> QED BY <1>3, <1>4, <2>1, <2>2
  <1>6. SentOK /\ NoMessage
    BY <1>1, <1>5 DEF Init, SentOK, NoMessage, NoDialog
  <1>7. UpdateIsWhole
    BY <1>5 DEF UpdateIsWhole
  <1>8. ImagesFollow
    <2>1. images = NoNode
      BY DEF Init
    <2> QED BY <1>4, <1>3, <2>1 DEF ImagesFollow
  <1> QED BY <1>6, <1>7, <1>8 DEF IInv

\* The inductive invariant of the calls of the window.
THEOREM Invariance == Spec => []IInv
  <1>1. IInv /\ [Next]_vars => IInv'
    <2> SUFFICES ASSUME IInv, [Next]_vars PROVE IInv'
      OBVIOUS
    <2>1. CASE UNCHANGED vars
      <3>1. UNCHANGED <<kind, calls, node, template, images, touched, dialog>>
        BY <2>1 DEF vars, form, choice
      <3> QED BY <3>1, SameKeeps DEF IInv, NoMessage, SentOK
    <2> QED BY <2>1, ChooseNodeKeeps, ChooseTemplateKeeps, WorkKeeps, ConfirmKeeps, ReplyKeeps DEF Next
  <1> QED BY Starts, <1>1, PTL DEF Spec

\* The form as the constructor leaves it.
LEMMA FormStarts == Init => FormOK
  <1> SUFFICES ASSUME Init PROVE FormOK
    OBVIOUS
  <1> DEFINE inspect == Call("inspect", Subject)
             list    == Call("nodes", "")
  <1>1. inspect.op = "inspect" /\ inspect.arg = Subject /\ list.op = "nodes"
    BY DEF Call
  <1>2. calls = IF kind \in Inspecting THEN <<inspect, list>> ELSE <<list>>
    BY DEF Init, Inspecting
  <1>3. 1 \in Cards /\ NewPage \in [offers : Nodes \cup {NoNode}, value : Values]
    BY SettingsAssumption DEF Cards, NewPage, Values
  <1> HIDE DEF inspect, list
  <1>4. Len(calls) <= MaxCalls
    <2>1. Len(calls) = 1 \/ Len(calls) = 2
      BY <1>2
    <2>2. 1 <= MaxCalls /\ 2 <= MaxCalls
      BY SettingsAssumption
    <2> QED BY <2>1, <2>2
  <1>5. PlainOK
    BY <1>4 DEF Init, PlainOK, NoDialog
  <1>6. AskedOK
    <2>1. kind = "from" => template \in Templates
      BY DEF Init
    <2>2. ~inspected
      BY DEF Init
    <2>3. CASE kind \in Inspecting
      <3>1. DOMAIN calls = {1, 2} /\ calls[1] = inspect /\ calls[2] = list
        BY <1>2, <2>3
      <3> QED BY <1>1, <2>1, <2>2, <2>3, <3>1 DEF AskedOK
    <2>4. CASE kind \notin Inspecting
      <3>1. DOMAIN calls = {1} /\ calls[1] = list
        BY <1>2, <2>4
      <3> QED BY <1>1, <2>1, <2>2, <3>1 DEF AskedOK
    <2> QED BY <2>3, <2>4
  <1>7. /\ rows = <<1>> /\ stack = <<1>> /\ pages = <<1>> /\ count = 1 /\ removable = {}
        /\ content = [card \in Cards |-> NewPage] /\ node = NoNode
    BY DEF Init
  <1>8. CardsOK
    <2>1. ListOK
      BY <1>3, <1>7 DEF ListOK, IsInjective
    <2>2. CardsAgree
      BY <1>7 DEF CardsAgree
    <2>3. content \in Contents
      BY <1>3, <1>7 DEF Contents
    <2> QED BY <2>1, <2>2, <2>3 DEF CardsOK
  <1>9. Pristine /\ ShowsInspected
    BY <1>7 DEF Init, Pristine, ShowsInspected
  <1>10. OffersItsNode
    <2>1. DOMAIN pages = {1} /\ pages[1] \in Cards /\ NewPage.offers = NoNode
      BY <1>3, <1>7 DEF NewPage
    <2> QED BY <1>7, <2>1 DEF OffersItsNode
  <1> QED BY <1>5, <1>6, <1>8, <1>9, <1>10 DEF FormOK

LEMMA ReplyForm == ASSUME IInv, FormOK, NEW i, Reply(i) PROVE FormOK'
  BY PlainReplyForm, NodeListForm, ContainerShownForm, TemplateShownForm DEF Reply

\* The inductive invariant of the form: of its cards, of what is asked about
\* its subject, and of what its pages show.
THEOREM FormInvariance == Spec => []FormOK
  <1>1. IInv /\ FormOK /\ [Next]_vars => FormOK'
    <2> SUFFICES ASSUME IInv, FormOK, [Next]_vars PROVE FormOK'
      OBVIOUS
    <2>1. CASE UNCHANGED vars
      <3>1. UNCHANGED <<kind, life, nodes, node, template, images, cards, wrong, dialog, calls,
                        touched, inspected>>
        BY <2>1 DEF vars, form, choice
      <3>2. PlainOK' /\ AskedOK'
        BY <3>1 DEF FormOK, PlainOK, AskedOK
      <3>3. CardsOK' /\ Pristine' /\ ShowsInspected' /\ OffersItsNode'
        BY <3>1, CardsRest
      <3> QED BY <3>2, <3>3 DEF FormOK
    <2>2. CASE \/ \E n \in Nodes : ChooseNode(n)
               \/ \E t \in Templates : ChooseTemplate(t)
      BY <2>2, ChooseNodeForm, ChooseTemplateForm
    <2>3. CASE \/ \E card \in Cards : TypeNetwork(card)
               \/ \E f \in Faults : TypeTab(f)
      BY <2>3, TypeForm
    <2>4. CASE AddItem \/ \E yes \in BOOLEAN : AnswerDelete(yes)
      BY <2>4, AddItemForm, AnswerDeleteForm
    <2>5. CASE \/ ConfirmCreate \/ DismissMessage \/ ConfirmUpdate \/ Close
               \/ \E card \in Cards : AskDelete(card)
      BY <2>5, ConfirmForm
    <2>6. CASE \E i \in 1..MaxCalls : Reply(i)
      BY <2>6, ReplyForm
    <2> QED BY <2>1, <2>2, <2>3, <2>4, <2>5, <2>6 DEF Next
  <1> QED BY FormStarts, <1>1, Invariance, PTL DEF Spec

\* Every variable has its type.
THEOREM TypeCorrect == Spec => []TypeOK
  <1>1. ASSUME IInv, FormOK PROVE TypeOK
    <2>1. UpdateParts \subseteq ToSet(WriteOrder)
      <3>1. DOMAIN WriteOrder = 1..12
        BY DEF WriteOrder
      <3>2. /\ WriteOrder[3] = "networks" /\ WriteOrder[5] = "policy" /\ WriteOrder[6] = "cpu"
            /\ WriteOrder[7] = "memory" /\ WriteOrder[8] = "files" /\ WriteOrder[9] = "processes"
            /\ WriteOrder[10] = "netProcesses" /\ WriteOrder[11] = "access"
            /\ WriteOrder[12] = "startStop"
        BY DEF WriteOrder
      <3>3. \A k \in 1..12 : WriteOrder[k] \in ToSet(WriteOrder)
        BY <3>1 DEF ToSet
      <3>4. \A k \in {3, 5, 6, 7, 8, 9, 10, 11, 12} : WriteOrder[k] \in ToSet(WriteOrder)
        BY <3>3
      <3> QED BY <3>2, <3>4 DEF UpdateParts
    <2>2. \A i \in DOMAIN calls :
            /\ calls[i].op \in {"nodes", "images", "inspect", "save"}
            /\ calls[i].parts \subseteq ToSet(WriteOrder)
      <3>1. \A i \in DOMAIN calls : calls[i] \in Calling
        BY <1>1, ElementOfSeq DEF IInv, SentOK
      <3> QED BY <2>1, <3>1 DEF Calling, Tabs
    <2>3. /\ rows \in Seq(Cards) /\ stack \in Seq(Cards) /\ pages \in Seq(Cards)
          /\ count \in Nat /\ removable \subseteq Cards
      <3>1. rows \in Seq(Cards) /\ stack = rows /\ pages = rows /\ count = Len(rows)
            /\ removable \subseteq ToSet(rows)
        BY <1>1 DEF FormOK, CardsOK, ListOK, CardsAgree
      <3>2. ToSet(rows) \subseteq Cards
        BY <3>1 DEF ToSet
      <3> QED BY <3>1, <3>2
    <2>4. content \in [Cards -> [offers : Nodes \cup {NoNode}, value : Values]]
      BY <1>1 DEF FormOK, CardsOK, Contents
    <2>5. template \in Sources
      BY <1>1 DEF IInv, SentOK
    <2> QED BY <1>1, <2>2, <2>3, <2>4, <2>5 DEF TypeOK, FormOK, PlainOK
  <1> QED BY <1>1, Invariance, FormInvariance, PTL

\* The list, the stack and the pages of network cards stay one list, counted,
\* and a card can be deleted exactly when another is left.
THEOREM CardsStayTogether == Spec => []CardsAgree
  BY FormInvariance, PTL DEF FormOK, CardsOK

\* One network card is left, whatever is deleted and in whatever order.
THEOREM ACardIsLeft == Spec => []KeepsACard
  <1>1. FormOK => KeepsACard
    BY DEF FormOK, CardsOK, ListOK, CardsAgree, KeepsACard
  <1> QED BY <1>1, FormInvariance, PTL

\* The networks of an inspected subject are shown until the user changes
\* something, whatever reply came first.
THEOREM InspectedIsShown == Spec => []ShowsInspected
  BY FormInvariance, PTL DEF FormOK

\* Every card of what is created from nothing offers the networks of the node
\* of the request.
THEOREM NetworksAreOfNode == Spec => []OffersItsNode
  BY FormInvariance, PTL DEF FormOK

\* A template whose networks, and those of every other, are two at most finds a
\* page for each: the loop that stops half way (getInspectTemplateFinishResult)
\* needs a third.
THEOREM TwoNetworksHavePages ==
  ASSUME \A s \in Sources : NetsOf[s] <= 2
  PROVE  Spec => []EveryNetworkHasPage
  <1>1. Init => EveryNetworkHasPage
    BY DEF Init, EveryNetworkHasPage
  <1>2. IInv /\ FormOK /\ EveryNetworkHasPage /\ [Next]_vars => EveryNetworkHasPage'
    <2> SUFFICES ASSUME IInv, FormOK, life # "overrun", [Next]_vars PROVE life' # "overrun"
      BY DEF EveryNetworkHasPage
    <2>1. ASSUME NEW i, GetInspectTemplateFinishResult(i) PROVE life' # "overrun"
      <3> DEFINE from == calls[i].arg
                 size == NetsOf[from]
      <3>1. /\ i \in DOMAIN calls /\ calls[i].op = "inspect" /\ kind \in {"editTemplate", "from"}
            /\ IF size > Len(pages) THEN CreateItems(Added(size)) ELSE DeleteItems(Surplus(size))
            /\ life' = IF size > Len(pages') THEN "overrun" ELSE life
        BY <2>1 DEF GetInspectTemplateFinishResult, Pending
      <3>2. from \in Sources
        BY <3>1 DEF FormOK, AskedOK, Inspecting, Sources
      <3>3. size \in Nat /\ size <= 2
        BY <3>2, SettingsAssumption
      <3> HIDE DEF size
      <3>4. Len(rows) \in Nat /\ Len(rows) >= 1 /\ pages = rows
        BY EmptySeq DEF FormOK, CardsOK, ListOK, CardsAgree
      <3>5. CASE size > Len(pages)
        <4>1. size = 2 /\ Len(rows) = 1
          <5>1. size > Len(rows)
            BY <3>4, <3>5
          <5> DEFINE n == Len(rows)
          <5>2. n \in Nat /\ n >= 1 /\ size > n
            BY <3>4, <5>1
          <5> HIDE DEF n
          <5>3. size = 2 /\ n = 1
            BY <3>3, <5>2
          <5> QED BY <5>3 DEF n
        <4>2. Added(size) = 1
          BY <3>4, <4>1 DEF Added
        <4>3. CardsAgree' /\ Len(rows') = Len(rows) + 1
          BY <3>1, <3>5, <4>2, CreateKeeps DEF FormOK
        <4>4. Len(pages') = 2
          BY <4>1, <4>3 DEF CardsAgree
        <4> QED BY <3>1, <4>1, <4>4
      <3>6. CASE ~(size > Len(pages))
        <4>1. size <= Len(pages)
          BY <3>3, <3>4, <3>6
        <4>2. /\ Surplus(size) \in SUBSET DOMAIN rows /\ Cardinality(Surplus(size)) \in Nat
              /\ Cardinality(Surplus(size)) < Len(rows)
              /\ Cardinality(Surplus(size)) <= Len(rows) - size
          BY <3>3, <4>1, SurplusOK DEF FormOK
        <4>3. CardsAgree' /\ Len(rows') = Len(rows) - Cardinality(Surplus(size))
          BY <3>1, <3>6, <4>2, DeleteKeeps DEF FormOK
        <4>4. ~(size > Len(rows'))
          BY <3>3, <3>4, <4>2, <4>3
        <4>5. pages' = rows'
          BY <4>3 DEF CardsAgree
        <4> QED BY <3>1, <4>4, <4>5
      <3> QED BY <3>5, <3>6
    <2>2. ASSUME NEW i, \/ CallFails(i) \/ \E listed \in SUBSET Nodes : GetNodeListResult(i, listed)
                        \/ GetListImageFinishedResult(i) \/ GetContainerInspectResult(i)
                        \/ GetSaveResult(i)
          PROVE  life' # "overrun"
      BY <2>2 DEF CallFails, GetNodeListResult, GetListImageFinishedResult, GetContainerInspectResult,
         GetSaveResult, form
    <2>3. CASE \/ \E n \in Nodes : ChooseNode(n)
               \/ \E t \in Templates : ChooseTemplate(t)
               \/ \E card \in Cards : TypeNetwork(card) \/ AskDelete(card)
               \/ \E f \in Faults : TypeTab(f)
               \/ AddItem \/ \E yes \in BOOLEAN : AnswerDelete(yes)
               \/ ConfirmCreate \/ DismissMessage \/ ConfirmUpdate \/ Close \/ UNCHANGED vars
      <3>1. life' \in {life, "closed"}
        BY <2>3 DEF ChooseNode, ChooseTemplate, TypeNetwork, AskDelete, TypeTab, AddItem, AnswerDelete,
           ConfirmCreate, DismissMessage, ConfirmUpdate, Close, vars
      <3> QED BY <3>1
    <2> QED BY <2>1, <2>2, <2>3 DEF Next, Reply
  <1> QED BY <1>1, <1>2, Invariance, FormInvariance, PTL DEF Spec

\* A container from a template is created on the node of the template.
THEOREM NodeIsTemplates == Spec => []NodeFollowsTemplate
  <1>1. Init => NodeFollowsTemplate
    BY DEF Init, NodeFollowsTemplate
  <1>2. NodeFollowsTemplate /\ [Next]_vars => NodeFollowsTemplate'
    <2> SUFFICES ASSUME NodeFollowsTemplate, [Next]_vars PROVE NodeFollowsTemplate'
      OBVIOUS
    <2>1. CASE UNCHANGED <<kind, nodes, node, template>> /\ touched \subseteq touched'
      BY <2>1 DEF NodeFollowsTemplate
    <2>2. ASSUME NEW n \in Nodes, ChooseNode(n) PROVE NodeFollowsTemplate'
      BY <2>2 DEF ChooseNode, NodeFollowsTemplate
    <2>3. ASSUME NEW t \in Templates, ChooseTemplate(t) PROVE NodeFollowsTemplate'
      BY <2>3 DEF ChooseTemplate, Picked, NodeFollowsTemplate
    <2>4. ASSUME NEW i, NEW listed \in SUBSET Nodes, GetNodeListResult(i, listed)
          PROVE  NodeFollowsTemplate'
      <3>1. kind = "from" /\ NodeOf[template] \in listed => node' = NodeOf[template]
        BY <2>4 DEF GetNodeListResult, Picked
      <3>2. nodes' = listed /\ UNCHANGED <<kind, template>>
        BY <2>4 DEF GetNodeListResult
      <3> QED BY <3>1, <3>2 DEF NodeFollowsTemplate
    <2>5. CASE \/ \E card \in Cards : TypeNetwork(card) \/ AskDelete(card)
               \/ \E f \in Faults : TypeTab(f)
               \/ AddItem \/ \E yes \in BOOLEAN : AnswerDelete(yes)
               \/ ConfirmCreate \/ DismissMessage \/ ConfirmUpdate \/ Close \/ UNCHANGED vars
      <3>1. UNCHANGED <<kind, nodes, node, template>>
        BY <2>5 DEF TypeNetwork, AskDelete, TypeTab, AddItem, AnswerDelete, ConfirmCreate,
           DismissMessage, ConfirmUpdate, Close, vars, form, choice
      <3>2. touched \subseteq touched'
        BY <2>5 DEF TypeNetwork, AskDelete, TypeTab, AddItem, AnswerDelete, DelItem, ConfirmCreate,
           DismissMessage, ConfirmUpdate, Close, vars
      <3> QED BY <2>1, <3>1, <3>2
    <2>6. ASSUME NEW i, \/ CallFails(i) \/ GetListImageFinishedResult(i)
                        \/ GetContainerInspectResult(i) \/ GetInspectTemplateFinishResult(i)
                        \/ GetSaveResult(i)
          PROVE  NodeFollowsTemplate'
      <3>1. UNCHANGED <<kind, nodes, node, template, touched>>
        BY <2>6 DEF CallFails, GetListImageFinishedResult, GetContainerInspectResult,
           GetInspectTemplateFinishResult, GetSaveResult, form, choice
      <3> QED BY <2>1, <3>1
    <2> QED BY <2>2, <2>3, <2>4, <2>5, <2>6 DEF Next, Reply
  <1> QED BY <1>1, <1>2, PTL DEF Spec

\* An update of a container carries every part.
THEOREM UpdatesAreWhole == Spec => []UpdateIsWhole
  BY Invariance, PTL DEF IInv

\* The images offered for a new container are those of its node.
THEOREM ImagesAreOfNode == Spec => []ImagesOfNode
  <1>1. IInv => ImagesOfNode
    BY DEF IInv, ImagesFollow, ImagesOfNode
  <1> QED BY <1>1, Invariance, PTL
=============================================================================
