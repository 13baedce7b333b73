------------------------------ MODULE Settings ------------------------------
(***************************************************************************)
(* ContainerSetting: the window in which a container or a template is      *)
(* created, edited, or derived from the other.  Opened, it asks for the    *)
(* nodes and for the configuration of its subject; the replies come in any *)
(* order, while the user already works in it, for it is never masked.      *)
(* Its network cards are kept three times: as rows of the list beside, as  *)
(* pages of the stack, and in m_netWorkPages; m_netWorkCount counts them.  *)
(* A question or message of the window runs an event loop of its own, in   *)
(* which replies are handled.                                              *)
(*                                                                         *)
(* The texts of the tabs are reduced to which of them would be refused;    *)
(* the messages of failed calls are left out.                              *)
(***************************************************************************)
EXTENDS Integers, Sequences, SequencesExt, FiniteSets

CONSTANTS
  Kinds,      \* the kinds of window there are
  Nodes,
  NoNode,     \* no node is selected
  Templates,  \* those a container may be created from
  Subject,    \* the container or template the window was opened for
  NodeOf,     \* the node of a template, and of the subject
  NetsOf,     \* how many networks they have
  Faults,     \* the tabs that may be filled in wrongly
  MaxCards,   \* bound on the network cards
  MaxCalls    \* bound on the calls in flight

Sources == Templates \cup {Subject}
Home == NodeOf[Subject]
\* The widgets of cards: an address is used again once it is free.
Cards == 1..MaxCards

\* writeContainerConfig and updateContainer, in the order they read the tabs
WriteOrder == <<"graphic", "volumes", "networks", "envs", "policy", "cpu", "memory",
                "files", "processes", "netProcesses", "access", "startStop">>
UpdateParts == {"cpu", "memory", "policy", "networks", "files", "processes",
                "netProcesses", "access", "startStop"}

ASSUME SettingsAssumption ==
  /\ Kinds \subseteq {"create", "edit", "createTemplate", "editTemplate", "from", "generate"}
  /\ NoNode \notin Nodes
  /\ Subject \notin Templates /\ Templates # {}
  /\ NodeOf \in [Sources -> Nodes] /\ NetsOf \in [Sources -> Nat]
  /\ Faults \subseteq {"volumes", "envs", "memory", "files", "processes", "netProcesses"}
  /\ MaxCards \in Nat \ {0}
  /\ MaxCalls \in Nat /\ MaxCalls >= 2  \* those the constructor makes

VARIABLES
  kind,       \* m_type
  life,       \* "open", "closed", or how it went wrong
  nodes,      \* m_nodeInfo
  node,       \* the node in cb_node
  template,   \* the template in cb_template; it is hidden but in kind "from"
  images,     \* the node whose images m_cbImage offers
  rows,       \* the network cards in the list, m_baseItems
  stack,      \* their pages in m_baseConfStack
  pages,      \* m_netWorkPages
  count,      \* m_netWorkCount
  removable,  \* the rows with a delete button
  content,    \* what the page of a card shows
  wrong,      \* the tabs filled in wrongly
  dialog,     \* the question or message that is open
  calls,      \* the calls in flight
  touched,    \* history: what the user has changed
  inspected   \* history: the subject's configuration was shown

choice == <<nodes, node, template, images>>
cards  == <<rows, stack, pages, count, removable, content>>
form   == <<choice, cards, wrong>>
vars   == <<kind, life, form, dialog, calls, touched, inspected>>

\* A page shows a network of a configuration, or what is the user's own.
Own == <<"", 0>>
Values == {Own} \cup UNION {{<<s, i>> : i \in 1..NetsOf[s]} : s \in Sources}
NewPage == [offers |-> NoNode, value |-> Own]

Call(op, arg) == [op |-> op, arg |-> arg, parts |-> {}]
Save(parts) == [op |-> "save", arg |-> "", parts |-> parts]
\* A question about a card, or the message that goes before a request of parts.
NoDialog == [is |-> "none", card |-> 0, parts |-> {}]
Question(card) == [NoDialog EXCEPT !.is = "delete", !.card = card]
Message(parts) == [NoDialog EXCEPT !.is = "message", !.parts = parts]

TypeOK ==
  /\ kind \in Kinds /\ life \in {"open", "closed", "overrun", "freed"}
  /\ nodes \subseteq Nodes /\ node \in nodes \cup {NoNode}
  /\ template \in Sources /\ images \in Nodes \cup {NoNode}
  /\ rows \in Seq(Cards) /\ stack \in Seq(Cards) /\ pages \in Seq(Cards)
  /\ count \in Nat /\ removable \subseteq Cards
  /\ content \in [Cards -> [offers : Nodes \cup {NoNode}, value : Values]]
  /\ wrong \subseteq Faults
  /\ dialog \in [is : {"none", "delete", "message"}, card : Cards \cup {0},
                parts : SUBSET ToSet(WriteOrder)]
  /\ Len(calls) \leq MaxCalls
  /\ \A i \in DOMAIN calls :
       /\ calls[i].op \in {"nodes", "images", "inspect", "save"}
       /\ calls[i].parts \subseteq ToSet(WriteOrder)
  /\ touched \subseteq {"node", "cards"} /\ inspected \in BOOLEAN

\* The constructor, and setTemplateList right after it.
Init ==
  /\ kind \in Kinds /\ life = "open"
  /\ nodes = {} /\ node = NoNode /\ images = NoNode
  /\ template \in IF kind = "from" THEN Templates ELSE {Subject}
  /\ rows = <<1>> /\ stack = <<1>> /\ pages = <<1>> /\ count = 1 /\ removable = {}
  /\ content = [card \in Cards |-> NewPage]
  /\ wrong = {} /\ dialog = NoDialog
  /\ calls = IF kind \in {"edit", "editTemplate", "generate"}
             THEN <<Call("inspect", Subject), Call("nodes", "")>>
             ELSE <<Call("nodes", "")>>
  /\ touched = {} /\ inspected = FALSE

-----------------------------------------------------------------------------
(* Network cards.                                                          *)

\* The i-th smallest number of S.
Nth(S, i) == CHOOSE k \in S : Cardinality({m \in S : m <= k}) = i

\* The n cards that the next n pages will be.
Fresh(n) == [i \in 1..n |-> Nth(Cards \ ToSet(rows), i)]
HasRoom(n) == n <= Cardinality(Cards \ ToSet(rows))

\* updateRemovableItem, once there are n cards
UpdateRemovable(n) ==
  removable' = IF n > 1 THEN ToSet(rows') ELSE IF n = 1 THEN {} ELSE removable

\* createGuideItem and a page of its own, n times, then updateRemovableItem
CreateItems(n) ==
  /\ HasRoom(n)
  /\ rows' = rows \o Fresh(n) /\ stack' = stack \o Fresh(n) /\ pages' = pages \o Fresh(n)
  /\ count' = count + n
  /\ UpdateRemovable(count')

\* What takeItem, removeAt or removeOne leaves of a list.
Without(s, which) ==
  [i \in 1..(Len(s) - Cardinality(which)) |-> s[Nth(DOMAIN s \ which, i)]]

MutKeepPage(which) ==
  /\ rows' = Without(rows, which)
  /\ stack' = Without(stack, which)
  /\ pages' = pages
  /\ count' = count - Cardinality(which)
  /\ UpdateRemovable(count')

\* deleteItem of the rows in which, then updateRemovableItem
DeleteItems(which) ==
  /\ rows' = Without(rows, which)
  /\ stack' = Without(stack, which)
  /\ pages' = Without(pages, {i \in DOMAIN pages : \E r \in which : pages[i] = stack[r]})
  /\ count' = count - Cardinality(which)
  /\ UpdateRemovable(count')

Kept(card) == IF card \in ToSet(pages') THEN content[card] ELSE NewPage

\* setNetworkInfo of the first pages, with the networks of one node
SetNetworkInfo(from, of) ==
  content' = [card \in Cards |->
    IF \E i \in DOMAIN pages' : i <= NetsOf[from] /\ pages'[i] = card
    THEN [offers |-> of, value |-> <<from, CHOOSE i \in DOMAIN pages' : pages'[i] = card>>]
    ELSE Kept(card)]

\* setNodeNetworkList
SetNodeNetworkList(of) ==
  content' = [card \in Cards |->
    IF card \in ToSet(pages) THEN [offers |-> of, value |-> Own] ELSE content[card]]

-----------------------------------------------------------------------------
(* The user.  A dialog of the window takes all input.                      *)

CanWork == life = "open" /\ dialog = NoDialog
Send(call) == Len(calls) < MaxCalls /\ calls' = Append(calls, call)
ForImages == kind \in {"create", "from"}

MutAsksImages(of) == IF ForImages THEN <<Call("images", Home)>> ELSE <<>>

\* getImageInfo, for the windows of containers to be
AsksImages(of) == IF ForImages THEN <<Call("images", of)>> ELSE <<>>

MutPicked(wanted, listed, otherwise) == otherwise

\* setCurrentText does nothing if there is no such text.
Picked(wanted, listed, otherwise) == IF wanted \in listed THEN wanted ELSE otherwise

\* onNodeSelectedChanged; an edited container stays on its node.
ChooseNode(n) ==
  /\ CanWork /\ kind # "edit" /\ n \in nodes
  /\ node' = n
  /\ calls' = calls \o AsksImages(n) /\ Len(calls') <= MaxCalls
  /\ SetNodeNetworkList(n)
  /\ touched' = touched \cup {"node"}
  /\ UNCHANGED <<kind, life, nodes, template, images, rows, stack, pages, count,
                 removable, wrong, dialog, inspected>>

\* onTempSelectedChanged: the node follows, not its images and networks.
ChooseTemplate(t) ==
  /\ CanWork /\ kind = "from"
  /\ template' = t
  /\ Send(Call("inspect", t))
  /\ node' = Picked(NodeOf[t], nodes, node)
  /\ UNCHANGED <<kind, life, nodes, images, cards, wrong, dialog, touched, inspected>>

\* What is typed into the page of a card.
TypeNetwork(card) ==
  /\ CanWork /\ card \in ToSet(pages)
  /\ content' = [content EXCEPT ![card].value = Own]
  /\ touched' = touched \cup {"cards"}
  /\ UNCHANGED <<kind, life, choice, rows, stack, pages, count, removable, wrong,
                 dialog, calls, inspected>>

\* What is typed into the other tabs.
TypeTab(f) ==
  /\ CanWork
  /\ wrong' = SymDiff(wrong, {f})
  /\ UNCHANGED <<kind, life, choice, cards, dialog, calls, touched, inspected>>

MutAddItem ==
  /\ CanWork
  /\ CreateItems(1)
  /\ touched' = touched \cup {"cards"}
  /\ UNCHANGED <<content, kind, life, choice, wrong, dialog, calls, inspected>>

\* onAddItem
AddItem ==
  /\ CanWork
  /\ CreateItems(1)
  /\ content' = [content EXCEPT ![Last(rows')].offers = node]
  /\ touched' = touched \cup {"cards"}
  /\ UNCHANGED <<kind, life, choice, wrong, dialog, calls, inspected>>

\* onDelItem, up to its question
AskDelete(card) ==
  /\ CanWork /\ card \in removable
  /\ dialog' = Question(card)
  /\ UNCHANGED <<kind, life, form, calls, touched, inspected>>

\* onDelItem: the rows may be others than when the question was asked.
DelItem(card, last) ==
  LET at == {r \in DOMAIN rows : rows[r] = card}
  IN  IF at # {} /\ count > last
      THEN /\ DeleteItems(at)
           /\ content' = [c \in Cards |-> Kept(c)]
           /\ touched' = touched \cup {"cards"}
      ELSE UNCHANGED <<cards, touched>>

MutAnswerDelete(yes) ==
  /\ life = "open" /\ dialog.is = "delete"
  /\ dialog' = NoDialog
  /\ IF yes THEN DelItem(dialog.card, 0) ELSE UNCHANGED <<cards, touched>>
  /\ UNCHANGED <<kind, life, choice, wrong, calls, inspected>>

AnswerDelete(yes) ==
  /\ life = "open" /\ dialog.is = "delete"
  /\ dialog' = NoDialog
  /\ IF yes THEN DelItem(dialog.card, 1) ELSE UNCHANGED <<cards, touched>>
  /\ UNCHANGED <<kind, life, choice, wrong, calls, inspected>>

\* What writeContainerConfig has written when it meets the first wrong tab.
Written ==
  {WriteOrder[i] : i \in {j \in DOMAIN WriteOrder : \A k \in 1..j : WriteOrder[k] \notin wrong}}

\* createContainer, createTemplate, updateTemplate: a wrong tab brings a
\* message, and the request goes all the same.
ConfirmCreate ==
  /\ CanWork /\ kind # "edit"
  /\ IF wrong = {}
     THEN Send(Save(Written)) /\ UNCHANGED dialog
     ELSE dialog' = Message(Written) /\ UNCHANGED calls
  /\ UNCHANGED <<kind, life, form, touched, inspected>>

DismissMessage ==
  /\ life = "open" /\ dialog.is = "message"
  /\ Send(Save(dialog.parts))
  /\ dialog' = NoDialog
  /\ UNCHANGED <<kind, life, form, touched, inspected>>

\* updateContainer returns at a wrong tab.
ConfirmUpdate ==
  /\ CanWork /\ kind = "edit" /\ wrong \cap UpdateParts = {}
  /\ Send(Save(UpdateParts))
  /\ UNCHANGED <<kind, life, form, dialog, touched, inspected>>

Close ==
  /\ CanWork
  /\ life' = "closed"
  /\ UNCHANGED <<kind, form, dialog, calls, touched, inspected>>

-----------------------------------------------------------------------------
(* Replies, in any order.                                                  *)

Pending(i, op) == life = "open" /\ i \in DOMAIN calls /\ calls[i].op = op
Others(i) == RemoveAt(calls, i)

CallFails(i) ==
  /\ life = "open" /\ i \in DOMAIN calls
  /\ calls' = Others(i)
  /\ UNCHANGED <<kind, life, form, dialog, touched, inspected>>

MutListsNetworks == kind # "from"

\* setNodeNetworkList would undo what an inspection has shown: only the
\* windows that inspect nothing call it.
ListsNetworks == kind \in {"create", "createTemplate"}

\* getNodeListResult
GetNodeListResult(i, listed) ==
  /\ Pending(i, "nodes")
  /\ nodes' = listed
  /\ \E first \in IF listed = {} THEN {NoNode} ELSE listed :
       LET wanted == CASE kind = "from" -> NodeOf[template]
                       [] kind \in {"edit", "editTemplate", "generate"} -> Home
                       [] OTHER -> first
       IN  node' = Picked(wanted, listed, first)
  /\ IF ListsNetworks THEN SetNodeNetworkList(node') ELSE UNCHANGED content
  /\ calls' = Others(i)
              \o (IF kind = "from" THEN <<Call("inspect", template)>> ELSE <<>>)
              \o AsksImages(node')
  /\ Len(calls') <= MaxCalls
  /\ UNCHANGED <<kind, life, template, images, rows, stack, pages, count, removable,
                 wrong, dialog, touched, inspected>>

\* getListImageFinishedResult
GetListImageFinishedResult(i) ==
  /\ Pending(i, "images")
  /\ images' = calls[i].arg
  /\ calls' = Others(i)
  /\ UNCHANGED <<kind, life, nodes, node, template, cards, wrong, dialog, touched, inspected>>

\* The tabs that a configuration fills: what was wrong in them may be gone.
FillTabs == \E left \in SUBSET wrong : wrong' = left \ {"memory"}

\* getContainerInspectResult: one card was there from the start.
GetContainerInspectResult(i) ==
  /\ Pending(i, "inspect") /\ kind \in {"edit", "generate"}
  /\ CreateItems(IF NetsOf[Subject] > 0 THEN NetsOf[Subject] - 1 ELSE 0)
  /\ SetNetworkInfo(Subject, Home)
  /\ FillTabs
  /\ inspected' = TRUE
  /\ calls' = Others(i)
  /\ UNCHANGED <<kind, life, choice, dialog, touched>>

\* The cards that getInspectTemplateFinishResult adds: the bound of its loop
\* shrinks as the pages grow.
Added(size) == (size - Len(pages) + 1) \div 2

\* Those it deletes: it goes on by one row after each.
Surplus(size) ==
  LET min(S) == CHOOSE n \in S : \A m \in S : n <= m
      n == min({Len(pages) - size, (Len(rows) + 1) \div 2, count - 1})
  IN  {2 * k - 1 : k \in 1..n}

\* getInspectTemplateFinishResult; m_netWorkPages.at(i) may not be there.
GetInspectTemplateFinishResult(i) ==
  LET from == calls[i].arg
      size == NetsOf[from]
      of   == IF kind = "editTemplate" THEN Home ELSE node
  IN  /\ Pending(i, "inspect") /\ kind \in {"editTemplate", "from"}
      /\ IF size > Len(pages) THEN CreateItems(Added(size))
         ELSE DeleteItems(Surplus(size))
      /\ SetNetworkInfo(from, of)
      /\ FillTabs
      /\ inspected' = (inspected \/ from = Subject)
      /\ life' = IF size > Len(pages') THEN "overrun" ELSE life
      /\ calls' = Others(i)
      /\ UNCHANGED <<kind, choice, dialog, touched>>

\* The results of the requests.  The window deletes itself when it closes,
\* within the event loop of the dialog if one is open.
GetSaveResult(i) ==
  /\ Pending(i, "save")
  /\ life' = IF dialog = NoDialog THEN "closed" ELSE "freed"
  /\ calls' = Others(i)
  /\ UNCHANGED <<kind, form, dialog, touched, inspected>>

Reply(i) ==
  \/ CallFails(i)
  \/ \E listed \in SUBSET Nodes : GetNodeListResult(i, listed)
  \/ GetListImageFinishedResult(i)
  \/ GetContainerInspectResult(i)
  \/ GetInspectTemplateFinishResult(i)
  \/ GetSaveResult(i)

Next ==
  \/ \E n \in Nodes : ChooseNode(n)
  \/ \E t \in Templates : ChooseTemplate(t)
  \/ \E card \in Cards : TypeNetwork(card) \/ AskDelete(card)
  \/ \E f \in Faults : TypeTab(f)
  \/ AddItem
  \/ \E yes \in BOOLEAN : AnswerDelete(yes)
  \/ ConfirmCreate \/ DismissMessage \/ ConfirmUpdate \/ Close
  \/ \E i \in 1..MaxCalls : Reply(i)

Spec == Init /\ [][Next]_vars

-----------------------------------------------------------------------------

\* The list, the stack and m_netWorkPages hold the same cards in the same
\* order, m_netWorkCount counts them, and a card can be deleted exactly when
\* another is left: whatever order rows are added, deleted by the user or
\* adjusted by a reply in (createGuideItem, deleteItem, updateRemovableItem).
CardsAgree ==
  /\ stack = rows /\ pages = rows /\ count = Len(rows)
  /\ removable = IF count > 1 THEN ToSet(rows) ELSE {}

\* One network card is left, even if the reply of a template has deleted
\* others while the question about one was open (onDelItem).
KeepsACard == pages # <<>>

\* A window that inspects its subject shows its networks, in their order and
\* with those of its node to choose from, until the user changes something:
\* the list of nodes, which may come before or after, does not undo them
\* (container-setting.cpp:939).
ShowsInspected ==
  inspected /\ touched = {} /\ life = "open" =>
    LET size == NetsOf[Subject]
    IN  /\ Len(pages) = IF size = 0 THEN 1 ELSE size
        /\ \A i \in 1..size : content[pages[i]] = [offers |-> Home, value |-> <<Subject, i>>]

\* When a container or a template is created from nothing, every card offers
\* the networks of the node that the request will name, however nodes are
\* chosen, cards added and replies delayed.
OffersItsNode ==
  kind \in {"create", "createTemplate"} =>
    \A i \in DOMAIN pages : content[pages[i]].offers = node

\* The images offered are those of the node of the request, as long as the
\* user has not chosen another.
ImagesOfNode ==
  kind = "create" /\ "node" \notin touched => images \in {NoNode, node}

\* A container from a template is created on the node of the template, if that
\* is among the nodes: whichever is chosen or listed first, until the user
\* chooses a node himself (onTempSelectedChanged, getNodeListResult).
NodeFollowsTemplate ==
  kind = "from" /\ "node" \notin touched /\ NodeOf[template] \in nodes => node = NodeOf[template]

\* An update carries every part, or is not sent.
UpdateIsWhole ==
  kind = "edit" => \A i \in DOMAIN calls : calls[i].op = "save" => calls[i].parts = UpdateParts

\* Each network of a template has a page when it is shown: "number to create
\* - m_netWorkPages.size()" (container-setting.cpp:1158).
EveryNetworkHasPage == life # "overrun"
=============================================================================
