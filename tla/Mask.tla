-------------------------------- MODULE Mask --------------------------------
(***************************************************************************)
(* What a page promises of the mask that covers it while it waits: setBusy *)
(* of Page.  ContainerList, ListPages and Audit implement it, with the     *)
(* calls that take the mask down as those it waits for.                    *)
(***************************************************************************)
CONSTANT Calls

VARIABLES
  busy,    \* the mask covers the page
  waiting  \* the calls in flight whose reply takes it down

vars == <<busy, waiting>>

Init == busy = FALSE /\ waiting = {}

\* setBusy(true), and a call; some pages call without it.
Ask(c) ==
  /\ waiting' = waiting \cup {c}
  /\ busy' \in {busy, TRUE}

\* setBusy(false), by the slot of a reply.  The same reply may come again, and
\* one that was asked for by a page that is no more takes nothing down.
Answer(c) ==
  /\ c \in waiting
  /\ waiting' \in {waiting, waiting \ {c}}
  /\ busy' = FALSE

Next == \E c \in Calls : Ask(c) \/ Answer(c)

Spec == Init /\ [][Next]_vars

\* The mask is up only while a reply that takes it down is to come
\* (page.cpp:33).
Owned == busy => waiting # {}
=============================================================================
