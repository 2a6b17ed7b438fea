--------------------------- MODULE ToolDirectory ---------------------------
(***************************************************************************)
(* What the registry promises the gateway: a directory of the tools the    *)
(* connected backends last reported, in which every tool resolves to the   *)
(* backend that owns it.  A listing may still show tools that a            *)
(* registration withdrew, never ones that an update or a removal did.      *)
(***************************************************************************)
CONSTANTS Backends, Tools, Names, NsName, Groups, GroupNames

VARIABLES
  dir,        \* dir[b]: the tools backend b provides
  withdrawn,  \* tools a registration withdrew that a listing may still show
  reply       \* the last answer given

vars == <<dir, withdrawn, reply>>

Entries == {e \in Backends \X Tools : e[2] \in dir[e[1]]}

Init ==
  /\ dir = [b \in Backends |-> {}]
  /\ withdrawn = {}
  /\ reply = [op |-> "none"]

\* Backend b is connected and provides T, or reports a failure (T = {}).
Publish(b, T) ==
  /\ dir' = [dir EXCEPT ![b] = T]
  /\ withdrawn' = {}
  /\ UNCHANGED reply

Register(b) ==
  /\ dir' = [dir EXCEPT ![b] = {}]
  /\ withdrawn' \in SUBSET (withdrawn \cup ({b} \X dir[b]))
  /\ UNCHANGED reply

Forget ==
  /\ withdrawn' = {}
  /\ UNCHANGED <<dir, reply>>

Listed == Entries \cup withdrawn
InGroup(g, E) == {e \in E : NsName[e] \in GroupNames[g]}

List ==
  /\ reply' = [op |-> "list", tools |-> Listed]
  /\ UNCHANGED <<dir, withdrawn>>

ListGroup(g) ==
  /\ reply' = [op |-> "group", group |-> g, tools |-> InGroup(g, Listed)]
  /\ UNCHANGED <<dir, withdrawn>>

NoSuchGroup ==
  /\ reply' = [op |-> "notFound"]
  /\ UNCHANGED <<dir, withdrawn>>

ListGroups ==
  /\ reply' = [op |-> "groups", byGroup |-> [g \in Groups |-> InGroup(g, Listed)]]
  /\ UNCHANGED <<dir, withdrawn>>

Resolve(n) ==
  /\ reply' = [op |-> "route", name |-> n, to |-> {e \in Entries : NsName[e] = n}]
  /\ UNCHANGED <<dir, withdrawn>>

Next ==
  \/ \E b \in Backends, T \in SUBSET Tools : Publish(b, T)
  \/ \E b \in Backends : Register(b)
  \/ Forget \/ List \/ ListGroups \/ NoSuchGroup
  \/ \E g \in Groups : ListGroup(g)
  \/ \E n \in Names : Resolve(n)

Spec == Init /\ [][Next]_vars
=============================================================================
