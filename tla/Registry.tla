------------------------------ MODULE Registry ------------------------------
(***************************************************************************)
(* The registry actor (src/src/registry.rs): the table of backends, the    *)
(* route of every namespaced tool name, and the cached aggregate listing.  *)
(*                                                                         *)
(* The actor handles one message at a time, so each message is one action; *)
(* the messages may come in any order from backends, the gateway and       *)
(* request tasks.  A tool list is a set: the code's lists are ordered by   *)
(* the iteration of a hash map, and nothing depends on that order.  The    *)
(* TTL of the cache is a flag that time may clear at any moment.           *)
(***************************************************************************)
EXTENDS Naturals, FiniteSets

CONSTANTS
  Backends,    \* backend names
  Tools,       \* the tools' own names
  Names,       \* namespaced names
  NsName,      \* NsName[<<b, t>>]: the name NamespacedTool::new forms
  Groups,      \* names of the configured tool groups
  GroupNames,  \* GroupNames[g]: the namespaced names group g's filters accept
  NoBackend

ASSUME NamingAssumption ==
  /\ NsName \in [Backends \X Tools -> Names]
  /\ GroupNames \in [Groups -> SUBSET Names]
  /\ NoBackend \notin Backends

\* Two tools never share a namespaced name.  The code does not ensure this.
Injective == \A d, e \in Backends \X Tools : NsName[d] = NsName[e] => d = e

VARIABLES
  backends,  \* RegistryActor.backends; state "Absent" when there is no entry
  routing,   \* RegistryActor.tool_routing
  cache,     \* tool_cache.tools
  fresh,     \* tool_cache.cached_at.elapsed() < ttl
  reply      \* the last answer sent to an asker

vars == <<backends, routing, cache, fresh, reply>>

Entry == [state : {"Absent", "Connected", "NotConnected"}, tools : SUBSET Tools]

TypeOK ==
  /\ backends \in [Backends -> Entry]
  /\ routing \in [Names -> Backends \cup {NoBackend}]
  /\ cache \subseteq Backends \X Tools
  /\ fresh \in BOOLEAN

Init ==
  /\ backends = [b \in Backends |-> [state |-> "Absent", tools |-> {}]]
  /\ routing = [n \in Names |-> NoBackend]
  /\ cache = {} /\ fresh = TRUE
  /\ reply = [op |-> "none"]
-----------------------------------------------------------------------------
CacheValid == cache # {} /\ fresh

\* build_tool_list: the tools of the connected backends.
BuildToolList ==
  {e \in Backends \X Tools : /\ backends[e[1]].state = "Connected"
                             /\ e[2] \in backends[e[1]].tools}

RegisterBackend(b) ==
  /\ backends' = [backends EXCEPT ![b] = [state |-> "NotConnected", tools |-> {}]]
  /\ UNCHANGED <<routing, cache, fresh, reply>>

\* Wrong on purpose: an update leaves the cached listing in place; the
\* sender's routes are cleared after its new ones are added.
UpdateKeepsCache(b, s, T) ==
  /\ backends' = [backends EXCEPT ![b] = [state |-> s, tools |-> T]]
  /\ routing' = [n \in Names |->
                   IF \E t \in T : NsName[<<b, t>>] = n THEN b
                   ELSE IF routing[n] = b THEN NoBackend ELSE routing[n]]
  /\ UNCHANGED <<cache, fresh, reply>>
UpdateRoutesLate(b, s, T) ==
  /\ backends' = [backends EXCEPT ![b] = [state |-> s, tools |-> T]]
  /\ routing' = [n \in Names |-> IF routing[n] = b THEN NoBackend
                                 ELSE IF \E t \in T : NsName[<<b, t>>] = n THEN b
                                 ELSE routing[n]]
  /\ cache' = {}
  /\ UNCHANGED <<fresh, reply>>

\* The sender's old routes go, its tools' routes come, the cache is cleared.
UpdateBackend(b, s, T) ==
  /\ backends' = [backends EXCEPT ![b] = [state |-> s, tools |-> T]]
  /\ routing' = [n \in Names |->
                   IF \E t \in T : NsName[<<b, t>>] = n THEN b
                   ELSE IF routing[n] = b THEN NoBackend ELSE routing[n]]
  /\ cache' = {}
  /\ UNCHANGED <<fresh, reply>>

\* Wrong on purpose: a removal blanks the routes instead of deleting them.
RemoveBlanksRoutes(b) ==
  /\ backends' = [backends EXCEPT ![b] = [state |-> "Absent", tools |-> {}]]
  /\ routing' = [n \in Names |-> IF routing[n] = b THEN "" ELSE routing[n]]
  /\ cache' = {}
  /\ UNCHANGED <<fresh, reply>>

RemoveBackend(b) ==
  /\ backends' = [backends EXCEPT ![b] = [state |-> "Absent", tools |-> {}]]
  /\ routing' = [n \in Names |-> IF routing[n] = b THEN NoBackend ELSE routing[n]]
  /\ cache' = {}
  /\ UNCHANGED <<fresh, reply>>

\* ListTools, ListToolGroup and ListToolGroups: the cache if valid, otherwise
\* a rebuilt listing, which is cached whether or not it is empty.
Listing == IF CacheValid THEN cache ELSE BuildToolList
UseCache ==
  /\ cache' = Listing
  /\ fresh' = IF CacheValid THEN fresh ELSE TRUE
  /\ UNCHANGED <<backends, routing>>

\* filter_tools_for_group.
InGroup(g, E) == {e \in E : NsName[e] \in GroupNames[g]}

ListTools ==
  /\ UseCache
  /\ reply' = [op |-> "list", tools |-> Listing]

\* Wrong on purpose: the filtered listing of a group replaces the cache.
ListGroupCaches(g) ==
  /\ cache' = InGroup(g, Listing) /\ fresh' = TRUE
  /\ reply' = [op |-> "group", group |-> g, tools |-> InGroup(g, Listing)]
  /\ UNCHANGED <<backends, routing>>

ListToolGroup(g) ==
  /\ UseCache
  /\ reply' = [op |-> "group", group |-> g, tools |-> InGroup(g, Listing)]

\* ListToolGroup of a group that is not configured: the early return comes
\* before the cache is looked at.
GroupNotFound ==
  /\ reply' = [op |-> "notFound"]
  /\ UNCHANGED <<backends, routing, cache, fresh>>

\* The counts of the groups follow from the sets of their tools.
ListToolGroups ==
  /\ UseCache
  /\ reply' = [op |-> "groups", byGroup |-> [g \in Groups |-> InGroup(g, Listing)]]

\* ResolveToolBackend's route: the backend the name is routed to, provided the
\* table still lists a tool of that name for it; at most one element.
Route(n) ==
  {e \in Backends \X Tools : /\ e[1] = routing[n]
                             /\ e[2] \in backends[e[1]].tools
                             /\ NsName[e] = n}

ResolveToolBackend(n) ==
  /\ reply' = [op |-> "route", name |-> n, to |-> Route(n)]
  /\ UNCHANGED <<backends, routing, cache, fresh>>

CacheExpires ==
  /\ fresh' = FALSE
  /\ UNCHANGED <<backends, routing, cache, reply>>

\* Every sender of UpdateBackend sends tools only with state Connected.
Next ==
  \/ \E b \in Backends : RegisterBackend(b) \/ RemoveBackend(b)
  \/ \E b \in Backends, T \in SUBSET Tools : UpdateBackend(b, "Connected", T)
  \/ \E b \in Backends : UpdateBackend(b, "NotConnected", {})
  \/ ListTools \/ ListToolGroups \/ GroupNotFound \/ CacheExpires
  \/ \E g \in Groups : ListToolGroup(g)
  \/ \E n \in Names : ResolveToolBackend(n)

Spec == Init /\ [][Next]_vars
-----------------------------------------------------------------------------
(* Every tool in the table resolves to its own backend and original name:  *)
(* whatever registrations, updates and removals of other backends happened *)
(* since, none took its route (UpdateBackend, 192-224).                    *)
Routable == \A e \in BuildToolList : Route(NsName[e]) = {e}

(* A valid cache shows at least the tools of the table: what it lacks was  *)
(* never published (RegisterBackend alone leaves the cache in place).      *)
CacheCovers == CacheValid => BuildToolList \subseteq cache

(* The registry is a tool directory.                                       *)
Directory == INSTANCE ToolDirectory WITH
  dir <- [b \in Backends |-> backends[b].tools],
  withdrawn <- IF CacheValid THEN cache \ BuildToolList ELSE {}
ImplementsDirectory == Directory!Spec
=============================================================================
