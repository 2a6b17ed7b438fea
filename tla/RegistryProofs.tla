-------------------------- MODULE RegistryProofs ---------------------------
(***************************************************************************)
(* Theorems about Registry for every set of backends, tools and groups:    *)
(* with distinct namespaced names every published tool is routed to its    *)
(* owner and the registry is a tool directory; with any names the cache    *)
(* lacks nothing.                                                          *)
(***************************************************************************)
EXTENDS Registry, TLAPS

Pairs == Backends \X Tools

(* The table and the routes agree: the name of every tool in the table is  *)
(* routed to the tool's backend.                                           *)
RoutesComplete ==
  \A b \in Backends : \A t \in backends[b].tools : routing[NsName[<<b, t>>]] = b

ToolsOnlyConnected ==
  \A b \in Backends : backends[b].tools # {} => backends[b].state = "Connected"

\* The table and the cache alone, whatever the names are; and the routes.
TableInv == TypeOK /\ ToolsOnlyConnected /\ CacheCovers
Inv == TableInv /\ RoutesComplete

LEMMA InitInv == Init => Inv
BY NamingAssumption
   DEF Init, Inv, TableInv, TypeOK, Entry, ToolsOnlyConnected, RoutesComplete, CacheCovers,
       CacheValid

(* Using the cache keeps it covering the table.                            *)
LEMMA UseCacheKeepsTable ==
  ASSUME TableInv, UseCache
  PROVE  TableInv'
<1>1. backends' = backends /\ routing' = routing /\ cache' = Listing
      /\ fresh' = IF CacheValid THEN fresh ELSE TRUE
  BY DEF UseCache
<1>2. BuildToolList' = BuildToolList /\ BuildToolList \subseteq Pairs
  BY <1>1 DEF BuildToolList, Pairs
<1>3. BuildToolList \subseteq Listing /\ Listing \subseteq Pairs
  BY <1>2 DEF TableInv, CacheCovers, Listing, TypeOK, Pairs
<1> QED
  BY <1>1, <1>2, <1>3
     DEF TableInv, TypeOK, ToolsOnlyConnected, CacheCovers, Pairs, CacheValid

\* Every sender sends tools only with state Connected.
Sent(s, T) == s \in {"Connected", "NotConnected"} /\ (T # {} => s = "Connected")

LEMMA UpdateKeepsTable ==
  ASSUME TableInv, NEW b \in Backends, NEW T \in SUBSET Tools, NEW s, Sent(s, T),
         UpdateBackend(b, s, T)
  PROVE  TableInv'
<1>1. /\ backends' = [backends EXCEPT ![b] = [state |-> s, tools |-> T]]
      /\ routing' = [n \in Names |->
                       IF \E t \in T : NsName[<<b, t>>] = n THEN b
                       ELSE IF routing[n] = b THEN NoBackend ELSE routing[n]]
      /\ cache' = {} /\ fresh' = fresh
  BY DEF UpdateBackend
<1>2. TypeOK'
  BY <1>1 DEF TableInv, TypeOK, Entry, Sent
<1>3. ToolsOnlyConnected'
  BY <1>1 DEF TableInv, TypeOK, Entry, ToolsOnlyConnected, Sent
<1> QED
  BY <1>1, <1>2, <1>3 DEF TableInv, CacheCovers, CacheValid

LEMMA NextKeepsTable == TableInv /\ [Next]_vars => TableInv'
<1> SUFFICES ASSUME TableInv, [Next]_vars PROVE TableInv'
  OBVIOUS
<1>1. ASSUME NEW b \in Backends, RegisterBackend(b)
      PROVE  TableInv'
  <2>1. /\ backends' = [backends EXCEPT ![b] = [state |-> "NotConnected", tools |-> {}]]
        /\ routing' = routing /\ cache' = cache /\ fresh' = fresh
    BY <1>1 DEF RegisterBackend
  <2>2. TypeOK' /\ ToolsOnlyConnected'
    BY <2>1 DEF TableInv, TypeOK, Entry, ToolsOnlyConnected
  <2>3. BuildToolList' \subseteq BuildToolList
    BY <2>1 DEF BuildToolList, TableInv, TypeOK, Entry
  <2> QED
    BY <2>1, <2>2, <2>3 DEF TableInv, CacheCovers, CacheValid
<1>2. ASSUME NEW b \in Backends, RemoveBackend(b)
      PROVE  TableInv'
  BY <1>2 DEF RemoveBackend, TableInv, TypeOK, Entry, ToolsOnlyConnected, CacheCovers, CacheValid
<1>3. ASSUME NEW b \in Backends, NEW T \in SUBSET Tools, NEW s, Sent(s, T),
             UpdateBackend(b, s, T)
      PROVE  TableInv'
  BY <1>3, UpdateKeepsTable
<1>4. ASSUME ListTools \/ ListToolGroups \/ (\E g \in Groups : ListToolGroup(g))
      PROVE  TableInv'
  BY <1>4, UseCacheKeepsTable DEF ListTools, ListToolGroups, ListToolGroup
<1>5. CASE CacheExpires
  BY <1>5 DEF CacheExpires, TableInv, TypeOK, ToolsOnlyConnected, CacheCovers, CacheValid
<1>6. ASSUME (\E n \in Names : ResolveToolBackend(n)) \/ GroupNotFound \/ UNCHANGED vars
      PROVE  TableInv'
  BY <1>6 DEF ResolveToolBackend, GroupNotFound, vars, TableInv, TypeOK, ToolsOnlyConnected, CacheCovers,
              CacheValid, BuildToolList
<1>7. {} \in SUBSET Tools /\ Sent("NotConnected", {})
      /\ \A T \in SUBSET Tools : Sent("Connected", T)
  BY DEF Sent
<1> QED
  BY <1>1, <1>2, <1>3, <1>4, <1>5, <1>6, <1>7 DEF Next

(* Every variable keeps its type, whatever the names.                      *)
THEOREM TypeCorrect == Spec => []TypeOK
<1>1. Init => TableInv
  BY InitInv DEF Inv
<1>2. TableInv => TypeOK
  BY DEF TableInv
<1> QED
  BY <1>1, <1>2, NextKeepsTable, PTL DEF Spec

(* A valid cache lacks no tool of a connected backend, whatever the names. *)
THEOREM CacheAlwaysCovers == Spec => []CacheCovers
<1>1. Init => TableInv
  BY InitInv DEF Inv
<1>2. TableInv => CacheCovers
  BY DEF TableInv
<1> QED
  BY <1>1, <1>2, NextKeepsTable, PTL DEF Spec
-----------------------------------------------------------------------------
(* The routes.  An update adds the sender's routes and removes its old     *)
(* ones; with distinct names it touches no other backend's.                *)
LEMMA UpdateKeepsRoutes ==
  ASSUME Injective, Inv, TypeOK', NEW b \in Backends, NEW T \in SUBSET Tools, NEW s,
         UpdateBackend(b, s, T)
  PROVE  RoutesComplete'
<1>1. /\ backends' = [backends EXCEPT ![b] = [state |-> s, tools |-> T]]
      /\ routing' = [n \in Names |->
                       IF \E t \in T : NsName[<<b, t>>] = n THEN b
                       ELSE IF routing[n] = b THEN NoBackend ELSE routing[n]]
  BY DEF UpdateBackend
<1> SUFFICES ASSUME NEW c \in Backends, NEW t \in backends'[c].tools
             PROVE  routing'[NsName[<<c, t>>]] = c
  BY DEF RoutesComplete
<1>2. t \in Tools /\ NsName[<<c, t>>] \in Names
  BY NamingAssumption DEF TypeOK, Entry
<1>3. CASE c = b
  BY <1>1, <1>2, <1>3 DEF Inv, TableInv, TypeOK
<1>4. CASE c # b
  <2>1. backends'[c] = backends[c]
    BY <1>1, <1>4 DEF Inv, TableInv, TypeOK
  <2>2. routing[NsName[<<c, t>>]] = c
    BY <2>1 DEF Inv, RoutesComplete
  <2>3. ~ \E u \in T : NsName[<<b, u>>] = NsName[<<c, t>>]
    <3> SUFFICES ASSUME NEW u \in T, NsName[<<b, u>>] = NsName[<<c, t>>] PROVE FALSE
      OBVIOUS
    <3>1. <<b, u>> \in Backends \X Tools /\ <<c, t>> \in Backends \X Tools
      BY <1>2
    <3>2. <<b, u>> = <<c, t>>
      BY <3>1 DEF Injective
    <3> QED
      BY <3>2, <1>4
  <2> QED
    BY <1>1, <1>2, <1>4, <2>2, <2>3
<1> QED
  BY <1>3, <1>4

LEMMA NextInv ==
  ASSUME Injective
  PROVE  Inv /\ [Next]_vars => Inv'
<1> SUFFICES ASSUME Inv, [Next]_vars PROVE RoutesComplete'
  BY NextKeepsTable DEF Inv
<1>a. TypeOK'
  BY NextKeepsTable DEF Inv, TableInv
<1>1. ASSUME NEW b \in Backends, RegisterBackend(b)
      PROVE  RoutesComplete'
  BY <1>1 DEF RegisterBackend, Inv, TableInv, TypeOK, Entry, RoutesComplete
<1>2. ASSUME NEW b \in Backends, RemoveBackend(b)
      PROVE  RoutesComplete'
  <2>1. /\ backends' = [backends EXCEPT ![b] = [state |-> "Absent", tools |-> {}]]
        /\ routing' = [n \in Names |-> IF routing[n] = b THEN NoBackend ELSE routing[n]]
    BY <1>2 DEF RemoveBackend
  <2> SUFFICES ASSUME NEW c \in Backends, NEW t \in backends'[c].tools
               PROVE  routing'[NsName[<<c, t>>]] = c
    BY DEF RoutesComplete
  <2>2. c # b /\ backends'[c] = backends[c]
    BY <2>1 DEF Inv, TableInv, TypeOK
  <2>3. t \in Tools /\ NsName[<<c, t>>] \in Names
    BY <1>a, NamingAssumption DEF TypeOK, Entry
  <2>4. routing[NsName[<<c, t>>]] = c
    BY <2>2 DEF Inv, RoutesComplete
  <2> QED
    BY <2>1, <2>2, <2>3, <2>4
<1>3. ASSUME NEW b \in Backends, NEW T \in SUBSET Tools, NEW s, UpdateBackend(b, s, T)
      PROVE  RoutesComplete'
  BY <1>3, <1>a, UpdateKeepsRoutes
<1>4. {} \in SUBSET Tools
  OBVIOUS
<1>5. ASSUME UNCHANGED <<backends, routing>>
      PROVE  RoutesComplete'
  BY <1>5 DEF Inv, RoutesComplete
<1>6. ASSUME \/ ListTools \/ ListToolGroups \/ CacheExpires \/ UNCHANGED vars
             \/ \E g \in Groups : ListToolGroup(g)
             \/ GroupNotFound \/ \E n \in Names : ResolveToolBackend(n)
      PROVE  UNCHANGED <<backends, routing>>
  BY <1>6 DEF ListTools, ListToolGroups, ListToolGroup, UseCache, CacheExpires,
              ResolveToolBackend, GroupNotFound, vars
<1> QED
  BY <1>1, <1>2, <1>3, <1>4, <1>5, <1>6 DEF Next

LEMMA SpecInv ==
  ASSUME Injective
  PROVE  Spec => []Inv
<1>1. Inv /\ [Next]_vars => Inv'
  BY NextInv
<1> QED
  BY InitInv, <1>1, PTL DEF Spec

(* Every tool of the table resolves to its own backend and original name,  *)
(* provided no two tools share a namespaced name.                          *)
THEOREM AlwaysRoutable ==
  ASSUME Injective
  PROVE  Spec => []Routable
<1>1. Inv => Routable
  <2> SUFFICES ASSUME Inv, NEW e \in BuildToolList PROVE Route(NsName[e]) = {e}
    BY DEF Routable
  <2>1. e \in Backends \X Tools /\ e[2] \in backends[e[1]].tools
    BY DEF BuildToolList
  <2>2. e = <<e[1], e[2]>>
    BY <2>1
  <2>3. routing[NsName[e]] = e[1]
    BY <2>1, <2>2 DEF Inv, RoutesComplete
  <2>4. e \in Route(NsName[e])
    BY <2>1, <2>3 DEF Route
  <2>5. \A d \in Route(NsName[e]) : d = e
    BY <2>1 DEF Route, Injective
  <2> QED
    BY <2>4, <2>5
<1> QED
  BY <1>1, SpecInv, PTL

-----------------------------------------------------------------------------
(* The refinement.  TableDir and TableWithdrawn are the values the mapping *)
(* gives the directory's variables.                                        *)
TableDir == [b \in Backends |-> backends[b].tools]
TableWithdrawn == IF CacheValid THEN cache \ BuildToolList ELSE {}

(* The directory's entries are what build_tool_list returns, and a listing *)
(* shows those and the withdrawn ones.                                     *)
LEMMA Listings ==
  ASSUME Inv
  PROVE  /\ Directory!Entries = BuildToolList
         /\ Directory!Listed = Listing
<1>1. Directory!Entries = BuildToolList
  <2>1. \A e \in Backends \X Tools : e[1] \in Backends
    OBVIOUS
  <2>2. \A e \in Backends \X Tools :
          e[2] \in backends[e[1]].tools => backends[e[1]].state = "Connected"
    BY <2>1 DEF Inv, TableInv, ToolsOnlyConnected
  <2> QED
    BY <2>1, <2>2 DEF Directory!Entries, BuildToolList
<1>2. Directory!Listed = BuildToolList \cup TableWithdrawn
  BY <1>1 DEF Directory!Listed, TableWithdrawn
<1> QED
  BY <1>1, <1>2 DEF TableWithdrawn, Listing, Inv, TableInv, CacheCovers

(* Answering from the cache, or rebuilding it, leaves the directory alone. *)
LEMMA UseCacheStutters ==
  ASSUME Inv, UseCache
  PROVE  TableDir' = TableDir /\ TableWithdrawn' = TableWithdrawn
<1>1. backends' = backends /\ cache' = Listing
      /\ fresh' = IF CacheValid THEN fresh ELSE TRUE
  BY DEF UseCache
<1>2. TableDir' = TableDir /\ BuildToolList' = BuildToolList
  BY <1>1 DEF TableDir, BuildToolList
<1>3. TableWithdrawn' = TableWithdrawn
  BY <1>1, <1>2 DEF TableWithdrawn, Listing, CacheValid
<1> QED
  BY <1>2, <1>3

(* An update or a removal publishes the sender's tools.                    *)
LEMMA TablePublishes ==
  ASSUME Inv, NEW b \in Backends, NEW T \in SUBSET Tools, NEW s,
         backends' = [backends EXCEPT ![b] = [state |-> s, tools |-> T]],
         cache' = {}, reply' = reply
  PROVE  Directory!Publish(b, T)
<1>1. TableDir' = [TableDir EXCEPT ![b] = T]
  BY DEF TableDir, Inv, TableInv, TypeOK
<1>2. TableWithdrawn' = {}
  BY DEF TableWithdrawn, CacheValid
<1> QED
  BY <1>1, <1>2 DEF TableDir, TableWithdrawn, Directory!Publish

LEMMA StepRefines ==
  ASSUME Inv, [Next]_vars
  PROVE  [Directory!Next]_Directory!vars
<1>1. ASSUME NEW b \in Backends, RegisterBackend(b)
      PROVE  Directory!Register(b)
  <2>1. /\ backends' = [backends EXCEPT ![b] = [state |-> "NotConnected", tools |-> {}]]
        /\ cache' = cache /\ fresh' = fresh /\ reply' = reply
    BY <1>1 DEF RegisterBackend
  <2>2. TableDir' = [TableDir EXCEPT ![b] = {}]
    BY <2>1 DEF TableDir, Inv, TableInv, TypeOK
  <2>3. BuildToolList \subseteq BuildToolList' \cup ({b} \X TableDir[b])
    <3> SUFFICES ASSUME NEW e \in BuildToolList
                 PROVE  e \in BuildToolList' \cup ({b} \X TableDir[b])
      OBVIOUS
    <3>1. /\ e \in Backends \X Tools /\ backends[e[1]].state = "Connected"
          /\ e[2] \in backends[e[1]].tools
      BY DEF BuildToolList
    <3>2. CASE e[1] = b
      BY <3>1, <3>2 DEF TableDir
    <3>3. CASE e[1] # b
      BY <2>1, <3>1, <3>3 DEF BuildToolList, Inv, TableInv, TypeOK
    <3> QED
      BY <3>2, <3>3
  <2>4. TableWithdrawn' \in SUBSET (TableWithdrawn \cup ({b} \X TableDir[b]))
    BY <2>1, <2>3 DEF TableWithdrawn, CacheValid
  <2> QED
    BY <2>1, <2>2, <2>4 DEF TableDir, TableWithdrawn, Directory!Register
<1>2. ASSUME NEW b \in Backends, RemoveBackend(b)
      PROVE  Directory!Publish(b, {})
  BY <1>2, TablePublishes DEF RemoveBackend
<1>3. ASSUME NEW b \in Backends, NEW T \in SUBSET Tools, NEW s, UpdateBackend(b, s, T)
      PROVE  Directory!Publish(b, T)
  BY <1>3, TablePublishes DEF UpdateBackend
<1>4. ASSUME ListTools
      PROVE  Directory!List
  BY <1>4, UseCacheStutters, Listings
     DEF ListTools, TableDir, TableWithdrawn, Directory!List
<1>5. ASSUME ListToolGroups
      PROVE  Directory!ListGroups
  BY <1>5, UseCacheStutters, Listings
     DEF ListToolGroups, TableDir, TableWithdrawn, InGroup, Directory!InGroup,
         Directory!ListGroups
<1>6. ASSUME NEW g \in Groups, ListToolGroup(g)
      PROVE  Directory!ListGroup(g)
  BY <1>6, UseCacheStutters, Listings
     DEF ListToolGroup, TableDir, TableWithdrawn, InGroup, Directory!InGroup,
         Directory!ListGroup
<1>7. ASSUME CacheExpires
      PROVE  Directory!Forget
  <2>1. TableDir' = TableDir /\ TableWithdrawn' = {}
    BY <1>7 DEF CacheExpires, TableDir, TableWithdrawn, CacheValid
  <2> QED
    BY <1>7, <2>1 DEF CacheExpires, TableDir, TableWithdrawn, Directory!Forget
<1>8. ASSUME NEW n \in Names, ResolveToolBackend(n)
      PROVE  Directory!Resolve(n)
  <2>1. Route(n) = {e \in BuildToolList : NsName[e] = n}
    <3>1. ASSUME NEW e \in Backends \X Tools, e[2] \in backends[e[1]].tools, NsName[e] = n
          PROVE  e[1] = routing[n] /\ backends[e[1]].state = "Connected"
      <4>1. e = <<e[1], e[2]>> /\ e[1] \in Backends
        OBVIOUS
      <4> QED
        BY <3>1, <4>1 DEF Inv, TableInv, RoutesComplete, ToolsOnlyConnected
    <3> QED
      BY <3>1 DEF Route, BuildToolList
  <2>2. TableDir' = TableDir /\ TableWithdrawn' = TableWithdrawn
    BY <1>8 DEF ResolveToolBackend, TableDir, TableWithdrawn, CacheValid, BuildToolList
  <2>3. reply' = [op |-> "route", name |-> n,
                  to |-> {e \in Directory!Entries : NsName[e] = n}]
    BY <1>8, <2>1, Listings DEF ResolveToolBackend
  <2> QED
    BY <2>2, <2>3 DEF TableDir, TableWithdrawn, Directory!Resolve
<1>9. ASSUME UNCHANGED vars
      PROVE  UNCHANGED Directory!vars
  BY <1>9 DEF vars, Directory!vars, CacheValid, BuildToolList
<1>10. ASSUME GroupNotFound
       PROVE  Directory!NoSuchGroup
  BY <1>10 DEF GroupNotFound, Directory!NoSuchGroup, CacheValid, BuildToolList
<1> QED
  BY <1>1, <1>2, <1>3, <1>4, <1>5, <1>6, <1>7, <1>8, <1>9, <1>10 DEF Next, Directory!Next

(* The registry implements the directory: with distinct names, every       *)
(* answer it gives, from its cache or not, is one the directory gives.     *)
THEOREM RegistryImplementsDirectory ==
  ASSUME Injective
  PROVE  Spec => ImplementsDirectory
<1>1. Init => Directory!Init
  <2> SUFFICES ASSUME Init PROVE Directory!Init
    OBVIOUS
  <2>1. TableDir = [b \in Backends |-> {}] /\ TableWithdrawn = {}
    BY DEF Init, TableDir, TableWithdrawn, CacheValid
  <2> QED
    BY <2>1 DEF Init, TableDir, TableWithdrawn, Directory!Init
<1>2. Inv /\ [Next]_vars => [Directory!Next]_Directory!vars
  BY StepRefines
<1> QED
  BY <1>1, <1>2, SpecInv, PTL DEF Spec, ImplementsDirectory, Directory!Spec
=============================================================================
