------------------------ MODULE PackageCatalogProofs ------------------------
(***************************************************************************)
(* For any catalogue, requests and calls: packages are composed only from  *)
(* active documents, and a call that begins after a version was stopped    *)
(* neither creates nor sends a request of it.                              *)
(***************************************************************************)
EXTENDS PackageCatalog, TLAPS

\* A compose call has documents in hand; what its transaction references is
\* shared, hence not retired.
ComposeSound ==
  \A c \in Callers :
    /\ pc[c] \in {"composing", "locked"} => chosen[c] # {}
    /\ pc[c] = "locked" => /\ chosen[c] \subseteq shared[c]
                           /\ \A d \in chosen[c] : Active(d)

\* Components are written once, with the package's row.
AbsentHasNone ==
  \A k \in Packages : catalog[k] = "absent" => components[k] = {}

\* A call that read its version as active can only see through a component that
\* the version was stopped before; its check of the components does.
StopIsSeen ==
  \A c \in Callers : fresh[c] /\ version[c] \in stopped[c] =>
    /\ pc[c] \notin {"prepared", "gate", "sending"}
    /\ \E d \in ComponentsOf(version[c]) : Retired(d)

\* Creating and sending go on from a fresh read.
PassedFresh ==
  \A c \in Callers : pc[c] \in {"preparing", "prepared", "sending"} => fresh[c]

\* A send call is the only one of its request, and works on its version.
SendSound ==
  /\ \A b, c \in Callers : request[b] = request[c] /\ request[b] # NoRequest
                           => b = c
  /\ \A c \in Callers : request[c] # NoRequest =>
       version[c] = requests[request[c]].version /\ pc[c] # "idle"
  /\ \A c \in Callers : request[c] # NoRequest =>
       requests[request[c]].state = "draft"
  /\ \A c \in Callers : pc[c] \in {"checking", "gate", "sending"} =>
       request[c] # NoRequest
  /\ \A c \in Callers : pc[c] \in {"idle", "preparing", "prepared",
                                   "composing", "locked"} =>
       request[c] = NoRequest

\* Calls and requests are about a version.
VersionKnown ==
  /\ \A c \in Callers : pc[c] # "idle" => version[c] \in Versions
  /\ \A r \in Requests :
       requests[r].state # "none" => requests[r].version \in Versions

CatalogInv ==
  /\ TypeOK /\ ComposeSound /\ AbsentHasNone /\ StopIsSeen /\ PassedFresh
  /\ SendSound /\ VersionKnown

USE VersionsAssumption, NoVersionAssumption, NoRequestAssumption
-----------------------------------------------------------------------------
(***************************************************************************)
(* What the common parts of the actions do.                                *)
(***************************************************************************)
LEMMA ExitFacts ==
  ASSUME TypeOK, NEW c \in Callers, Exit(c)
  PROVE  /\ pc' \in [Callers -> Places] /\ pc'[c] = "idle"
         /\ version' \in [Callers -> Versions \union {NoVersion}]
         /\ chosen' \in [Callers -> SUBSET Documents]
         /\ request' \in [Callers -> Requests \union {NoRequest}]
         /\ request'[c] = NoRequest
         /\ fresh' \in [Callers -> BOOLEAN] /\ fresh'[c] = FALSE
         /\ shared' \in [Callers -> SUBSET Documents]
         /\ stopped' \in [Callers -> SUBSET Versions]
         /\ \A b \in Callers \ {c} :
              /\ pc'[b] = pc[b] /\ version'[b] = version[b]
              /\ chosen'[b] = chosen[b] /\ request'[b] = request[b]
              /\ fresh'[b] = fresh[b] /\ shared'[b] = shared[b]
              /\ stopped'[b] = stopped[b]
<1>1. pc' \in [Callers -> Places] /\ pc'[c] = "idle"
  BY DEF Exit, TypeOK, Places
<1>2. request' \in [Callers -> Requests \union {NoRequest}]
      /\ request'[c] = NoRequest
  BY DEF Exit, TypeOK
<1>3. fresh' \in [Callers -> BOOLEAN] /\ fresh'[c] = FALSE
  BY DEF Exit, TypeOK
<1>4. /\ version' \in [Callers -> Versions \union {NoVersion}]
      /\ chosen' \in [Callers -> SUBSET Documents]
      /\ shared' \in [Callers -> SUBSET Documents]
      /\ stopped' \in [Callers -> SUBSET Versions]
  BY DEF Exit, TypeOK
<1>5. \A b \in Callers \ {c} :
        /\ pc'[b] = pc[b] /\ version'[b] = version[b]
        /\ chosen'[b] = chosen[b] /\ request'[b] = request[b]
        /\ fresh'[b] = fresh[b] /\ shared'[b] = shared[b]
        /\ stopped'[b] = stopped[b]
  BY DEF Exit, TypeOK
<1> QED BY <1>1, <1>2, <1>3, <1>4, <1>5

LEMMA GotoFacts ==
  ASSUME TypeOK, NEW c \in Callers, NEW l \in Places, Goto(c, l)
  PROVE  /\ pc' \in [Callers -> Places] /\ pc'[c] = l
         /\ \A b \in Callers \ {c} : pc'[b] = pc[b]
         /\ UNCHANGED <<version, chosen, request, fresh, stopped>>
  BY DEF Goto, local, TypeOK
-----------------------------------------------------------------------------
(***************************************************************************)
(* The actions keep the invariant.                                         *)
(***************************************************************************)
LEMMA InitCatalogInv == Init => CatalogInv
<1> SUFFICES ASSUME Init PROVE CatalogInv
  OBVIOUS
<1>1. NoRow \in [state : RequestStates, version : Versions \union {NoVersion}]
  BY DEF NoRow, RequestStates
<1>2. TypeOK
  BY <1>1 DEF Init, TypeOK, VersionStates, Places
<1>3. ComposeSound /\ AbsentHasNone /\ StopIsSeen /\ PassedFresh /\ SendSound
  BY DEF Init, ComposeSound, AbsentHasNone, StopIsSeen, PassedFresh, SendSound
<1>4. VersionKnown
  BY DEF Init, NoRow, VersionKnown
<1> QED BY <1>2, <1>3, <1>4 DEF CatalogInv

\* A version's state only goes on from absent to active to retired.
LEMMA PublishKeeps ==
  ASSUME CatalogInv, NEW d \in Documents, Publish(d)
  PROVE  CatalogInv'
<1>1. /\ catalog[d] = "absent" /\ catalog' = [catalog EXCEPT ![d] = "active"]
      /\ UNCHANGED <<components, requests, pc, version, chosen, request, fresh,
                     shared, stopped>>
  BY DEF Publish, local
<1>2. catalog \in [Versions -> VersionStates] /\ d \in Versions
  BY DEF CatalogInv, TypeOK, Versions
<1>3. \A v \in Versions : /\ Active(v) => Active(v)'
                          /\ Retired(v) => Retired(v)'
                          /\ catalog'[v] = "absent" => catalog[v] = "absent"
  BY <1>1, <1>2 DEF Active, Retired
<1>4. TypeOK'
  BY <1>1, <1>2 DEF CatalogInv, TypeOK, VersionStates
<1>5. ComposeSound'
  BY <1>1, <1>3 DEF CatalogInv, TypeOK, ComposeSound, Versions
<1>6. AbsentHasNone'
  BY <1>1, <1>3 DEF CatalogInv, AbsentHasNone, Versions
<1>7. StopIsSeen'
  BY <1>1, <1>3 DEF CatalogInv, TypeOK, StopIsSeen, ComponentsOf, Versions
<1>8. PassedFresh' /\ SendSound' /\ VersionKnown'
  BY <1>1 DEF CatalogInv, PassedFresh, SendSound, VersionKnown
<1> QED BY <1>4, <1>5, <1>6, <1>7, <1>8 DEF CatalogInv

LEMMA RetireKeeps ==
  ASSUME CatalogInv, NEW v \in Versions, Retire(v)
  PROVE  CatalogInv'
<1>1. /\ catalog[v] = "active" /\ \A c \in Callers : v \notin shared[c]
      /\ catalog' = [catalog EXCEPT ![v] = "retired"]
      /\ UNCHANGED <<components, requests, pc, version, chosen, request, fresh,
                     shared, stopped>>
  BY DEF Retire, Active, local
<1>2. catalog \in [Versions -> VersionStates]
  BY DEF CatalogInv, TypeOK
<1>3. \A u \in Versions : /\ u # v /\ Active(u) => Active(u)'
                          /\ Retired(u) => Retired(u)'
                          /\ catalog'[u] = "absent" => catalog[u] = "absent"
  BY <1>1, <1>2 DEF Active, Retired
<1>4. TypeOK'
  BY <1>1, <1>2 DEF CatalogInv, TypeOK, VersionStates
<1>5. ComposeSound'
  BY <1>1, <1>3 DEF CatalogInv, TypeOK, ComposeSound, Versions
<1>6. AbsentHasNone'
  BY <1>1, <1>3 DEF CatalogInv, AbsentHasNone, Versions
<1>7. StopIsSeen'
  BY <1>1, <1>3 DEF CatalogInv, TypeOK, StopIsSeen, ComponentsOf, Versions
<1>8. PassedFresh' /\ SendSound' /\ VersionKnown'
  BY <1>1 DEF CatalogInv, PassedFresh, SendSound, VersionKnown
<1> QED BY <1>4, <1>5, <1>6, <1>7, <1>8 DEF CatalogInv

\* The first read of a call.
LEMMA EnterKeeps ==
  ASSUME CatalogInv, NEW c \in Callers,
         NEW l \in {"composing", "preparing", "checking"}, NEW v \in Versions,
         NEW S \in SUBSET Documents, NEW r \in Requests \union {NoRequest},
         NEW f \in BOOLEAN, Enter(c, l, v, S, r, f),
         UNCHANGED <<catalog, components, requests, shared>>,
         l = "composing" => S # {},
         l = "preparing" => f,
         f => ~Retired(v),
         l = "checking" <=> r # NoRequest,
         r # NoRequest => /\ v = requests[r].version
                          /\ requests[r].state = "draft"
                          /\ \A b \in Callers : request[b] # r
  PROVE  CatalogInv'
<1>0. TypeOK /\ l \in Places
  BY DEF CatalogInv, Places
<1>a. /\ pc' \in [Callers -> Places] /\ pc'[c] = l
      /\ version' \in [Callers -> Versions \union {NoVersion}]
      /\ version'[c] = v
      /\ chosen' \in [Callers -> SUBSET Documents] /\ chosen'[c] = S
      /\ request' \in [Callers -> Requests \union {NoRequest}]
      /\ request'[c] = r
      /\ fresh' \in [Callers -> BOOLEAN] /\ fresh'[c] = f
      /\ stopped' \in [Callers -> SUBSET Versions] /\ stopped'[c] = Stopped
      /\ \A b \in Callers \ {c} :
           /\ pc'[b] = pc[b] /\ version'[b] = version[b]
           /\ chosen'[b] = chosen[b] /\ request'[b] = request[b]
           /\ fresh'[b] = fresh[b] /\ stopped'[b] = stopped[b]
  <2>0. Stopped \in SUBSET Versions
    BY DEF Stopped
  <2>1. pc' \in [Callers -> Places] /\ pc'[c] = l
    BY <1>0 DEF Enter, TypeOK
  <2>2. /\ request' \in [Callers -> Requests \union {NoRequest}]
        /\ request'[c] = r
    BY <1>0 DEF Enter, TypeOK
  <2>3. fresh' \in [Callers -> BOOLEAN] /\ fresh'[c] = f
    BY <1>0 DEF Enter, TypeOK
  <2>4. /\ version' \in [Callers -> Versions \union {NoVersion}]
        /\ version'[c] = v
        /\ chosen' \in [Callers -> SUBSET Documents] /\ chosen'[c] = S
        /\ stopped' \in [Callers -> SUBSET Versions] /\ stopped'[c] = Stopped
    BY <1>0, <2>0 DEF Enter, TypeOK
  <2>5. \A b \in Callers \ {c} :
          /\ pc'[b] = pc[b] /\ version'[b] = version[b]
          /\ chosen'[b] = chosen[b] /\ request'[b] = request[b]
          /\ fresh'[b] = fresh[b] /\ stopped'[b] = stopped[b]
    BY <1>0 DEF Enter, TypeOK
  <2> QED BY <2>1, <2>2, <2>3, <2>4, <2>5
<1>1. TypeOK'
  BY <1>0, <1>a DEF TypeOK
<1>2. ComposeSound'
  BY <1>a DEF CatalogInv, ComposeSound, Active
<1>3. AbsentHasNone'
  BY DEF CatalogInv, AbsentHasNone
<1>4. StopIsSeen'
  <2>1. ASSUME NEW b \in Callers, b # c, fresh'[b], version'[b] \in stopped'[b]
        PROVE  /\ pc'[b] \notin {"prepared", "gate", "sending"}
               /\ \E d \in ComponentsOf(version'[b]) : Retired(d)
    BY <1>a, <2>1 DEF CatalogInv, StopIsSeen
  <2>2. ASSUME fresh'[c], version'[c] \in stopped'[c]
        PROVE  /\ pc'[c] \notin {"prepared", "gate", "sending"}
               /\ \E d \in ComponentsOf(version'[c]) : Retired(d)
    <3>1. v \in Stopped /\ ~Retired(v)
      BY <1>a, <2>2
    <3> QED BY <1>a, <3>1 DEF Stopped
  <2>3. ASSUME NEW b \in Callers, fresh'[b], version'[b] \in stopped'[b]
        PROVE  /\ pc'[b] \notin {"prepared", "gate", "sending"}
               /\ \E d \in ComponentsOf(version'[b]) : Retired(d)
    BY <2>1, <2>2, <2>3
  <2> QED BY <2>3 DEF StopIsSeen, ComponentsOf, Retired
<1>5. PassedFresh'
  BY <1>a DEF CatalogInv, PassedFresh
<1>6. SendSound'
  <2>1. \A b \in Callers : b # c /\ request[b] # NoRequest =>
          version'[b] = requests'[request[b]].version
          /\ pc'[b] # "idle" /\ requests'[request[b]].state = "draft"
    BY <1>a DEF CatalogInv, SendSound
  <2> QED BY <1>a, <2>1 DEF CatalogInv, SendSound
<1>7. VersionKnown'
  BY <1>a DEF CatalogInv, VersionKnown
<1> QED BY <1>1, <1>2, <1>3, <1>4, <1>5, <1>6, <1>7 DEF CatalogInv

\* A step that only moves a call on, after the checks it made.
LEMMA GotoKeeps ==
  ASSUME CatalogInv, NEW c \in Callers, NEW l \in Places, pc[c] # "idle",
         Goto(c, l), UNCHANGED <<catalog, components, requests>>,
         shared' \in [Callers -> SUBSET Documents],
         \A b \in Callers \ {c} : shared'[b] = shared[b],
         l = "locked" => /\ pc[c] = "composing" /\ shared'[c] = chosen[c]
                         /\ \A d \in chosen[c] : Active(d),
         l \in {"prepared", "sending"} => fresh[c],
         l \in {"prepared", "gate", "sending"} =>
           (version[c] \in stopped[c] /\ fresh[c] =>
              \A d \in ComponentsOf(version[c]) : ~Retired(d)),
         l = "prepared" => pc[c] = "preparing",
         l \in {"gate", "sending"} => pc[c] \in {"checking", "gate"},
         l \in {"locked", "prepared", "gate", "sending"}
  PROVE  CatalogInv'
<1>1. /\ TypeOK
      /\ pc' \in [Callers -> Places] /\ pc'[c] = l
      /\ \A b \in Callers \ {c} : pc'[b] = pc[b]
      /\ UNCHANGED <<version, chosen, request, fresh, stopped>>
  BY GotoFacts DEF CatalogInv
<1>2. TypeOK'
  BY <1>1 DEF TypeOK
<1>3. ComposeSound'
  BY <1>1 DEF CatalogInv, ComposeSound, Active
<1>4. AbsentHasNone'
  BY DEF CatalogInv, AbsentHasNone
<1>5. StopIsSeen'
  <2>1. ASSUME NEW b \in Callers, fresh[b], version[b] \in stopped[b]
        PROVE  /\ pc'[b] \notin {"prepared", "gate", "sending"}
               /\ \E d \in ComponentsOf(version[b]) : Retired(d)
    <3>1. pc[b] \notin {"prepared", "gate", "sending"}
          /\ \E d \in ComponentsOf(version[b]) : Retired(d)
      BY <2>1 DEF CatalogInv, StopIsSeen
    <3>2. CASE b = c
      BY <1>1, <2>1, <3>1, <3>2
    <3>3. CASE b # c
      BY <1>1, <3>1, <3>3
    <3> QED BY <3>2, <3>3
  <2> QED BY <1>1, <2>1 DEF StopIsSeen, ComponentsOf, Retired
<1>6. PassedFresh'
  BY <1>1 DEF CatalogInv, PassedFresh
<1>7. SendSound'
  <2>1. /\ request[c] # NoRequest => pc'[c] # "idle"
        /\ pc'[c] \in {"checking", "gate", "sending"} => request[c] # NoRequest
        /\ pc'[c] \in {"idle", "preparing", "prepared", "composing", "locked"}
           => request[c] = NoRequest
    BY <1>1 DEF CatalogInv, SendSound
  <2> QED BY <1>1, <2>1 DEF CatalogInv, SendSound
<1>8. VersionKnown'
  BY <1>1 DEF CatalogInv, VersionKnown
<1> QED BY <1>2, <1>3, <1>4, <1>5, <1>6, <1>7, <1>8 DEF CatalogInv

\* A step that ends a call, and may write a new package, a new request, or that
\* the call's request was sent.
LEMMA ExitKeeps ==
  ASSUME CatalogInv, NEW c \in Callers, pc[c] # "idle", Exit(c),
         catalog' \in [Versions -> VersionStates],
         components' \in [Packages -> SUBSET Documents],
         requests' \in [Requests -> [state   : RequestStates,
                                     version : Versions \union {NoVersion}]],
         \A v \in Versions : catalog'[v] # catalog[v] =>
           catalog[v] = "absent" /\ catalog'[v] = "active",
         \A k \in Packages : components'[k] # components[k] =>
           catalog[k] = "absent" /\ catalog'[k] # "absent",
         \A r \in Requests : requests'[r] # requests[r] =>
           \A b \in Callers \ {c} : request[b] # r,
         \A r \in Requests : requests'[r].state # "none" =>
           requests'[r].version \in Versions
  PROVE  CatalogInv'
<1>1. /\ TypeOK
      /\ pc' \in [Callers -> Places] /\ pc'[c] = "idle"
      /\ version' \in [Callers -> Versions \union {NoVersion}]
      /\ chosen' \in [Callers -> SUBSET Documents]
      /\ request' \in [Callers -> Requests \union {NoRequest}]
      /\ request'[c] = NoRequest
      /\ fresh' \in [Callers -> BOOLEAN] /\ fresh'[c] = FALSE
      /\ shared' \in [Callers -> SUBSET Documents]
      /\ stopped' \in [Callers -> SUBSET Versions]
      /\ \A b \in Callers \ {c} :
           /\ pc'[b] = pc[b] /\ version'[b] = version[b]
           /\ chosen'[b] = chosen[b] /\ request'[b] = request[b]
           /\ fresh'[b] = fresh[b] /\ shared'[b] = shared[b]
           /\ stopped'[b] = stopped[b]
  BY ExitFacts, Zenon DEF CatalogInv
<1>2. TypeOK'
  BY <1>1 DEF TypeOK
<1>3. \A v \in Versions : /\ Active(v) => Active(v)'
                          /\ Retired(v) => Retired(v)'
                          /\ catalog'[v] = "absent" => catalog[v] = "absent"
  BY DEF Active, Retired
<1>4. ComposeSound'
  BY <1>1, <1>3 DEF CatalogInv, TypeOK, ComposeSound, Versions
<1>5. AbsentHasNone'
  BY <1>3 DEF CatalogInv, AbsentHasNone, Versions
<1>6. StopIsSeen'
  <2>1. ASSUME NEW b \in Callers, fresh'[b], version'[b] \in stopped'[b]
        PROVE  /\ pc'[b] \notin {"prepared", "gate", "sending"}
               /\ version'[b] \in Packages
               /\ \E d \in components'[version'[b]] : catalog'[d] = "retired"
    <3>1. b # c
      BY <1>1, <2>1
    <3>2. /\ pc[b] \notin {"prepared", "gate", "sending"}
          /\ version'[b] = version[b] /\ pc'[b] = pc[b]
      BY <1>1, <2>1, <3>1 DEF CatalogInv, StopIsSeen
    <3>3. PICK d \in ComponentsOf(version[b]) : Retired(d)
      BY <1>1, <2>1, <3>1 DEF CatalogInv, StopIsSeen
    <3>4. version[b] \in Packages /\ d \in components[version[b]]
      BY <3>3 DEF ComponentsOf
    <3>5. components[version[b]] # {} /\ components[version[b]] \subseteq Versions
      BY <1>1, <3>4 DEF TypeOK, Versions
    <3>6. catalog[version[b]] # "absent"
      BY <3>4, <3>5 DEF CatalogInv, AbsentHasNone
    <3>7. d \in components'[version'[b]] /\ version'[b] \in Packages
      BY <3>2, <3>4, <3>6
    <3> QED BY <1>3, <3>2, <3>3, <3>4, <3>5, <3>7 DEF Retired
  <2>2. ASSUME NEW b \in Callers, fresh'[b], version'[b] \in stopped'[b]
        PROVE  /\ pc'[b] \notin {"prepared", "gate", "sending"}
               /\ \E d \in (ComponentsOf(version[b]))' : (Retired(d))'
    BY <2>1, <2>2 DEF ComponentsOf, Retired
  <2> QED BY <2>2, Zenon DEF StopIsSeen
<1>7. PassedFresh'
  BY <1>1 DEF CatalogInv, PassedFresh
<1>8. SendSound'
  <2>1. \A b \in Callers : request'[b] # NoRequest =>
          /\ b # c /\ request'[b] = request[b] /\ request[b] \in Requests
          /\ requests'[request[b]] = requests[request[b]]
          /\ version'[b] = version[b] /\ pc'[b] = pc[b]
    BY <1>1 DEF TypeOK
  <2>2. \A b \in Callers : request'[b] = NoRequest =>
          b = c \/ (request[b] = NoRequest /\ pc'[b] = pc[b])
    BY <1>1
  <2>3. \A b \in Callers : request'[b] # NoRequest =>
          /\ version'[b] = requests'[request'[b]].version /\ pc'[b] # "idle"
          /\ requests'[request'[b]].state = "draft"
          /\ pc'[b] \notin {"preparing", "prepared", "composing", "locked"}
    BY <2>1 DEF CatalogInv, SendSound
  <2>4. \A b \in Callers : request'[b] = NoRequest =>
          pc'[b] \notin {"checking", "gate", "sending"}
    BY <1>1, <2>2 DEF CatalogInv, SendSound
  <2>5. \A a, b \in Callers :
          request'[a] = request'[b] /\ request'[a] # NoRequest => a = b
    BY <2>1 DEF CatalogInv, SendSound
  <2> QED BY <2>3, <2>4, <2>5 DEF SendSound
<1>9. VersionKnown'
  BY <1>1 DEF CatalogInv, VersionKnown
<1> QED BY <1>2, <1>4, <1>5, <1>6, <1>7, <1>8, <1>9 DEF CatalogInv

\* Every step keeps the invariant.
LEMMA NextCatalogInv == CatalogInv /\ [Next]_vars => CatalogInv'
<1> SUFFICES ASSUME CatalogInv, [Next]_vars PROVE CatalogInv'
  OBVIOUS
<1>0. TypeOK
  BY DEF CatalogInv
<1>1. ASSUME NEW d \in Documents, Publish(d) PROVE CatalogInv'
  BY <1>1, PublishKeeps
<1>2. ASSUME NEW v \in Versions, Retire(v) PROVE CatalogInv'
  BY <1>2, RetireKeeps
<1>3. ASSUME NEW c \in Callers, NEW k \in Packages, NEW S \in SUBSET Documents,
             ComposeRead(c, k, S)
      PROVE  CatalogInv'
  <2>1. /\ Enter(c, "composing", k, S, NoRequest, FALSE) /\ S # {}
        /\ UNCHANGED <<catalog, components, requests, shared>>
    BY <1>3 DEF ComposeRead
  <2> QED BY <2>1, EnterKeeps DEF Versions
<1>4. ASSUME NEW c \in Callers, ComposeLock(c) PROVE CatalogInv'
  <2>1. /\ shared' \in [Callers -> SUBSET Documents] /\ shared'[c] = chosen[c]
        /\ \A b \in Callers \ {c} : shared'[b] = shared[b]
    BY <1>0, <1>4 DEF ComposeLock, TypeOK
  <2>2. /\ pc[c] = "composing" /\ Goto(c, "locked") /\ "locked" \in Places
        /\ \A d \in chosen[c] : Active(d)
        /\ UNCHANGED <<catalog, components, requests>>
    BY <1>4 DEF ComposeLock, Places
  <2> QED BY <2>1, <2>2, GotoKeeps
<1>5. ASSUME NEW c \in Callers, ComposeCommit(c) PROVE CatalogInv'
  BY <1>0, <1>5, ExitKeeps
     DEF ComposeCommit, TypeOK, VersionStates, CatalogInv, VersionKnown
<1>6. ASSUME NEW c \in Callers, NEW v \in Versions, PrepareRead(c, v)
      PROVE  CatalogInv'
  <2>1. /\ Enter(c, "preparing", v, {}, NoRequest, TRUE) /\ ~Retired(v)
        /\ UNCHANGED <<catalog, components, requests, shared>>
    BY <1>6 DEF PrepareRead, Active, Retired
  <2> QED BY <2>1, EnterKeeps
<1>7. ASSUME NEW c \in Callers, PrepareComponents(c) PROVE CatalogInv'
  <2>1. /\ pc[c] = "preparing" /\ fresh[c] /\ "prepared" \in Places
        /\ Goto(c, "prepared")
        /\ UNCHANGED <<catalog, components, requests, shared>>
    BY <1>7 DEF PrepareComponents, CatalogInv, PassedFresh, Places
  <2>2. \A d \in ComponentsOf(version[c]) : ~Retired(d)
    BY <1>7 DEF PrepareComponents, ComponentsActive, ComponentsOf, Active, Retired
  <2>3. shared' \in [Callers -> SUBSET Documents]
        /\ \A b \in Callers \ {c} : shared'[b] = shared[b]
    BY <1>0, <2>1 DEF TypeOK
  <2> QED BY <2>1, <2>2, <2>3, GotoKeeps
<1>8. ASSUME NEW c \in Callers, NEW r \in Requests, CreateCommit(c, r)
      PROVE  CatalogInv'
  <2>1. requests' \in [Requests -> [state   : RequestStates,
                                    version : Versions \union {NoVersion}]]
    BY <1>0, <1>8 DEF CreateCommit, TypeOK, RequestStates
  <2>2. \A q \in Requests : requests'[q] # requests[q] =>
          \A b \in Callers : request[b] # q
    BY <1>0, <1>8 DEF CreateCommit, TypeOK, CatalogInv, SendSound
  <2>3. \A q \in Requests : requests'[q].state # "none" =>
          requests'[q].version \in Versions
    BY <1>0, <1>8 DEF CreateCommit, TypeOK, CatalogInv, VersionKnown
  <2> QED BY <1>0, <1>8, <2>1, <2>2, <2>3, ExitKeeps DEF CreateCommit, TypeOK
<1>9. ASSUME NEW c \in Callers, NEW r \in Requests, SendRead(c, r)
      PROVE  CatalogInv'
  <2> DEFINE v == requests[r].version
  <2>1. requests[r].state = "draft" /\ v \in Versions
    BY <1>9 DEF SendRead, CatalogInv, VersionKnown
  <2>2. /\ Enter(c, "checking", v, {}, r, Active(v))
        /\ \A b \in Callers : request[b] # r
        /\ UNCHANGED <<catalog, components, requests, shared>>
    BY <1>9 DEF SendRead
  <2>3. /\ Active(v) \in BOOLEAN /\ r # NoRequest
        /\ Active(v) => ~Retired(v)
    BY DEF Active, Retired
  <2>4. v = requests[r].version
    OBVIOUS
  <2> HIDE DEF v
  <2> QED BY <2>1, <2>2, <2>3, <2>4, EnterKeeps
<1>10. ASSUME NEW c \in Callers, SendComponents(c) PROVE CatalogInv'
  <2>1. /\ pc[c] = "checking" /\ Goto(c, "gate") /\ "gate" \in Places
        /\ UNCHANGED <<catalog, components, requests, shared>>
    BY <1>10 DEF SendComponents, Places
  <2>2. \A d \in ComponentsOf(version[c]) : ~Retired(d)
    BY <1>10 DEF SendComponents, ComponentsActive, ComponentsOf, Active, Retired
  <2>3. shared' \in [Callers -> SUBSET Documents]
        /\ \A b \in Callers \ {c} : shared'[b] = shared[b]
    BY <1>0, <2>1 DEF TypeOK
  <2> QED BY <2>1, <2>2, <2>3, GotoKeeps
<1>11. ASSUME NEW c \in Callers, SendGate(c) PROVE CatalogInv'
  <2>1. /\ pc[c] = "gate" /\ fresh[c] /\ Goto(c, "sending") /\ "sending" \in Places
        /\ UNCHANGED <<catalog, components, requests, shared>>
    BY <1>11 DEF SendGate, Places
  <2>2. fresh[c] => version[c] \notin stopped[c]
    BY <2>1 DEF CatalogInv, StopIsSeen
  <2>3. shared' \in [Callers -> SUBSET Documents]
        /\ \A b \in Callers \ {c} : shared'[b] = shared[b]
    BY <1>0, <2>1 DEF TypeOK
  <2> QED BY <2>1, <2>2, <2>3, GotoKeeps
<1>12. ASSUME NEW c \in Callers, SendPost(c) PROVE CatalogInv'
  <2>1. request[c] \in Requests
    BY <1>0, <1>12 DEF SendPost, TypeOK, CatalogInv, SendSound
  <2>2. requests' \in [Requests -> [state   : RequestStates,
                                    version : Versions \union {NoVersion}]]
    BY <1>0, <1>12, <2>1 DEF SendPost, TypeOK, RequestStates
  <2>3. \A q \in Requests : requests'[q] # requests[q] =>
          \A b \in Callers \ {c} : request[b] # q
    BY <1>0, <1>12, <2>1 DEF SendPost, TypeOK, CatalogInv, SendSound
  <2>4. \A q \in Requests : requests'[q].state # "none" =>
          requests'[q].version \in Versions
    <3>1. requests[request[c]].version \in Versions
      BY <1>12, <2>1 DEF SendPost, CatalogInv, SendSound, VersionKnown
    <3> QED BY <1>0, <1>12, <2>1, <3>1
            DEF SendPost, TypeOK, CatalogInv, VersionKnown
  <2> QED BY <1>0, <1>12, <2>2, <2>3, <2>4, ExitKeeps DEF SendPost, TypeOK
<1>13. ASSUME NEW c \in Callers, Fail(c) PROVE CatalogInv'
  BY <1>0, <1>13, ExitKeeps DEF Fail, TypeOK, CatalogInv, VersionKnown
<1>14. CASE UNCHANGED vars
  BY <1>14 DEF vars, CatalogInv, TypeOK, ComposeSound, AbsentHasNone, StopIsSeen,
               PassedFresh, SendSound, VersionKnown, ComponentsOf, Active, Retired
<1> QED BY <1>1, <1>2, <1>3, <1>4, <1>5, <1>6, <1>7, <1>8, <1>9, <1>10, <1>11,
           <1>12, <1>13, <1>14 DEF Next, Call
-----------------------------------------------------------------------------
(***************************************************************************)
(* The theorems.                                                           *)
(***************************************************************************)
\* The catalogue, the requests and the calls keep their types.
THEOREM CatalogTyped == Spec => []TypeOK
<1>1. CatalogInv => TypeOK
  BY DEF CatalogInv
<1> QED BY <1>1, InitCatalogInv, NextCatalogInv, PTL DEF Spec

\* Only ComposeCommit makes a package, and its documents are locked.
LEMMA ComposeStep ==
  ASSUME CatalogInv, [Next]_vars,
         NEW k \in Packages, catalog[k] = "absent", catalog'[k] = "active"
  PROVE  components'[k] # {} /\ \A d \in components'[k] : Active(d)
<1>0. TypeOK /\ k \in Versions /\ k \notin Documents
  BY DEF CatalogInv, Versions
<1>1. ASSUME NEW c \in Callers, ComposeCommit(c)
      PROVE  components'[k] # {} /\ \A d \in components'[k] : Active(d)
  <2>1. k = version[c]
    BY <1>0, <1>1 DEF ComposeCommit, TypeOK
  <2>2. components'[k] = chosen[c]
    BY <1>0, <1>1, <2>1 DEF ComposeCommit, TypeOK
  <2> QED BY <1>1, <2>2 DEF ComposeCommit, CatalogInv, ComposeSound
<1>2. ASSUME NEW d \in Documents, Publish(d) PROVE FALSE
  BY <1>0, <1>2 DEF Publish, TypeOK, Versions
<1>3. ASSUME NEW v \in Versions, Retire(v) PROVE FALSE
  BY <1>0, <1>3 DEF Retire, Active, TypeOK
<1>4. catalog' # catalog
  OBVIOUS
<1> QED BY <1>1, <1>2, <1>3, <1>4
        DEF Next, Call, ComposeRead, ComposeLock, PrepareRead, PrepareComponents,
            CreateCommit, SendRead, SendComponents, SendGate, SendPost, Fail, vars

\* A package appears only while every document in it is approved.
THEOREM ComposesActive == Spec => ComposedWhileActive
<1>1. CatalogInv /\ [Next]_vars =>
        [\A k \in Packages : catalog[k] = "absent" /\ catalog'[k] = "active" =>
           components'[k] # {} /\ \A d \in components'[k] : Active(d)]_vars
  BY ComposeStep
<1> QED BY <1>1, InitCatalogInv, NextCatalogInv, PTL DEF Spec, ComposedWhileActive

\* The call that creates is a prepare call past its checks.
LEMMA CreateStep ==
  ASSUME CatalogInv, [Next]_vars, NEW c \in Callers, NEW r \in Requests,
         Creates(c, r)
  PROVE  requests'[r].version \notin stopped[c]
<1>0. TypeOK
  BY DEF CatalogInv
<1>1. requests' # requests
  BY DEF Creates
<1>2. ASSUME NEW b \in Callers, NEW q \in Requests, CreateCommit(b, q)
      PROVE  requests'[r].version \notin stopped[c]
  <2>1. b = c
    BY <1>0, <1>2 DEF CreateCommit, Exit, Creates, TypeOK
  <2>2. requests'[r].version = version[c]
    BY <1>0, <1>2, <2>1 DEF CreateCommit, Creates, TypeOK
  <2>3. pc[c] = "prepared" /\ fresh[c]
    BY DEF Creates, CatalogInv, PassedFresh
  <2> QED BY <2>2, <2>3 DEF CatalogInv, StopIsSeen
<1>3. ASSUME NEW b \in Callers, SendPost(b) PROVE FALSE
  BY <1>0, <1>3 DEF SendPost, Creates, TypeOK
<1> QED BY <1>1, <1>2, <1>3
        DEF Next, Call, Publish, Retire, ComposeRead, ComposeLock, ComposeCommit,
            PrepareRead, PrepareComponents, SendRead, SendComponents, SendGate,
            Fail, vars

\* The call that sends is the only send call of its request.
LEMMA SendStep ==
  ASSUME CatalogInv, [Next]_vars, NEW c \in Callers, NEW r \in Requests,
         Sends(c, r)
  PROVE  requests'[r].version \notin stopped[c]
<1>0. TypeOK
  BY DEF CatalogInv
<1>1. requests' # requests
  BY DEF Sends
<1>2. ASSUME NEW b \in Callers, SendPost(b)
      PROVE  requests'[r].version \notin stopped[c]
  <2>1. request[b] = r
    BY <1>0, <1>2 DEF SendPost, Sends, TypeOK
  <2>2. b = c
    BY <2>1 DEF Sends, CatalogInv, SendSound
  <2>3. requests'[r].version = version[c]
    BY <1>0, <1>2, <2>1, <2>2 DEF SendPost, TypeOK, CatalogInv, SendSound
  <2>4. pc[c] = "sending" /\ fresh[c]
    BY <1>2, <2>2 DEF SendPost, CatalogInv, PassedFresh
  <2> QED BY <2>3, <2>4 DEF CatalogInv, StopIsSeen
<1>3. ASSUME NEW b \in Callers, NEW q \in Requests, CreateCommit(b, q)
      PROVE  FALSE
  BY <1>0, <1>3 DEF CreateCommit, Sends, TypeOK
<1> QED BY <1>1, <1>2, <1>3
        DEF Next, Call, Publish, Retire, ComposeRead, ComposeLock, ComposeCommit,
            PrepareRead, PrepareComponents, SendRead, SendComponents, SendGate,
            Fail, vars

\* A call that begins after a version was stopped is refused (the checks of
\* prepare and of the send gate).
THEOREM RefusesStopped == Spec => StoppedIsRefused
<1>1. CatalogInv /\ [Next]_vars =>
        [\A c \in Callers, r \in Requests :
           Creates(c, r) \/ Sends(c, r) => requests'[r].version \notin stopped[c]]_vars
  BY CreateStep, SendStep
<1> QED BY <1>1, InitCatalogInv, NextCatalogInv, PTL DEF Spec, StoppedIsRefused
=============================================================================
