--------------------------- MODULE PackageCatalog ---------------------------
(***************************************************************************)
(* The catalogue of approved versions.  Administrators publish documents,  *)
(* compose packages from them and retire versions, while agents prepare    *)
(* requests from a version and send the drafts.  Every call reads the       *)
(* catalogue, then talks to Documenso for a while, then writes.  Requests  *)
(* are those of company packages and offboarding: the sends of onboarding  *)
(* and team_leader do not look at retired_at.                              *)
(***************************************************************************)
EXTENDS Naturals, FiniteSets

CONSTANTS
  Documents,  \* versions of catalog_kind 'document' or 'legacy'
  Packages,   \* versions of catalog_kind 'package'
  Requests,   \* ids of requests that may be created
  Callers,    \* concurrent calls, over all bridge processes
  NoVersion,
  NoRequest

ASSUME VersionsAssumption == Documents \intersect Packages = {}
ASSUME NoVersionAssumption == NoVersion \notin Documents \union Packages
ASSUME NoRequestAssumption == NoRequest \notin Requests

Versions == Documents \union Packages
VersionStates == {"absent", "active", "retired"}
RequestStates == {"none", "draft", "sent"}
Places == {"idle", "composing", "locked", "preparing", "prepared",
           "checking", "gate", "sending"}

VARIABLES
  catalog,     \* signing.packages: absent, active (retired_at IS NULL), retired
  components,  \* packages.components
  requests,    \* signing.requests, as far as a version is concerned
  pc,          \* where each call stands
  version,     \* the version it works on
  chosen,      \* documentIds of a compose call
  request,     \* the request a send call works on
  fresh,       \* the row of the version it read had retired_at IS NULL
  shared,      \* rows an open transaction has locked FOR SHARE
  stopped      \* the versions that were stopped when the call began

vars == <<catalog, components, requests, pc, version, chosen, request, fresh,
          shared, stopped>>
local == <<version, chosen, request, fresh, stopped>>

NoRow == [state |-> "none", version |-> NoVersion]

TypeOK ==
  /\ catalog \in [Versions -> VersionStates]
  /\ components \in [Packages -> SUBSET Documents]
  /\ requests \in [Requests -> [state   : RequestStates,
                                version : Versions \union {NoVersion}]]
  /\ pc \in [Callers -> Places]
  /\ version \in [Callers -> Versions \union {NoVersion}]
  /\ chosen \in [Callers -> SUBSET Documents]
  /\ request \in [Callers -> Requests \union {NoRequest}]
  /\ fresh \in [Callers -> BOOLEAN]
  /\ shared \in [Callers -> SUBSET Documents]
  /\ stopped \in [Callers -> SUBSET Versions]

Init ==
  /\ catalog = [v \in Versions |-> "absent"]
  /\ components = [k \in Packages |-> {}]
  /\ requests = [r \in Requests |-> NoRow]
  /\ pc = [c \in Callers |-> "idle"]
  /\ version = [c \in Callers |-> NoVersion]
  /\ chosen = [c \in Callers |-> {}]
  /\ request = [c \in Callers |-> NoRequest]
  /\ fresh = [c \in Callers |-> FALSE]
  /\ shared = [c \in Callers |-> {}]
  /\ stopped = [c \in Callers |-> {}]
-----------------------------------------------------------------------------
Active(v) == catalog[v] = "active"
Retired(v) == catalog[v] = "retired"
ComponentsOf(v) == IF v \in Packages THEN components[v] ELSE {}

\* Stopped versions: retired themselves, or composed from a retired one.
Stopped == {v \in Versions : Retired(v) \/ \E d \in ComponentsOf(v) : Retired(d)}

\* assertPackageComponents
ComponentsActive(v) ==
  v \in Packages => components[v] # {} /\ \A d \in components[v] : Active(d)

Goto(c, l) == pc' = [pc EXCEPT ![c] = l] /\ UNCHANGED local

\* A call begins by reading version v.
Enter(c, l, v, docs, r, isFresh) ==
  /\ pc[c] = "idle"
  /\ pc' = [pc EXCEPT ![c] = l]
  /\ version' = [version EXCEPT ![c] = v]
  /\ chosen' = [chosen EXCEPT ![c] = docs]
  /\ request' = [request EXCEPT ![c] = r]
  /\ fresh' = [fresh EXCEPT ![c] = isFresh]
  /\ stopped' = [stopped EXCEPT ![c] = Stopped]

\* It returns or throws; its transaction, if one is open, has ended.
Exit(c) ==
  /\ pc' = [pc EXCEPT ![c] = "idle"]
  /\ version' = [version EXCEPT ![c] = NoVersion]
  /\ chosen' = [chosen EXCEPT ![c] = {}]
  /\ request' = [request EXCEPT ![c] = NoRequest]
  /\ fresh' = [fresh EXCEPT ![c] = FALSE]
  /\ shared' = [shared EXCEPT ![c] = {}]
  /\ stopped' = [stopped EXCEPT ![c] = {}]

\* Refused, failed, or the process died: PostgreSQL rolls back.
Fail(c) ==
  /\ pc[c] # "idle"
  /\ Exit(c)
  /\ UNCHANGED <<catalog, components, requests>>
-----------------------------------------------------------------------------
(***************************************************************************)
(* Administrators.                                                         *)
(***************************************************************************)
\* UNIQUE(client_id, package_key, version): a version is published once.
Publish(d) ==
  /\ catalog[d] = "absent"
  /\ catalog' = [catalog EXCEPT ![d] = "active"]
  /\ UNCHANGED <<components, requests, pc, local, shared>>

\* One UPDATE; it waits for the transactions that share the row.
Retire(v) ==
  /\ Active(v)
  /\ \A c \in Callers : v \notin shared[c]
  /\ catalog' = [catalog EXCEPT ![v] = "retired"]
  /\ UNCHANGED <<components, requests, pc, local, shared>>

\* All documents are active; their templates are read from Documenso next.
ComposeRead(c, k, S) ==
  /\ S # {} /\ \A d \in S : Active(d)
  /\ Enter(c, "composing", k, S, NoRequest, FALSE)
  /\ UNCHANGED <<catalog, components, requests, shared>>

\* Mutants of ComposeLock: the rows are read without FOR SHARE; the first read
\* is relied on.
ComposeNoLock(c) ==
  /\ pc[c] = "composing"
  /\ \A d \in chosen[c] : Active(d)
  /\ Goto(c, "locked")
  /\ UNCHANGED <<catalog, components, requests, shared>>

ComposeRelied(c) ==
  /\ pc[c] = "composing"
  /\ shared' = [shared EXCEPT ![c] = chosen[c]]
  /\ Goto(c, "locked")
  /\ UNCHANGED <<catalog, components, requests>>

\* The transaction's first statement: the active rows FOR SHARE.
ComposeLock(c) ==
  /\ pc[c] = "composing"
  /\ \A d \in chosen[c] : Active(d)
  /\ shared' = [shared EXCEPT ![c] = chosen[c]]
  /\ Goto(c, "locked")
  /\ UNCHANGED <<catalog, components, requests>>

\* INSERT and COMMIT.
ComposeCommit(c) ==
  /\ pc[c] = "locked" /\ catalog[version[c]] = "absent"
  /\ catalog' = [catalog EXCEPT ![version[c]] = "active"]
  /\ components' = [components EXCEPT ![version[c]] = chosen[c]]
  /\ Exit(c)
  /\ UNCHANGED requests
-----------------------------------------------------------------------------
(***************************************************************************)
(* Agents.                                                                 *)
(***************************************************************************)
\* prepare(): the row, then its components, then the templates.
PrepareRead(c, v) ==
  /\ Active(v)
  /\ Enter(c, "preparing", v, {}, NoRequest, TRUE)
  /\ UNCHANGED <<catalog, components, requests, shared>>

\* Mutant of PrepareComponents: the version's own state is enough.
PrepareUnchecked(c) ==
  /\ pc[c] = "preparing"
  /\ Goto(c, "prepared")
  /\ UNCHANGED <<catalog, components, requests, shared>>

PrepareComponents(c) ==
  /\ pc[c] = "preparing"
  /\ ComponentsActive(version[c])
  /\ Goto(c, "prepared")
  /\ UNCHANGED <<catalog, components, requests, shared>>

\* create(): the request and its parts are inserted.
CreateCommit(c, r) ==
  /\ pc[c] = "prepared" /\ requests[r].state = "none"
  /\ requests' = [requests EXCEPT ![r] = [state |-> "draft",
                                          version |-> version[c]]]
  /\ Exit(c)
  /\ UNCHANGED <<catalog, components>>

\* send: the version's row, whatever its state; the lease admits one call.
SendRead(c, r) ==
  /\ requests[r].state = "draft"
  /\ \A b \in Callers : request[b] # r
  /\ Enter(c, "checking", requests[r].version, {}, r,
           Active(requests[r].version))
  /\ UNCHANGED <<catalog, components, requests, shared>>

SendComponents(c) ==
  /\ pc[c] = "checking"
  /\ ComponentsActive(version[c])
  /\ Goto(c, "gate")
  /\ UNCHANGED <<catalog, components, requests, shared>>

\* Mutant of SendGate: retired_at is not looked at.
SendOpen(c) ==
  /\ pc[c] = "gate"
  /\ Goto(c, "sending")
  /\ UNCHANGED <<catalog, components, requests, shared>>

\* PACKAGE_RETIRED, as the row said; file downloads follow.
SendGate(c) ==
  /\ pc[c] = "gate" /\ fresh[c]
  /\ Goto(c, "sending")
  /\ UNCHANGED <<catalog, components, requests, shared>>

\* The distribute POST takes effect.
SendPost(c) ==
  /\ pc[c] = "sending"
  /\ requests' = [requests EXCEPT ![request[c]].state = "sent"]
  /\ Exit(c)
  /\ UNCHANGED <<catalog, components>>
-----------------------------------------------------------------------------
Call(c) ==
  \/ \E k \in Packages, S \in SUBSET Documents : ComposeRead(c, k, S)
  \/ ComposeLock(c) \/ ComposeCommit(c)
  \/ \E v \in Versions : PrepareRead(c, v)
  \/ PrepareComponents(c)
  \/ \E r \in Requests : CreateCommit(c, r) \/ SendRead(c, r)
  \/ SendComponents(c) \/ SendGate(c) \/ SendPost(c)
  \/ Fail(c)

Next ==
  \/ \E d \in Documents : Publish(d)
  \/ \E v \in Versions : Retire(v)
  \/ \E c \in Callers : Call(c)

Spec == Init /\ [][Next]_vars
-----------------------------------------------------------------------------
\* A package appears only while every document in it is approved: retirement
\* and composition serialize on the referenced versions (service.ts:694).
ComposedWhileActive ==
  [][\A k \in Packages : catalog[k] = "absent" /\ catalog'[k] = "active" =>
       components'[k] # {} /\ \A d \in components'[k] : Active(d)]_vars

\* A call that begins after a version was stopped neither creates a request of
\* it nor sends one, whatever other calls do meanwhile.
Creates(c, r) ==
  /\ requests[r].state = "none" /\ requests'[r].state = "draft"
  /\ pc[c] = "prepared" /\ pc'[c] = "idle"
Sends(c, r) ==
  /\ requests[r].state = "draft" /\ requests'[r].state = "sent"
  /\ request[c] = r

StoppedIsRefused ==
  [][\A c \in Callers, r \in Requests :
       Creates(c, r) \/ Sends(c, r) => requests'[r].version \notin stopped[c]]_vars
=============================================================================
