------------------------ MODULE PersonalProvisioning ------------------------
(***************************************************************************)
(* Who may use the personal Documenso.  The Portal grants an agent the use *)
(* under one Google identity and may change or withdraw that at any time.  *)
(* A verified Google sign-in makes the agent's user, private organisation  *)
(* and team in several transactions; every later request of a session is   *)
(* checked against the Portal again.  Calls overlap, die and are repeated. *)
(***************************************************************************)
EXTENDS Naturals, Sequences

CONSTANTS
  Agents,      \* of the Portal
  Subjects, Emails,
  Identities,  \* verified Google identities, each a subject with an address
  Legacy,      \* the identities of the users from before
  Callers,     \* calls that may run at the same time
  MaxChanges,  \* bound of the Portal's changes
  MaxFailures, \* bound of the calls that die and of the mistakes of administrators
  None

Identity == [subject : Subjects, email : Emails]
Grant == [agent : Agents, id : Identity, version : Nat]  \* version stands for grantId

ASSUME IdentitiesAssumption == Identities \subseteq Identity /\ Legacy \in Seq(Identity)
\* Upstream keeps addresses and Google accounts unique.
ASSUME LegacyAssumption ==
  \A i, j \in DOMAIN Legacy :
    Legacy[i].email = Legacy[j].email \/ Legacy[i].subject = Legacy[j].subject => i = j
ASSUME BoundAssumption == MaxChanges \in Nat /\ MaxFailures \in Nat
ASSUME NoneAssumption == None \notin Grant /\ None \notin Agents

VARIABLES
  portal,    \* the grant of each agent, or None
  changes,   \* how often the Portal changed one
  users,     \* the address of each user, by id
  account,   \* the user of each Google subject, 0 without
  mapping,   \* PortalSigningIdentity of each agent: a user (0: no row) and its grant
  owner,     \* the owner of the organisation homix-personal-<agent>, 0 without
  team,      \* its team: "none", with "default" or with "private" settings
  session,   \* the users with browser sessions
  mistake,   \* what an administrator did and has not undone, or None
  call,      \* the running calls
  presented, \* history: the grants that sign-ins committed
  failures,  \* how many calls died
  undisturbed \* history: the sign-ins that nothing has disturbed so far

database == <<users, account, mapping, owner, team, session>>
vars == <<portal, changes, database, mistake, call, presented, failures, undisturbed>>

Places == {"idle", "lock", "write", "organisation", "createOrganisation", "members", "team",
           "createTeam", "settings", "user", "mapping", "account", "grant", "workspace",
           "denied", "insert"}
Purposes == {"provision", "session", "request"}  \* of assertPersonalUserAccess
Ids == 1..Len(users)

\* grant is what fetchPortalGrant answered, or what a check read in the mapping;
\* user is the call's native user, 0 before it has one; email the address that a
\* check read in its row.
Call == [at : Places, grant : Grant \union {None}, user : Ids \union {0},
         email : Emails \union {None}, purpose : Purposes]
Ended == [at |-> "idle", grant |-> None, user |-> 0, email |-> None, purpose |-> "provision"]

DataOK ==
  /\ portal \in [Agents -> Grant \union {None}]
  /\ changes \in 0..MaxChanges
  /\ users \in Seq(Emails)
  /\ account \in [Subjects -> Ids \union {0}]
  /\ mapping \in [Agents -> [user : Ids \union {0}, grant : Grant \union {None}]]
  /\ owner \in [Agents -> Ids \union {0}]
  /\ team \in [Agents -> {"none", "default", "private"}]
  /\ session \subseteq Ids
  /\ mistake \in [user : Ids, host : Agents \union {None}] \union {None}
  /\ call \in [Callers -> Call]
  /\ presented \subseteq Grant
  /\ failures \in 0..MaxFailures
TypeOK == DataOK /\ undisturbed \subseteq Callers
-----------------------------------------------------------------------------
(* The Portal and the administrators. *)

Grants(a) == {[agent |-> a, id |-> i, version |-> v] : i \in Identities, v \in 0..MaxChanges}

\* An identity belongs to one agent at a time.  A grant that was withdrawn is
\* never given back; whether a new identity comes with a new version is open.
PortalChange(a) ==
  /\ changes < MaxChanges
  /\ \E g \in Grants(a) \union {None} :
       /\ g # portal[a]
       /\ g # None =>
            /\ \/ g.version = changes + 1
               \/ portal[a] # None /\ g.version = portal[a].version
            /\ \A b \in Agents \ {a} : portal[b] # None =>
                 /\ portal[b].id.subject # g.id.subject
                 /\ portal[b].id.email # g.id.email
       /\ portal' = [portal EXCEPT ![a] = g]
  /\ changes' = changes + 1
  /\ UNCHANGED <<database, mistake, call, presented, failures>>

\* A user is disabled or promoted (no host), or invited into another's workspace.
Mistake(u, host) ==
  /\ mistake = None /\ failures < MaxFailures
  /\ host # None => owner[host] \notin {0, u}
  /\ mistake' = [user |-> u, host |-> host]
  /\ failures' = failures + 1

Meddle ==
  /\ \/ mistake # None /\ mistake' = None /\ failures' = failures
     \/ \E u \in Ids \ DOMAIN Legacy, host \in Agents \union {None} : Mistake(u, host)
  /\ UNCHANGED <<portal, changes, database, call, presented>>

Disabled(u) == mistake # None /\ mistake.user = u /\ mistake.host = None
OtherMembers(a) == mistake # None /\ mistake.host = a
ForeignMember(u) == mistake # None /\ mistake.user = u /\ mistake.host # None
-----------------------------------------------------------------------------
Go(c, from, to) == call[c].at = from /\ call' = [call EXCEPT ![c].at = to]
\* Go on if a condition holds; else the call throws.
GoIf(c, from, cond, next) ==
  call[c].at = from /\ call' = [call EXCEPT ![c] = IF cond THEN next ELSE Ended]

\* The verified Google callback calls provisionPersonalGoogleUser, and
\* fetchPortalGrant finds the agent of the identity; without one nothing happens.
SignIn(c, a) ==
  /\ call[c].at = "idle" /\ portal[a] # None
  /\ call' = [call EXCEPT ![c] = [Ended EXCEPT !.at = "lock", !.grant = portal[a]]]
  /\ UNCHANGED <<portal, changes, database, mistake, presented, failures>>

\* The transaction holds the agent's advisory lock.
Locks(c, a) == call[c].at = "write" /\ call[c].grant.agent = a

\* Mutant of TxRead: without the advisory lock.
TxReadUnlocked(c) ==
  LET g == call[c].grant
      known == mapping[g.agent].user
      ok == /\ account[g.id.subject] \in {0, known}
            /\ \A u \in Ids : users[u] = g.id.email => u = known
            /\ ~Disabled(known)
  IN  /\ GoIf(c, "lock", ok, [call[c] EXCEPT !.at = "write", !.user = known])
      /\ UNCHANGED <<portal, changes, database, mistake, presented, failures>>

\* The reads of the transaction and what they deny.
TxRead(c) ==
  LET g == call[c].grant
      known == mapping[g.agent].user
      ok == /\ account[g.id.subject] \in {0, known}
            /\ \A u \in Ids : users[u] = g.id.email => u = known
            /\ ~Disabled(known)
  IN  /\ GoIf(c, "lock", ok, [call[c] EXCEPT !.at = "write", !.user = known])
      /\ \A d \in Callers : ~Locks(d, g.agent)
      /\ UNCHANGED <<portal, changes, database, mistake, presented, failures>>

\* What the unique indexes refuse.
Unique(u, g) ==
  /\ \A v \in Ids : users[v] = g.id.email => v = u
  /\ account[g.id.subject] \in {0, u}
  /\ \A b \in Agents \ {g.agent} :
       mapping[b].user # 0 => mapping[b].grant.id.subject # g.id.subject

\* Mutant of TxWrite: the address of a known user is not brought up to date.
TxWriteKeeping(c) ==
  LET g == call[c].grant
      m == mapping[g.agent]
      u == IF call[c].user = 0 THEN Len(users) + 1 ELSE call[c].user
      ok == Unique(u, g)
      rotated == call[c].user # 0 /\ (m.grant # g \/ users[u] # g.id.email)
  IN  /\ GoIf(c, "write", ok, [call[c] EXCEPT !.at = "organisation", !.user = u])
      /\ IF ok
         THEN /\ users' = IF u = Len(users) + 1 THEN Append(users, g.id.email)
                          ELSE users
              /\ account' = [account EXCEPT ![g.id.subject] = u]
              /\ mapping' = [mapping EXCEPT ![g.agent] =
                               [user |-> IF m.user = 0 THEN u ELSE m.user, grant |-> g]]
              /\ session' = IF rotated THEN session \ {u} ELSE session
              /\ presented' = presented \union {g}
         ELSE UNCHANGED <<users, account, mapping, session, presented>>
      /\ UNCHANGED <<portal, changes, owner, team, mistake, failures>>

\* The writes and the commit, or the rollback.
TxWrite(c) ==
  LET g == call[c].grant
      m == mapping[g.agent]
      u == IF call[c].user = 0 THEN Len(users) + 1 ELSE call[c].user
      ok == Unique(u, g)
      rotated == call[c].user # 0 /\ (m.grant # g \/ users[u] # g.id.email)
  IN  /\ GoIf(c, "write", ok, [call[c] EXCEPT !.at = "organisation", !.user = u])
      /\ IF ok
         THEN /\ users' = IF u = Len(users) + 1 THEN Append(users, g.id.email)
                          ELSE [users EXCEPT ![u] = g.id.email]
              /\ account' = [account EXCEPT ![g.id.subject] = u]
              /\ mapping' = [mapping EXCEPT ![g.agent] =
                               [user |-> IF m.user = 0 THEN u ELSE m.user, grant |-> g]]
              /\ session' = IF rotated THEN session \ {u} ELSE session
              /\ presented' = presented \union {g}
         ELSE UNCHANGED <<users, account, mapping, session, presented>>
      /\ UNCHANGED <<portal, changes, owner, team, mistake, failures>>

\* findUnique, then createOrganisation or, when another call made it, findUnique again.
FindOrganisation(c) ==
  /\ Go(c, "organisation",
        IF owner[call[c].grant.agent] = 0 THEN "createOrganisation" ELSE "members")
  /\ UNCHANGED <<portal, changes, database, mistake, presented, failures>>

\* Mutant of CreateOrganisation: without the second findUnique.
CreateOrganisationOnce(c) ==
  /\ GoIf(c, "createOrganisation", owner[call[c].grant.agent] = 0,
          [call[c] EXCEPT !.at = "members"])
  /\ owner' = [owner EXCEPT ![call[c].grant.agent] = IF @ = 0 THEN call[c].user ELSE @]
  /\ UNCHANGED <<portal, changes, users, account, mapping, team, session, mistake, presented,
                 failures>>

CreateOrganisation(c) ==
  /\ Go(c, "createOrganisation", "members")
  /\ owner' = [owner EXCEPT ![call[c].grant.agent] = IF @ = 0 THEN call[c].user ELSE @]
  /\ UNCHANGED <<portal, changes, users, account, mapping, team, session, mistake, presented,
                 failures>>

CheckMembers(c) ==
  LET a == call[c].grant.agent
  IN  /\ GoIf(c, "members", owner[a] = call[c].user /\ ~OtherMembers(a),
              [call[c] EXCEPT !.at = "team"])
      /\ UNCHANGED <<portal, changes, database, mistake, presented, failures>>

\* Mutant of FindTeam: only a new team gets its settings.
FindTeamReady(c) ==
  /\ Go(c, "team", IF team[call[c].grant.agent] = "none" THEN "createTeam" ELSE "user")
  /\ UNCHANGED <<portal, changes, database, mistake, presented, failures>>

FindTeam(c) ==
  /\ Go(c, "team", IF team[call[c].grant.agent] = "none" THEN "createTeam" ELSE "settings")
  /\ UNCHANGED <<portal, changes, database, mistake, presented, failures>>

CreateTeam(c) ==
  /\ Go(c, "createTeam", "settings")
  /\ team' = [team EXCEPT ![call[c].grant.agent] = IF @ = "none" THEN "default" ELSE @]
  /\ UNCHANGED <<portal, changes, users, account, mapping, owner, session, mistake, presented,
                 failures>>

Settings(c) ==
  /\ Go(c, "settings", "user")
  /\ team' = [team EXCEPT ![call[c].grant.agent] = "private"]
  /\ UNCHANGED <<portal, changes, users, account, mapping, owner, session, mistake, presented,
                 failures>>
-----------------------------------------------------------------------------
(* assertPersonalUserAccess, at the end of the provisioning, again before a *)
(* session is created, and for every request of a session.                  *)

Request(c, u) ==
  /\ call[c].at = "idle" /\ u \in session
  /\ call' = [call EXCEPT ![c] = [Ended EXCEPT !.at = "user", !.user = u, !.purpose = "request"]]
  /\ UNCHANGED <<portal, changes, database, mistake, presented, failures>>

\* Go on, or decide to deny; the user's sessions are deleted by a later query.
Denied(u) == [Ended EXCEPT !.at = "denied", !.user = u]
Ensure(c, from, cond, next) ==
  /\ GoIf(c, from, TRUE, IF cond THEN next ELSE Denied(call[c].user))
  /\ UNCHANGED <<portal, changes, database, mistake, presented, failures>>

\* The row of the user, the mapping and the account are three queries, between
\* which a sign-in may commit another identity.  The role is in the user's row, and
\* looked at after the second one.
ReadUser(c) ==
  LET u == call[c].user
  IN  Ensure(c, "user", ~Disabled(u), [call[c] EXCEPT !.at = "mapping", !.email = users[u]])

ReadMapping(c) ==
  \/ \E a \in Agents :
       /\ mapping[a].user = call[c].user
       /\ Ensure(c, "mapping", call[c].email = mapping[a].grant.id.email,
                 [call[c] EXCEPT !.at = "account", !.grant = mapping[a].grant, !.email = None])
  \/ /\ \A a \in Agents : mapping[a].user # call[c].user
     /\ Ensure(c, "mapping", FALSE, Ended)

ReadAccount(c) ==
  Ensure(c, "account", account[call[c].grant.id.subject] = call[c].user,
         [call[c] EXCEPT !.at = "grant"])

\* Mutant of Granted: the version is not compared.
GrantedEver(g) == portal[g.agent] # None /\ portal[g.agent].id = g.id

\* fetchPortalGrant finds the same agent and version for the mapping's identity.
Granted(g) == portal[g.agent] = g

CheckGrant(c) ==
  Ensure(c, "grant", Granted(call[c].grant), [call[c] EXCEPT !.at = "workspace"])

CheckWorkspace(c) ==
  LET a == call[c].grant.agent
      u == call[c].user
  IN  Ensure(c, "workspace", owner[a] = u /\ ~ForeignMember(u) /\ ~OtherMembers(a),
             CASE call[c].purpose = "provision" ->
                    [call[c] EXCEPT !.at = "user", !.purpose = "session"]
               [] call[c].purpose = "session" -> [call[c] EXCEPT !.at = "insert"]
               [] call[c].purpose = "request" -> Ended)

\* The deletion before the throw: it may be late, and take the sessions of a
\* sign-in that ended meanwhile.
DeleteSessions(c) ==
  /\ GoIf(c, "denied", TRUE, Ended)
  /\ session' = session \ {call[c].user}
  /\ UNCHANGED <<portal, changes, users, account, mapping, owner, team, mistake, presented,
                 failures>>

\* createSession() after its own check.
Insert(c) ==
  /\ GoIf(c, "insert", TRUE, Ended)
  /\ session' = session \union {call[c].user}
  /\ UNCHANGED <<portal, changes, users, account, mapping, owner, team, mistake, presented,
                 failures>>

\* A lost process, or any query or request that fails: 503 and nothing else.
Fail(c) ==
  /\ call[c].at # "idle" /\ failures < MaxFailures
  /\ call' = [call EXCEPT ![c] = Ended]
  /\ failures' = failures + 1
  /\ UNCHANGED <<portal, changes, database, mistake, presented>>

Provision(c) ==
  \/ TxRead(c) \/ TxWrite(c)
  \/ FindOrganisation(c) \/ CreateOrganisation(c) \/ CheckMembers(c)
  \/ FindTeam(c) \/ CreateTeam(c) \/ Settings(c)
Check(c) ==
  \/ ReadUser(c) \/ ReadMapping(c) \/ ReadAccount(c) \/ CheckGrant(c) \/ CheckWorkspace(c)
  \/ DeleteSessions(c) \/ Insert(c)

Init ==
  /\ portal = [a \in Agents |-> None]
  /\ changes = 0
  /\ users = [i \in DOMAIN Legacy |-> Legacy[i].email]
  /\ account = [s \in Subjects |->
                  IF \E i \in DOMAIN Legacy : Legacy[i].subject = s
                  THEN CHOOSE i \in DOMAIN Legacy : Legacy[i].subject = s ELSE 0]
  /\ mapping = [a \in Agents |-> [user |-> 0, grant |-> None]]
  /\ owner = [a \in Agents |-> 0]
  /\ team = [a \in Agents |-> "none"]
  /\ session = {}
  /\ mistake = None
  /\ call = [c \in Callers |-> Ended]
  /\ presented = {}
  /\ failures = 0
  /\ undisturbed = {}

Step ==
  \/ \E a \in Agents : PortalChange(a)
  \/ Meddle
  \/ \E c \in Callers :
       \/ \E a \in Agents : SignIn(c, a)
       \/ \E u \in Ids : Request(c, u)
       \/ Provision(c) \/ Check(c) \/ Fail(c)

\* Nobody from before, and no other agent's row, has what the grant names, and no
\* administrator's mistake stands.
Welcome(a) ==
  /\ portal[a] # None /\ mistake = None
  /\ LET u == mapping[a].user
     IN  /\ \A v \in Ids : users[v] = portal[a].id.email => v = u
         /\ account[portal[a].id.subject] \in {0, u}
         /\ \A b \in Agents \ {a} : mapping[b].user # 0 =>
              mapping[b].grant.id.subject # portal[a].id.subject

\* The call's grant is the Portal's and, once committed, the mapping's.
Favoured(c) ==
  LET g == call[c].grant
  IN  /\ g # None /\ portal[g.agent] = g /\ Welcome(g.agent)
      /\ call[c].at \notin {"lock", "write"} => mapping[g.agent].grant = g

\* A sign-in is undisturbed while it has been favoured in each state since it began.
Next ==
  /\ Step
  /\ undisturbed' = {c \in Callers : Favoured(c)' /\ (call[c].at = "idle" \/ c \in undisturbed)}

Spec == Init /\ [][Next]_vars
-----------------------------------------------------------------------------
\* One user per agent, whoever signs in at the same time: every user is from
\* before or some agent's, and an agent's organisation is its user's.
OneUserPerAgent ==
  /\ \A u \in Ids \ DOMAIN Legacy : \E a \in Agents : mapping[a].user = u
  /\ \A a, b \in Agents : mapping[a].user = mapping[b].user => a = b \/ mapping[a].user = 0
  /\ \A a \in Agents : owner[a] \in {0, mapping[a].user}

IsMapped(u, a) ==
  /\ u # 0 /\ mapping[a].user = u
  /\ users[u] = mapping[a].grant.id.email
  /\ account[mapping[a].grant.id.subject] = u

\* A row of PortalSigningIdentity is whole: its user has its address and its
\* Google account, and is nobody's from before.
MappingIsWhole ==
  /\ \A a \in Agents : mapping[a].user # 0 =>
       /\ mapping[a].grant.agent = a /\ IsMapped(mapping[a].user, a)
       /\ mapping[a].user \notin DOMAIN Legacy
  /\ \A i \in DOMAIN Legacy : users[i] = Legacy[i].email /\ account[Legacy[i].subject] = i

\* Nobody has a session before his workspace is private.
SessionsArePrivate ==
  \A u \in session : \E a \in Agents :
    mapping[a].user = u /\ owner[a] = u /\ team[a] = "private"

\* A request is let through only under a grant that a Google sign-in presented:
\* a changed identity or a new version requires a new sign-in.
FreshSignIn ==
  [][\A c \in Callers : call[c].at = "grant" /\ call'[c].at = "workspace" =>
       \E a \in Agents : mapping[a].user = call[c].user /\ portal[a] \in presented]_vars

\* Whatever failed, dead or overlapping calls left behind or still do, no step of a
\* sign-in refuses it unless something disturbed it: the Portal changed the grant,
\* another sign-in committed another one, or an administrator interfered.
NeverTurnedAway ==
  [][\A c \in undisturbed : call[c].at # "insert" /\ failures' = failures =>
       call'[c].at \notin {"idle", "denied"}]_vars
=============================================================================
