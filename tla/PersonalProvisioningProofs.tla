--------------------- MODULE PersonalProvisioningProofs ---------------------
(***************************************************************************)
(* What holds of the provisioning for any agents, identities, users from   *)
(* before, calls, changes of the Portal and failures.                      *)
(***************************************************************************)
EXTENDS PersonalProvisioning, SequenceTheorems, TLAPS

Building == {"organisation", "createOrganisation", "members", "team", "createTeam", "settings"}
Checking == {"user", "mapping", "account", "grant", "workspace", "insert"}

Ready(u) == \E a \in Agents : mapping[a].user = u /\ owner[a] = u /\ team[a] = "private"

\* What a call knows of the database while it runs.
CallOK(c) ==
  LET k == call[c]
      a == k.grant.agent
  IN  /\ k.at \in {"lock", "write", "account", "grant", "workspace"} \union Building =>
           k.grant # None
      /\ k.at \in {"idle", "denied"} => k.grant = None
      /\ k.at \in {"lock", "write"} \union Building => k.purpose = "provision"
      /\ k.at = "write" => k.user = mapping[a].user
      /\ k.at \in Building => k.user # 0 /\ k.user = mapping[a].user
      /\ k.at \in Building \ {"organisation", "createOrganisation"} => owner[a] # 0
      /\ k.at \in Checking => k.user # 0 /\ (k.purpose # "request" => Ready(k.user))
      /\ k.at \in {"account", "grant", "workspace"} =>
           mapping[a].user = k.user /\ k.grant \in presented
      /\ k.at = "insert" => k.purpose # "request"

\* The advisory lock of an agent is one call's.
Locked == \A c, d \in Callers :
  call[c].at = "write" /\ call[d].at = "write" /\ c # d =>
    call[c].grant.agent # call[d].grant.agent

\* A row holds a grant that some sign-in presented.
Presented == \A a \in Agents : mapping[a].user # 0 =>
  mapping[a].grant \in Grant /\ mapping[a].grant \in presented

Inv ==
  /\ DataOK
  /\ OneUserPerAgent
  /\ MappingIsWhole
  /\ SessionsArePrivate
  /\ Presented
  /\ DOMAIN Legacy \subseteq Ids
  /\ Locked
  /\ \A c \in Callers : CallOK(c)

\* Nothing is taken back from an agent: what calls have seen stays true.
Grows ==
  /\ \A a \in Agents :
       /\ mapping[a].user # 0 => mapping'[a].user = mapping[a].user
       /\ owner[a] # 0 => owner'[a] = owner[a]
       /\ team[a] = "private" => team'[a] = "private"
  /\ presented \subseteq presented'
-----------------------------------------------------------------------------
\* The Portal and the administrators.
LEMMA EnvironmentStep ==
  ASSUME Inv, (\E a \in Agents : PortalChange(a)) \/ Meddle
  PROVE  Inv'
  <1>1. UNCHANGED <<database, call, presented>>
    BY DEF PortalChange, Meddle
  <1>2. portal' \in [Agents -> Grant \union {None}] /\ changes' \in 0..MaxChanges
    <2>1. CASE Meddle
      BY <2>1 DEF Inv, DataOK, Meddle
    <2>2. CASE \E a \in Agents : PortalChange(a)
      <3>1. PICK a \in Agents : PortalChange(a)
        BY <2>2
      <3>2. PICK g \in Grants(a) \union {None} : portal' = [portal EXCEPT ![a] = g]
        BY <3>1 DEF PortalChange
      <3>3. g \in Grant \union {None}
        BY <3>2, IdentitiesAssumption, BoundAssumption DEF Grant, Grants
      <3>4. changes \in 0..MaxChanges /\ changes < MaxChanges /\ changes' = changes + 1
        BY <3>1 DEF PortalChange, Inv, DataOK
      <3>5. changes' \in 0..MaxChanges
        BY <3>4, BoundAssumption
      <3> QED BY <3>2, <3>3, <3>5 DEF Inv, DataOK
    <2> QED BY <2>1, <2>2
  <1>3. mistake' \in [user : Ids, host : Agents \union {None}] \union {None}
    BY DEF Inv, DataOK, PortalChange, Meddle, Mistake
  <1>4. failures' \in 0..MaxFailures
    BY BoundAssumption DEF Inv, DataOK, PortalChange, Meddle, Mistake
  <1>5. DataOK'
    BY <1>1, <1>2, <1>3, <1>4 DEF Inv, DataOK, database, Ids, Call
  <1> QED
    BY <1>1, <1>5 DEF Inv, database, Ids, OneUserPerAgent, MappingIsWhole, IsMapped,
       SessionsArePrivate, Presented, Locked, CallOK, Ready

\* A call's step, when it keeps what the others know.
LEMMA CallStep ==
  ASSUME Inv, DataOK', Grows, NEW c \in Callers,
         OneUserPerAgent', MappingIsWhole', SessionsArePrivate', Presented',
         \A d \in Callers \ {c} : call'[d] = call[d],
         CallOK(c)', Len(users) <= Len(users'),
         \A a \in Agents : mapping'[a] # mapping[a] =>
           call[c].at = "write" /\ call[c].grant.agent = a,
         call'[c].at = "write" => \A d \in Callers \ {c} :
           call[d].at = "write" => call[d].grant.agent # call'[c].grant.agent
  PROVE  Inv'
  <1>1. Locked'
    BY DEF Inv, Locked
  <1>2. ASSUME NEW d \in Callers, d # c
        PROVE  CallOK(d)'
    <2>1. CallOK(d) /\ call'[d] = call[d] /\ call[d] \in Call
      BY <1>2 DEF Inv, DataOK
    <2>2. call[d].grant # None => call[d].grant.agent \in Agents
      BY <2>1 DEF Call, Grant
    <2>3. \A u : u # 0 /\ Ready(u) => Ready(u)'
      BY DEF Ready, Grows
    <2>4. call[d].at = "write" => mapping'[call[d].grant.agent] = mapping[call[d].grant.agent]
      BY <1>2, <2>1, <2>2 DEF Inv, Locked, CallOK
    <2>5. mapping[call[d].grant.agent].user # 0 /\ call[d].grant.agent \in Agents
            => mapping'[call[d].grant.agent].user = mapping[call[d].grant.agent].user
      BY DEF Grows
    <2>6. owner[call[d].grant.agent] # 0 /\ call[d].grant.agent \in Agents
            => owner'[call[d].grant.agent] = owner[call[d].grant.agent]
      BY DEF Grows
    <2>7. presented \subseteq presented'
      BY DEF Grows
    <2>8. call[d].at \in {"account", "grant", "workspace"} => call[d].at \in Checking
      BY DEF Checking
    <2> QED BY <2>1, <2>2, <2>3, <2>4, <2>5, <2>6, <2>7, <2>8 DEF CallOK
  <1>3. (DOMAIN Legacy \subseteq Ids)'
    BY DEF Inv, DataOK, Ids
  <1> QED BY <1>1, <1>2, <1>3 DEF Inv

\* A step that changes no row but takes sessions away or gives one to a ready user.
LEMMA QuietStep ==
  ASSUME Inv, NEW c \in Callers, NEW k \in Call, call' = [call EXCEPT ![c] = k],
         UNCHANGED <<portal, changes, users, account, mapping, owner, team, mistake, presented>>,
         failures' \in 0..MaxFailures,
         \/ session' \subseteq session
         \/ \E u \in Ids : Ready(u) /\ session' = session \union {u},
         CallOK(c)',
         k.at = "write" => \A d \in Callers \ {c} :
           call[d].at = "write" => call[d].grant.agent # k.grant.agent
  PROVE  Inv'
  <1>1. call \in [Callers -> Call] /\ call'[c] = k /\ \A d \in Callers \ {c} : call'[d] = call[d]
    BY DEF Inv, DataOK
  <1>2. DataOK'
    BY <1>1 DEF Inv, DataOK, Call, Ids
  <1>3. SessionsArePrivate'
    BY DEF Inv, SessionsArePrivate, Ready
  <1>4. OneUserPerAgent' /\ MappingIsWhole' /\ Presented' /\ Grows
    BY DEF Inv, OneUserPerAgent, MappingIsWhole, IsMapped, Presented, Grows, Ids
  <1> QED BY <1>1, <1>2, <1>3, <1>4, CallStep

\* A call that ended, or is about to, knows nothing.
LEMMA EndedCall ==
  /\ Ended \in Call /\ Ended.at = "idle" /\ Ended.grant = None
  /\ \A u \in Ids \union {0} :
       Denied(u) \in Call /\ Denied(u).at = "denied" /\ Denied(u).grant = None
  /\ \A c \in Callers : \A u \in Ids \union {0} :
       call'[c] \in {Ended, Denied(u)} => CallOK(c)'
  <1>1. /\ Ended \in Call /\ Ended.at = "idle" /\ Ended.grant = None
        /\ Ended.purpose = "provision"
    BY DEF Ended, Call, Places, Purposes
  <1>2. ASSUME NEW u \in Ids \union {0}
        PROVE  /\ Denied(u) \in Call /\ Denied(u).at = "denied" /\ Denied(u).grant = None
    BY <1>2 DEF Ended, Denied, Call, Places, Purposes
  <1>3. \A k : k.at \in {"idle", "denied"} =>
          k.at \notin {"lock", "write"} \union Building \union Checking
    BY DEF Building, Checking
  <1>4. ASSUME NEW c \in Callers, call'[c].at \in {"idle", "denied"}, call'[c].grant = None
        PROVE  CallOK(c)'
    BY <1>3, <1>4 DEF CallOK, Building, Checking
  <1> QED BY <1>1, <1>2, <1>4

\* A call that throws, with or without its user's sessions.
LEMMA ThrowStep ==
  ASSUME Inv, NEW c \in Callers, call' = [call EXCEPT ![c] = Ended],
         UNCHANGED <<portal, changes, users, account, mapping, owner, team, mistake, presented>>,
         failures' \in 0..MaxFailures, session' \subseteq session
  PROVE  Inv'
  <1>1. call'[c] = Ended
    BY DEF Inv, DataOK
  <1>2. CallOK(c)' /\ Ended \in Call /\ Ended.at # "write"
    <2>1. 0 \in Ids \union {0}
      OBVIOUS
    <2> QED BY <1>1, <2>1, EndedCall
  <1> QED BY <1>2, QuietStep

LEMMA Known ==
  ASSUME Inv, NEW c \in Callers
  PROVE  /\ call[c] \in Call /\ CallOK(c) /\ failures \in 0..MaxFailures
         /\ call[c].grant \in Grant \union {None} /\ call[c].user \in Ids \union {0}
         /\ call[c].grant # None => call[c].grant.agent \in Agents
         /\ \A k : call' = [call EXCEPT ![c] = k] => call'[c] = k
  BY DEF Inv, DataOK, Call, Grant

\* provisionPersonalGoogleUser: the steps that write no row.
LEMMA SignInStep ==
  ASSUME Inv, NEW c \in Callers, NEW a \in Agents, SignIn(c, a)
  PROVE  Inv'
  <1> DEFINE k == [Ended EXCEPT !.at = "lock", !.grant = portal[a]]
  <1>1. /\ k \in Call /\ k.at = "lock" /\ k.grant # None /\ k.user = 0
        /\ k.purpose = "provision"
    BY DEF SignIn, Inv, DataOK, Ended, Call, Places, Purposes
  <1>2. call' = [call EXCEPT ![c] = k] /\ call'[c] = k
    BY Known DEF SignIn
  <1>3. CallOK(c)'
    <2> HIDE DEF k
    <2> QED BY <1>1, <1>2 DEF CallOK, Building, Checking
  <1>4. /\ UNCHANGED <<portal, changes, users, account, mapping, owner, team, mistake, presented>>
        /\ session' \subseteq session /\ failures' \in 0..MaxFailures
    BY Known DEF SignIn, database
  <1> HIDE DEF k
  <1> QED BY <1>1, <1>2, <1>3, <1>4, QuietStep

LEMMA TxReadStep ==
  ASSUME Inv, NEW c \in Callers, TxRead(c)
  PROVE  Inv'
  <1> DEFINE g == call[c].grant
             k == [call[c] EXCEPT !.at = "write", !.user = mapping[g.agent].user]
  <1>1. call[c].at = "lock" /\ g # None /\ g.agent \in Agents /\ call[c].purpose = "provision"
    BY Known DEF TxRead, GoIf, CallOK
  <1>2. UNCHANGED <<portal, changes, database, mistake, presented, failures>>
    BY DEF TxRead
  <1>3. call' = [call EXCEPT ![c] = Ended] \/ call' = [call EXCEPT ![c] = k]
    BY DEF TxRead, GoIf
  <1>4. CASE call' = [call EXCEPT ![c] = Ended]
    BY <1>2, <1>4, ThrowStep, Known DEF database
  <1>5. CASE call' = [call EXCEPT ![c] = k]
    <2>1. mapping[g.agent].user \in Ids \union {0}
      BY <1>1 DEF Inv, DataOK
    <2>2. k \in Call /\ k.at = "write" /\ k.grant = g /\ k.user = mapping[g.agent].user
            /\ k.purpose = "provision"
      BY <1>1, <2>1, Known DEF Call, Places
    <2>3. call'[c] = k
      BY <1>5, Known
    <2>4. CallOK(c)'
      BY <1>1, <1>2, <2>2, <2>3 DEF CallOK, Building, Checking, database
    <2>5. \A d \in Callers : call[d].at = "write" => call[d].grant.agent # g.agent
      BY <1>1 DEF TxRead, Locks
    <2>6. /\ UNCHANGED <<portal, changes, users, account, mapping, owner, team, mistake, presented>>
          /\ session' \subseteq session /\ failures' \in 0..MaxFailures
      BY <1>2, Known DEF database
    <2> HIDE DEF k
    <2> QED BY <1>5, <2>2, <2>4, <2>5, <2>6, QuietStep
  <1> QED BY <1>3, <1>4, <1>5

\* A call moves on to another place of the building of its workspace.
LEMMA MoveStep ==
  ASSUME Inv, NEW c \in Callers, NEW to \in Building,
         call' = [call EXCEPT ![c].at = to], call[c].at \in Building,
         to \notin {"organisation", "createOrganisation"} => owner[call[c].grant.agent] # 0,
         UNCHANGED <<portal, changes, database, mistake, presented, failures>>
  PROVE  Inv'
  <1> DEFINE k == [call[c] EXCEPT !.at = to]
  <1>1. k \in Call /\ k.at = to /\ k.grant = call[c].grant /\ k.user = call[c].user
          /\ k.purpose = call[c].purpose
    BY Known DEF Call, Places, Building
  <1>2. call' = [call EXCEPT ![c] = k] /\ call'[c] = k
    BY Known DEF Inv, DataOK
  <1>3. CallOK(c)'
    BY <1>1, <1>2, Known DEF CallOK, Building, Checking, database
  <1>4. k.at # "write"
    BY <1>1 DEF Building
  <1>5. /\ UNCHANGED <<portal, changes, users, account, mapping, owner, team, mistake, presented>>
        /\ session' \subseteq session /\ failures' \in 0..MaxFailures
    BY Known DEF database
  <1> HIDE DEF k
  <1> QED BY <1>1, <1>2, <1>3, <1>4, <1>5, QuietStep

LEMMA FindStep ==
  ASSUME Inv, NEW c \in Callers, FindOrganisation(c) \/ FindTeam(c)
  PROVE  Inv'
  <1>1. CASE FindOrganisation(c)
    BY <1>1, MoveStep, Known DEF FindOrganisation, Go, Building
  <1>2. CASE FindTeam(c)
    BY <1>2, MoveStep, Known DEF FindTeam, Go, Building, CallOK
  <1> QED BY <1>1, <1>2

LEMMA CheckMembersStep ==
  ASSUME Inv, NEW c \in Callers, CheckMembers(c)
  PROVE  Inv'
  <1>1. /\ call[c].at = "members"
        /\ UNCHANGED <<portal, changes, database, mistake, presented, failures>>
    BY DEF CheckMembers, GoIf
  <1>2. CASE call' = [call EXCEPT ![c] = Ended]
    BY <1>1, <1>2, ThrowStep, Known DEF database
  <1>3. CASE call' = [call EXCEPT ![c] = [call[c] EXCEPT !.at = "team"]]
    <2>1. call' = [call EXCEPT ![c].at = "team"]
      BY <1>3
    <2> QED BY <1>1, <2>1, MoveStep, Known DEF CallOK, Building
  <1> QED BY <1>2, <1>3 DEF CheckMembers, GoIf

LEMMA FailStep ==
  ASSUME Inv, NEW c \in Callers, Fail(c)
  PROVE  Inv'
  <1>1. failures' \in 0..MaxFailures
    BY Known, BoundAssumption DEF Fail
  <1> QED BY <1>1, ThrowStep DEF Fail, database
-----------------------------------------------------------------------------
\* assertPersonalUserAccess: a step goes on with a new state, or throws.

LEMMA EnsureStep ==
  ASSUME Inv, NEW c \in Callers, NEW k \in Call,
         call' = [call EXCEPT ![c] = k] \/ call' = [call EXCEPT ![c] = Denied(call[c].user)],
         UNCHANGED <<portal, changes, database, mistake, presented, failures>>,
         k.at # "write", call'[c] = k => CallOK(c)'
  PROVE  Inv'
  <1>1. /\ UNCHANGED <<portal, changes, users, account, mapping, owner, team, mistake, presented>>
        /\ session' \subseteq session /\ failures' \in 0..MaxFailures
    BY Known DEF database
  <1>2. CASE call' = [call EXCEPT ![c] = k]
    BY <1>1, <1>2, QuietStep, Known
  <1>3. CASE call' = [call EXCEPT ![c] = Denied(call[c].user)]
    <2>1. /\ Denied(call[c].user) \in Call /\ Denied(call[c].user).at # "write"
          /\ call'[c] = Denied(call[c].user) /\ CallOK(c)'
      BY <1>3, Known, EndedCall
    <2> QED BY <1>1, <1>3, <2>1, QuietStep
  <1> QED BY <1>2, <1>3

LEMMA RequestStep ==
  ASSUME Inv, NEW c \in Callers, NEW u \in Ids, Request(c, u)
  PROVE  Inv'
  <1> DEFINE k == [Ended EXCEPT !.at = "user", !.user = u, !.purpose = "request"]
  <1>0. u # 0
    BY DEF Inv, DataOK, Ids
  <1>1. k \in Call /\ k.at = "user" /\ k.user = u /\ k.purpose = "request" /\ u # 0
    BY <1>0 DEF Ended, Call, Places, Purposes
  <1>2. call' = [call EXCEPT ![c] = k]
    BY DEF Request
  <1>3. call'[c] = k => CallOK(c)'
    <2> HIDE DEF k
    <2> QED BY <1>1 DEF CallOK, Building, Checking
  <1>4. UNCHANGED <<portal, changes, database, mistake, presented, failures>>
    BY DEF Request
  <1> HIDE DEF k
  <1> QED BY <1>1, <1>2, <1>3, <1>4, EnsureStep

LEMMA ReadUserStep ==
  ASSUME Inv, NEW c \in Callers, ReadUser(c)
  PROVE  Inv'
  <1> DEFINE k == [call[c] EXCEPT !.at = "mapping", !.email = users[call[c].user]]
  <1>1. /\ call[c].at = "user"
        /\ call' = [call EXCEPT ![c] = k] \/ call' = [call EXCEPT ![c] = Denied(call[c].user)]
        /\ UNCHANGED <<portal, changes, database, mistake, presented, failures>>
    BY DEF ReadUser, Ensure, GoIf
  <1>2. users[call[c].user] \in Emails
    <2>1. users \in Seq(Emails) /\ call[c].user \in 1..Len(users)
      BY <1>1, Known DEF CallOK, Checking, Ids, Inv, DataOK
    <2> QED BY <2>1
  <1>3. k \in Call /\ k.at = "mapping" /\ k.user = call[c].user /\ k.purpose = call[c].purpose
    BY <1>2, Known DEF Call, Places
  <1>4. call'[c] = k => CallOK(c)'
    <2> HIDE DEF k
    <2> QED BY <1>1, <1>3, Known DEF CallOK, Building, Checking, Ready, database
  <1> HIDE DEF k
  <1> QED BY <1>1, <1>3, <1>4, EnsureStep

LEMMA ReadMappingStep ==
  ASSUME Inv, NEW c \in Callers, ReadMapping(c)
  PROVE  Inv'
  <1>1. call[c].at = "mapping"
    BY DEF ReadMapping, Ensure, GoIf
  <1>2. CASE \E a \in Agents :
               /\ mapping[a].user = call[c].user
               /\ Ensure(c, "mapping", call[c].email = mapping[a].grant.id.email,
                         [call[c] EXCEPT !.at = "account", !.grant = mapping[a].grant,
                                         !.email = None])
    <2>1. PICK a \in Agents :
               /\ mapping[a].user = call[c].user
               /\ Ensure(c, "mapping", call[c].email = mapping[a].grant.id.email,
                         [call[c] EXCEPT !.at = "account", !.grant = mapping[a].grant,
                                         !.email = None])
      BY <1>2
    <2> DEFINE k == [call[c] EXCEPT !.at = "account", !.grant = mapping[a].grant, !.email = None]
    <2>2. call[c].user # 0 /\ (call[c].purpose # "request" => Ready(call[c].user))
      BY <1>1, Known DEF CallOK, Checking
    <2>3. mapping[a].grant \in Grant /\ mapping[a].grant \in presented /\ mapping[a].grant.agent = a
      BY <2>1, <2>2 DEF Inv, Presented, MappingIsWhole
    <2>4. k \in Call /\ k.at = "account" /\ k.grant = mapping[a].grant /\ k.user = call[c].user
            /\ k.purpose = call[c].purpose
      BY <2>3, Known DEF Call, Places
    <2>5. /\ call' = [call EXCEPT ![c] = k] \/ call' = [call EXCEPT ![c] = Denied(call[c].user)]
          /\ UNCHANGED <<portal, changes, database, mistake, presented, failures>>
      BY <2>1 DEF Ensure, GoIf
    <2>6. call'[c] = k => CallOK(c)'
      <3>1. k.grant # None /\ k.grant.agent = a
        BY <2>3, <2>4, NoneAssumption
      <3>2. \A v : Ready(v) => Ready(v)'
        BY <2>5 DEF Ready, database
      <3> HIDE DEF k
      <3> QED BY <2>1, <2>2, <2>3, <2>4, <2>5, <3>1, <3>2 DEF CallOK, Building, Checking, database
    <2> HIDE DEF k
    <2> QED BY <2>4, <2>5, <2>6, EnsureStep
  <1>3. CASE Ensure(c, "mapping", FALSE, Ended)
    <2>1. /\ call' = [call EXCEPT ![c] = Denied(call[c].user)]
          /\ UNCHANGED <<portal, changes, database, mistake, presented, failures>>
      BY <1>3 DEF Ensure, GoIf
    <2>2. Ended \in Call /\ Ended.at # "write" /\ (call'[c] = Ended => CallOK(c)')
      <3>1. 0 \in Ids \union {0}
        OBVIOUS
      <3> QED BY <3>1, EndedCall
    <2> QED BY <2>1, <2>2, EnsureStep
  <1> QED BY <1>2, <1>3 DEF ReadMapping

LEMMA ReadAccountStep ==
  ASSUME Inv, NEW c \in Callers, ReadAccount(c)
  PROVE  Inv'
  <1> DEFINE k == [call[c] EXCEPT !.at = "grant"]
  <1>1. /\ call[c].at = "account"
        /\ call' = [call EXCEPT ![c] = k] \/ call' = [call EXCEPT ![c] = Denied(call[c].user)]
        /\ UNCHANGED <<portal, changes, database, mistake, presented, failures>>
    BY DEF ReadAccount, Ensure, GoIf
  <1>2. k \in Call /\ k.at = "grant" /\ k.grant = call[c].grant /\ k.user = call[c].user
          /\ k.purpose = call[c].purpose
    BY Known DEF Call, Places
  <1>3. call'[c] = k => CallOK(c)'
    <2> HIDE DEF k
    <2> QED BY <1>1, <1>2, Known DEF CallOK, Building, Checking, Ready, database
  <1> HIDE DEF k
  <1> QED BY <1>1, <1>2, <1>3, EnsureStep

LEMMA CheckGrantStep ==
  ASSUME Inv, NEW c \in Callers, CheckGrant(c)
  PROVE  Inv'
  <1> DEFINE k == [call[c] EXCEPT !.at = "workspace"]
  <1>1. /\ call[c].at = "grant"
        /\ call' = [call EXCEPT ![c] = k] \/ call' = [call EXCEPT ![c] = Denied(call[c].user)]
        /\ UNCHANGED <<portal, changes, database, mistake, presented, failures>>
    BY DEF CheckGrant, Ensure, GoIf
  <1>2. k \in Call /\ k.at = "workspace" /\ k.grant = call[c].grant /\ k.user = call[c].user
          /\ k.purpose = call[c].purpose
    BY Known DEF Call, Places
  <1>3. call'[c] = k => CallOK(c)'
    <2> HIDE DEF k
    <2> QED BY <1>1, <1>2, Known DEF CallOK, Building, Checking, Ready, database
  <1> HIDE DEF k
  <1> QED BY <1>1, <1>2, <1>3, EnsureStep

LEMMA CheckWorkspaceStep ==
  ASSUME Inv, NEW c \in Callers, CheckWorkspace(c)
  PROVE  Inv'
  <1>1. /\ call[c].at = "workspace"
        /\ UNCHANGED <<portal, changes, database, mistake, presented, failures>>
    BY DEF CheckWorkspace, Ensure, GoIf
  <1> DEFINE again == [call[c] EXCEPT !.at = "user", !.purpose = "session"]
             insert == [call[c] EXCEPT !.at = "insert"]
  <1>2. call[c].purpose \in Purposes
    BY Known DEF Call
  <1>3. \/ call[c].purpose = "provision" /\ call' = [call EXCEPT ![c] = again]
        \/ call[c].purpose = "session" /\ call' = [call EXCEPT ![c] = insert]
        \/ call' = [call EXCEPT ![c] = Ended]
        \/ call' = [call EXCEPT ![c] = Denied(call[c].user)]
    BY <1>2 DEF CheckWorkspace, Ensure, GoIf, Purposes
  <1>4. again \in Call /\ again.at = "user" /\ again.user = call[c].user /\ again.purpose = "session"
    BY Known DEF Call, Places, Purposes
  <1>5. insert \in Call /\ insert.at = "insert" /\ insert.user = call[c].user
          /\ insert.purpose = call[c].purpose
    BY Known DEF Call, Places, Purposes
  <1>6. CASE call[c].purpose = "provision" /\ call' = [call EXCEPT ![c] = again]
    <2>1. call'[c] = again => CallOK(c)'
      <3> HIDE DEF again
      <3> QED BY <1>1, <1>4, <1>6, Known DEF CallOK, Building, Checking, Ready, database
    <2> HIDE DEF again
    <2> QED BY <1>1, <1>4, <1>6, <2>1, EnsureStep
  <1>7. CASE call[c].purpose = "session" /\ call' = [call EXCEPT ![c] = insert]
    <2>1. call'[c] = insert => CallOK(c)'
      <3> HIDE DEF insert
      <3> QED BY <1>1, <1>5, <1>7, Known DEF CallOK, Building, Checking, Ready, database
    <2> HIDE DEF insert
    <2> QED BY <1>1, <1>5, <1>7, <2>1, EnsureStep
  <1>8. CASE call' = [call EXCEPT ![c] = Ended]
    BY <1>1, <1>8, ThrowStep, Known DEF database
  <1>9. CASE call' = [call EXCEPT ![c] = Denied(call[c].user)]
    <2>1. Ended \in Call /\ Ended.at # "write" /\ (call'[c] = Ended => CallOK(c)')
      <3>1. 0 \in Ids \union {0}
        OBVIOUS
      <3> QED BY <3>1, EndedCall
    <2> QED BY <1>1, <1>9, <2>1, EnsureStep
  <1> QED BY <1>3, <1>6, <1>7, <1>8, <1>9

LEMMA DeleteSessionsStep ==
  ASSUME Inv, NEW c \in Callers, DeleteSessions(c)
  PROVE  Inv'
  BY ThrowStep, Known DEF DeleteSessions, GoIf

LEMMA InsertStep ==
  ASSUME Inv, NEW c \in Callers, Insert(c)
  PROVE  Inv'
  <1>1. /\ call[c].at = "insert" /\ call' = [call EXCEPT ![c] = Ended]
        /\ UNCHANGED <<portal, changes, users, account, mapping, owner, team, mistake, presented>>
        /\ session' = session \union {call[c].user} /\ failures' \in 0..MaxFailures
    BY Known DEF Insert, GoIf
  <1>2. call[c].user \in Ids /\ Ready(call[c].user)
    BY <1>1, Known DEF CallOK, Checking
  <1>3. CallOK(c)' /\ Ended \in Call /\ Ended.at # "write"
    BY <1>1, <1>2, EndedCall, Known
  <1> QED BY <1>1, <1>2, <1>3, QuietStep
-----------------------------------------------------------------------------
\* The organisation and its team: a step that only adds to one agent's workspace.
LEMMA WorkspaceStep ==
  ASSUME Inv, NEW c \in Callers, NEW to, to \in Building \/ to = "user",
         call' = [call EXCEPT ![c].at = to], call[c].at \in Building,
         UNCHANGED <<portal, changes, users, account, mapping, session, mistake, presented,
                     failures>>,
         owner' \in [Agents -> Ids \union {0}],
         \A b \in Agents : /\ owner'[b] \in {0, mapping[b].user}
                           /\ owner[b] # 0 => owner'[b] = owner[b],
         team' \in [Agents -> {"none", "default", "private"}],
         \A b \in Agents : team[b] = "private" => team'[b] = "private",
         to \notin {"organisation", "createOrganisation"} => owner'[call[c].grant.agent] # 0,
         to = "user" => team'[call[c].grant.agent] = "private"
  PROVE  Inv'
  <1> DEFINE k == [call[c] EXCEPT !.at = to]
             a == call[c].grant.agent
  <1>1. /\ k.at = to /\ k.grant = call[c].grant /\ k.user = call[c].user
        /\ k.purpose = call[c].purpose
    BY Known DEF Call
  <1>2. k \in Call
    BY Known DEF Call, Places, Building
  <1>3. call' = [call EXCEPT ![c] = k] /\ call'[c] = k
        /\ \A d \in Callers \ {c} : call'[d] = call[d]
    BY Known DEF Inv, DataOK
  <1>4. /\ a \in Agents /\ call[c].grant # None /\ call[c].purpose = "provision"
        /\ call[c].user # 0 /\ call[c].user \in Ids /\ mapping[a].user = call[c].user
    BY Known DEF CallOK
  <1> HIDE DEF k
  <1>7. DataOK'
    BY <1>2, <1>3 DEF Inv, DataOK, Ids, Call
  <1>8. Grows
    BY DEF Grows
  <1>10. OneUserPerAgent'
    BY DEF Inv, OneUserPerAgent, Ids
  <1>11. MappingIsWhole' /\ Presented'
    BY DEF Inv, MappingIsWhole, IsMapped, Presented
  <1>12. 0 \notin Ids
    BY DEF Inv, DataOK, Ids
  <1>13. SessionsArePrivate'
    BY <1>12 DEF Inv, DataOK, SessionsArePrivate
  <1>14. to = "user" => owner'[a] = call[c].user
    BY <1>4
  <1>15. CallOK(c)'
    <2>1. CASE to \in Building
      BY <1>1, <1>3, <1>4, <2>1 DEF CallOK, Building, Checking
    <2>2. CASE to = "user"
      <3>1. mapping'[a].user = k.user /\ owner'[a] = k.user /\ team'[a] = "private"
        BY <1>1, <1>4, <1>14, <2>2
      <3> QED BY <1>1, <1>3, <1>4, <2>2, <3>1 DEF CallOK, Building, Checking, Ready
    <2> QED BY <2>1, <2>2
  <1>16. k.at # "write"
    BY <1>1 DEF Building
  <1>17. Len(users) <= Len(users')
    BY DEF Inv, DataOK
  <1> QED BY <1>3, <1>7, <1>8, <1>10, <1>11, <1>13, <1>15, <1>16, <1>17, CallStep

LEMMA BuildStep ==
  ASSUME Inv, NEW c \in Callers, CreateOrganisation(c) \/ CreateTeam(c) \/ Settings(c)
  PROVE  Inv'
  <1> DEFINE a == call[c].grant.agent
  <1>1. /\ owner \in [Agents -> Ids \union {0}]
        /\ team \in [Agents -> {"none", "default", "private"}]
        /\ \A b \in Agents : owner[b] \in {0, mapping[b].user}
    BY DEF Inv, DataOK, OneUserPerAgent
  <1>2. call[c].at \in Building /\ a \in Agents /\ call[c].user \in Ids /\ call[c].user # 0
          /\ call[c].user = mapping[a].user
    BY Known DEF CreateOrganisation, CreateTeam, Settings, Go, CallOK, Building
  <1>3. CASE CreateOrganisation(c)
    <2>1. /\ call' = [call EXCEPT ![c].at = "members"]
          /\ owner' = [owner EXCEPT ![a] = IF @ = 0 THEN call[c].user ELSE @] /\ team' = team
          /\ UNCHANGED <<portal, changes, users, account, mapping, session, mistake, presented,
                         failures>>
      BY <1>3 DEF CreateOrganisation, Go
    <2>2. /\ owner' \in [Agents -> Ids \union {0}]
          /\ \A b \in Agents : /\ owner'[b] \in {0, mapping[b].user}
                               /\ owner[b] # 0 => owner'[b] = owner[b]
          /\ owner'[a] # 0
      BY <1>1, <1>2, <2>1
    <2>3. "members" \in Building
      BY DEF Building
    <2> QED BY <1>1, <1>2, <2>1, <2>2, <2>3, WorkspaceStep
  <1>4. CASE CreateTeam(c)
    <2>1. /\ call[c].at = "createTeam" /\ call' = [call EXCEPT ![c].at = "settings"]
          /\ team' = [team EXCEPT ![a] = IF @ = "none" THEN "default" ELSE @] /\ owner' = owner
          /\ UNCHANGED <<portal, changes, users, account, mapping, session, mistake, presented,
                         failures>>
      BY <1>4 DEF CreateTeam, Go
    <2>2. /\ team' \in [Agents -> {"none", "default", "private"}]
          /\ \A b \in Agents : team[b] = "private" => team'[b] = "private"
      BY <1>1, <1>2, <2>1
    <2>3. "settings" \in Building /\ owner[a] # 0
      BY <2>1, Known DEF CallOK, Building
    <2> QED BY <1>1, <1>2, <2>1, <2>2, <2>3, WorkspaceStep
  <1>5. CASE Settings(c)
    <2>1. /\ call[c].at = "settings" /\ call' = [call EXCEPT ![c].at = "user"]
          /\ team' = [team EXCEPT ![a] = "private"] /\ owner' = owner
          /\ UNCHANGED <<portal, changes, users, account, mapping, session, mistake, presented,
                         failures>>
      BY <1>5 DEF Settings, Go
    <2>2. /\ team' \in [Agents -> {"none", "default", "private"}]
          /\ \A b \in Agents : team[b] = "private" => team'[b] = "private"
          /\ team'[a] = "private"
      BY <1>1, <1>2, <2>1
    <2>3. owner[a] # 0
      BY <2>1, Known DEF CallOK, Building
    <2> QED BY <1>1, <1>2, <2>1, <2>2, <2>3, WorkspaceStep
  <1> QED BY <1>3, <1>4, <1>5
-----------------------------------------------------------------------------
\* The transaction's writes: the agent's user is new or the one it had.
LEMMA WriteUser ==
  ASSUME Inv, NEW c \in Callers, TxWrite(c), NEW u, NEW g,
         g = call[c].grant, u = (IF call[c].user = 0 THEN Len(users) + 1 ELSE call[c].user),
         Unique(u, g)
  PROVE  /\ users' \in Seq(Emails) /\ Len(users) <= Len(users')
         /\ u \in Ids' /\ Ids \subseteq Ids' /\ Ids' \subseteq Ids \union {u} /\ u # 0
         /\ users'[u] = g.id.email /\ \A v \in Ids \ {u} : users'[v] = users[v]
         /\ g \in Grant /\ g.agent \in Agents /\ call[c].user = mapping[g.agent].user
         /\ call[c].at = "write" /\ u \notin DOMAIN Legacy
         /\ mapping[g.agent].user = 0 => u \notin Ids
         /\ mapping[g.agent].user # 0 => u = mapping[g.agent].user
  <1>1. call[c].at = "write" /\ g \in Grant /\ g.agent \in Agents
          /\ call[c].user = mapping[g.agent].user /\ call[c].user \in Ids \union {0}
    BY Known DEF TxWrite, GoIf, CallOK
  <1>2. g.id.email \in Emails
    BY <1>1 DEF Grant, Identity
  <1>3. users \in Seq(Emails) /\ Len(users) \in Nat /\ DOMAIN Legacy \subseteq Ids
    BY DEF Inv, DataOK
  <1>0. users' = IF u = Len(users) + 1 THEN Append(users, g.id.email)
                 ELSE [users EXCEPT ![u] = g.id.email]
    BY DEF TxWrite
  <1>4. CASE call[c].user = 0
    <2>1. u = Len(users) + 1 /\ users' = Append(users, g.id.email)
      BY <1>0, <1>4
    <2>2. /\ users' \in Seq(Emails) /\ Len(users') = Len(users) + 1 /\ users'[u] = g.id.email
          /\ \A v \in 1..Len(users) : users'[v] = users[v]
      BY <1>2, <1>3, <2>1
    <2> QED BY <1>1, <1>3, <1>4, <2>1, <2>2 DEF Ids
  <1>5. CASE call[c].user # 0
    <2>0. u = call[c].user /\ u \in 1..Len(users) /\ u # Len(users) + 1
      BY <1>1, <1>3, <1>5 DEF Ids
    <2>1. users' = [users EXCEPT ![u] = g.id.email]
      BY <1>0, <2>0
    <2>2. /\ users' \in Seq(Emails) /\ Len(users') = Len(users) /\ users'[u] = g.id.email
          /\ \A v \in 1..Len(users) \ {u} : users'[v] = users[v]
      BY <1>2, <1>3, <2>0, <2>1, ExceptSeq
    <2>3. u \notin DOMAIN Legacy
      BY <1>1, <1>5, <2>0 DEF Inv, MappingIsWhole
    <2> QED BY <1>1, <1>3, <1>5, <2>0, <2>1, <2>2, <2>3 DEF Ids
  <1> QED BY <1>4, <1>5

LEMMA TxWriteStep ==
  ASSUME Inv, NEW c \in Callers, TxWrite(c)
  PROVE  Inv'
  <1> DEFINE g == call[c].grant
             a == g.agent
             u == IF call[c].user = 0 THEN Len(users) + 1 ELSE call[c].user
  <1>1. CASE ~Unique(u, g)
    BY <1>1, ThrowStep, Known DEF TxWrite, GoIf
  <1>2. CASE Unique(u, g)
    <2> DEFINE k == [call[c] EXCEPT !.at = "organisation", !.user = u]
    <2>1. /\ call' = [call EXCEPT ![c] = k]
          /\ account' = [account EXCEPT ![g.id.subject] = u]
          /\ mapping' = [mapping EXCEPT ![a] =
               [user |-> IF mapping[a].user = 0 THEN u ELSE mapping[a].user, grant |-> g]]
          /\ session' \subseteq session /\ presented' = presented \union {g}
          /\ UNCHANGED <<portal, changes, owner, team, mistake, failures>>
      BY <1>2 DEF TxWrite, GoIf
    <2>2. /\ users' \in Seq(Emails) /\ Len(users) <= Len(users')
          /\ u \in Ids' /\ Ids \subseteq Ids' /\ Ids' \subseteq Ids \union {u} /\ u # 0
          /\ users'[u] = g.id.email /\ \A v \in Ids \ {u} : users'[v] = users[v]
          /\ g \in Grant /\ a \in Agents /\ call[c].user = mapping[a].user
          /\ call[c].at = "write" /\ u \notin DOMAIN Legacy
          /\ mapping[a].user = 0 => u \notin Ids
          /\ mapping[a].user # 0 => u = mapping[a].user
      BY <1>2, WriteUser
    <2>3. /\ k.at = "organisation" /\ k.grant = g /\ k.user = u /\ k.purpose = call[c].purpose
          /\ call'[c] = k /\ \A d \in Callers \ {c} : call'[d] = call[d]
          /\ call[c].purpose = "provision"
      <3>1. /\ k.at = "organisation" /\ k.grant = g /\ k.user = u /\ k.purpose = call[c].purpose
        BY Known DEF Call
      <3>2. call'[c] = k /\ \A d \in Callers \ {c} : call'[d] = call[d]
        BY <2>1 DEF Inv, DataOK
      <3>3. call[c].purpose = "provision"
        BY <2>2, Known DEF CallOK
      <3> QED BY <3>1, <3>2, <3>3
    <2>4. k \in Call'
      BY <2>2, Known DEF Call, Places
    <2>5. /\ mapping'[a] = [user |-> u, grant |-> g]
          /\ \A b \in Agents \ {a} : mapping'[b] = mapping[b]
          /\ g.id.subject \in Subjects /\ account'[g.id.subject] = u
          /\ \A s \in Subjects \ {g.id.subject} : account'[s] = account[s]
      BY <2>1, <2>2 DEF Inv, DataOK, Grant, Identity
    <2> HIDE DEF u, k
    <2>6. DataOK'
      <3>1. call' \in [Callers -> Call]'
        BY <2>1, <2>2, <2>4 DEF Inv, DataOK, Call
      <3>2. mapping' \in [Agents -> [user : Ids \union {0}, grant : Grant \union {None}]]'
        BY <2>1, <2>2, <2>5 DEF Inv, DataOK
      <3>3. account' \in [Subjects -> Ids \union {0}]'
        BY <2>1, <2>2 DEF Inv, DataOK
      <3>4. owner' \in [Agents -> Ids \union {0}]'
        BY <2>1, <2>2 DEF Inv, DataOK
      <3>5. mistake' \in ([user : Ids, host : Agents \union {None}] \union {None})'
        BY <2>1, <2>2 DEF Inv, DataOK
      <3> QED BY <2>1, <2>2, <3>1, <3>2, <3>3, <3>4, <3>5 DEF Inv, DataOK
    <2>7. Grows
      BY <2>1, <2>2, <2>5 DEF Grows
    <2>8. 0 \notin Ids /\ \A b \in Agents : mapping[b].user \in Ids \union {0}
      BY DEF Inv, DataOK, Ids
    <2>9. \A b \in Agents \ {a} : mapping[b].user # u
      BY <2>2, <2>8 DEF Inv, OneUserPerAgent
    <2>10. OneUserPerAgent'
      <3>1. \A v \in Ids' \ DOMAIN Legacy : \E b \in Agents : mapping'[b].user = v
        <4> SUFFICES ASSUME NEW v \in Ids', v \notin DOMAIN Legacy
                     PROVE  \E b \in Agents : mapping'[b].user = v
          OBVIOUS
        <4>1. CASE v = u
          BY <2>2, <2>5, <4>1
        <4>2. CASE v # u
          <5>1. PICK b \in Agents : mapping[b].user = v
            BY <2>2, <4>2 DEF Inv, OneUserPerAgent
          <5>2. b # a
            BY <2>2, <2>8, <4>2, <5>1
          <5> QED BY <2>5, <5>1, <5>2
        <4> QED BY <4>1, <4>2
      <3>2. \A b, d \in Agents :
              mapping'[b].user = mapping'[d].user => b = d \/ mapping'[b].user = 0
        BY <2>5, <2>9 DEF Inv, OneUserPerAgent
      <3>3. \A b \in Agents : owner'[b] \in {0, mapping'[b].user}
        BY <2>1, <2>2, <2>5 DEF Inv, OneUserPerAgent
      <3> QED BY <3>1, <3>2, <3>3 DEF OneUserPerAgent
    <2>11. MappingIsWhole'
      <3>1. \A b \in Agents : mapping'[b].user # 0 =>
              /\ mapping'[b].grant.agent = b
              /\ IsMapped(mapping[b].user, b)'
              /\ mapping'[b].user \notin DOMAIN Legacy
        <4> SUFFICES ASSUME NEW b \in Agents, mapping'[b].user # 0
                     PROVE  /\ mapping'[b].grant.agent = b
                            /\ IsMapped(mapping[b].user, b)'
                            /\ mapping'[b].user \notin DOMAIN Legacy
          OBVIOUS
        <4>1. CASE b = a
          BY <2>2, <2>5, <4>1 DEF IsMapped
        <4>2. CASE b # a
          <5> DEFINE v == mapping[b].user
                     s == mapping[b].grant.id.subject
          <5>1. mapping'[b] = mapping[b] /\ v # 0 /\ v \in Ids /\ v # u
            BY <2>5, <2>8, <2>9, <4>2
          <5>2. mapping[b].grant.agent = b /\ IsMapped(v, b) /\ v \notin DOMAIN Legacy
            BY <5>1 DEF Inv, MappingIsWhole
          <5>3. s # g.id.subject
            BY <1>2, <4>2, <5>1 DEF Unique
          <5>4. s \in Subjects
            BY <5>1 DEF Inv, Presented, Grant, Identity
          <5> QED BY <2>2, <2>5, <5>1, <5>2, <5>3, <5>4 DEF IsMapped
        <4> QED BY <4>1, <4>2
      <3>2. \A i \in DOMAIN Legacy : users'[i] = Legacy[i].email /\ account'[Legacy[i].subject] = i
        <4> SUFFICES ASSUME NEW i \in DOMAIN Legacy
                     PROVE  users'[i] = Legacy[i].email /\ account'[Legacy[i].subject] = i
          OBVIOUS
        <4>1. i \in Ids /\ i # u /\ users[i] = Legacy[i].email /\ account[Legacy[i].subject] = i
          BY <2>2 DEF Inv, MappingIsWhole
        <4>2. Legacy[i].subject # g.id.subject
          BY <1>2, <2>8, <4>1 DEF Unique
        <4>3. Legacy[i].subject \in Subjects
          <5>1. Legacy[i] \in Identity
            BY IdentitiesAssumption
          <5> QED BY <5>1 DEF Identity
        <4> QED BY <2>2, <2>5, <4>1, <4>2, <4>3
      <3> QED BY <3>1, <3>2 DEF MappingIsWhole
    <2>12. SessionsArePrivate'
      BY <2>1, <2>2, <2>5, <2>7, <2>8 DEF Inv, DataOK, SessionsArePrivate, Grows
    <2>13. Presented'
      BY <2>1, <2>2, <2>5 DEF Inv, Presented
    <2>14. CallOK(c)'
      BY <2>2, <2>3, <2>5, NoneAssumption DEF CallOK, Building, Checking
    <2> QED BY <2>2, <2>3, <2>5, <2>6, <2>7, <2>10, <2>11, <2>12, <2>13, <2>14, CallStep
  <1> QED BY <1>1, <1>2
-----------------------------------------------------------------------------
LEMMA InitInv == Init => Inv
  <1> SUFFICES ASSUME Init PROVE Inv
    OBVIOUS
  <1>1. /\ users \in Seq(Emails) /\ Len(users) = Len(Legacy) /\ DOMAIN Legacy = 1..Len(Legacy)
        /\ \A i \in DOMAIN Legacy : users[i] = Legacy[i].email /\ Legacy[i] \in Identity
    <2>1. /\ Len(Legacy) \in Nat /\ DOMAIN Legacy = 1..Len(Legacy)
          /\ \A i \in 1..Len(Legacy) : Legacy[i] \in Identity
      BY IdentitiesAssumption
    <2>2. \A i \in 1..Len(Legacy) : Legacy[i].email \in Emails
      BY <2>1 DEF Identity
    <2>3. users = [i \in 1..Len(Legacy) |-> Legacy[i].email]
      BY <2>1 DEF Init
    <2>4. users \in Seq(Emails) /\ Len(users) = Len(Legacy)
      BY <2>1, <2>2, <2>3, IsASeq
    <2> QED BY <2>1, <2>3, <2>4
  <1>2. DOMAIN Legacy = Ids /\ 0 \notin Ids
    BY <1>1 DEF Ids
  <1>3. account \in [Subjects -> Ids \union {0}]
    BY <1>2 DEF Init
  <1>4. \A i \in DOMAIN Legacy : account[Legacy[i].subject] = i
    <2> SUFFICES ASSUME NEW i \in DOMAIN Legacy PROVE account[Legacy[i].subject] = i
      OBVIOUS
    <2>1. Legacy[i].subject \in Subjects
      BY <1>1 DEF Identity
    <2>2. \A j \in DOMAIN Legacy : Legacy[j].subject = Legacy[i].subject => j = i
      BY LegacyAssumption
    <2> QED BY <2>1, <2>2 DEF Init
  <1>5. 0 \in 0..MaxChanges /\ 0 \in 0..MaxFailures
    BY BoundAssumption
  <1>6. DataOK
    BY <1>1, <1>3, <1>5, EndedCall DEF Init, DataOK
  <1>7. \A c \in Callers : CallOK(c) /\ call[c].at = "idle"
    BY DEF Init, Ended, CallOK, Building, Checking
  <1> QED BY <1>1, <1>2, <1>4, <1>6, <1>7 DEF Init, Inv, OneUserPerAgent, MappingIsWhole,
          SessionsArePrivate, Presented, Locked

LEMMA NextInv == Inv /\ [Next]_vars => Inv'
  <1> SUFFICES ASSUME Inv, [Next]_vars PROVE Inv'
    OBVIOUS
  <1>1. CASE UNCHANGED vars
    <2>1. UNCHANGED <<portal, changes, users, account, mapping, owner, team, session, mistake,
                      call, presented, failures>>
      BY <1>1 DEF vars, database
    <2>2. DataOK'
      BY <2>1 DEF Inv, DataOK, Ids, Call
    <2>3. OneUserPerAgent' /\ MappingIsWhole' /\ SessionsArePrivate'
      BY <2>1 DEF Inv, OneUserPerAgent, MappingIsWhole, IsMapped, SessionsArePrivate, Ids
    <2>4. Presented' /\ Locked'
      BY <2>1 DEF Inv, Presented, Locked
    <2>5. \A c \in Callers : CallOK(c)'
      BY <2>1 DEF Inv, CallOK, Ready
    <2> QED BY <2>1, <2>2, <2>3, <2>4, <2>5 DEF Inv, Ids
  <1>2. CASE (\E a \in Agents : PortalChange(a)) \/ Meddle
    BY <1>2, EnvironmentStep
  <1>3. ASSUME NEW c \in Callers,
               (\E a \in Agents : SignIn(c, a)) \/ (\E u \in Ids : Request(c, u))
        PROVE  Inv'
    BY <1>3, SignInStep, RequestStep
  <1>4. ASSUME NEW c \in Callers, Provision(c)
        PROVE  Inv'
    BY <1>4, TxReadStep, TxWriteStep, FindStep, CheckMembersStep, BuildStep DEF Provision
  <1>5. ASSUME NEW c \in Callers, Check(c)
        PROVE  Inv'
    BY <1>5, ReadUserStep, ReadMappingStep, ReadAccountStep, CheckGrantStep, CheckWorkspaceStep,
       DeleteSessionsStep, InsertStep DEF Check
  <1>6. ASSUME NEW c \in Callers, Fail(c)
        PROVE  Inv'
    BY <1>6, FailStep
  <1> QED BY <1>1, <1>2, <1>3, <1>4, <1>5, <1>6 DEF Next, Step

LEMMA Invariant == Spec => []Inv
  BY InitInv, NextInv, PTL DEF Spec

\* A call changes by a step of its own.
LEMMA OwnStep ==
  ASSUME Inv, [Next]_vars, NEW c \in Callers, call'[c] # call[c]
  PROVE  \/ \E a \in Agents : SignIn(c, a)
         \/ \E u \in Ids : Request(c, u)
         \/ Provision(c) \/ Check(c) \/ Fail(c)
  <1>1. call \in [Callers -> Call] /\ call' # call
    BY DEF Inv, DataOK
  <1>2. Next /\ ~Meddle /\ ~\E a \in Agents : PortalChange(a)
    BY <1>1 DEF vars, Meddle, PortalChange
  <1>3. PICK d \in Callers :
          \/ \E a \in Agents : SignIn(d, a)
          \/ \E u \in Ids : Request(d, u)
          \/ Provision(d) \/ Check(d) \/ Fail(d)
    BY <1>2 DEF Next, Step
  <1>4. ASSUME d # c PROVE call'[c] = call[c]
    <2>1. CASE \/ \E a \in Agents : SignIn(d, a)
               \/ \E u \in Ids : Request(d, u)
               \/ Fail(d)
      BY <1>1, <1>4, <2>1 DEF SignIn, Request, Fail
    <2>2. CASE Provision(d)
      BY <1>1, <1>4, <2>2 DEF Provision, TxRead, TxWrite, FindOrganisation, CreateOrganisation,
         CheckMembers, FindTeam, CreateTeam, Settings, Go, GoIf
    <2>3. CASE Check(d)
      BY <1>1, <1>4, <2>3 DEF Check, ReadUser, ReadMapping, ReadAccount, CheckGrant, CheckWorkspace,
         DeleteSessions, Insert, Ensure, GoIf
    <2> QED BY <1>3, <2>1, <2>2, <2>3
  <1> QED BY <1>3, <1>4
-----------------------------------------------------------------------------
\* Every variable of the Portal, the database and the calls keeps its type.
THEOREM ProvisioningTyped == Spec => []TypeOK
  <1>1. Init => undisturbed \subseteq Callers
    BY DEF Init
  <1>2. undisturbed \subseteq Callers /\ [Next]_vars => (undisturbed \subseteq Callers)'
    BY DEF Next, vars
  <1>3. Inv /\ undisturbed \subseteq Callers => TypeOK
    BY DEF Inv, TypeOK
  <1> QED BY <1>1, <1>2, <1>3, Invariant, PTL DEF Spec

\* However many sign-ins of an agent overlap or die, the transaction of
\* provisionPersonalGoogleUser() makes the agent one user, and no other's.
THEOREM OneUser == Spec => []OneUserPerAgent
  <1>1. Inv => OneUserPerAgent
    BY DEF Inv
  <1> QED BY <1>1, Invariant, PTL

\* The rows of the user, its Google account and its mapping agree after every
\* commit, also when the Portal rotated the identity.
THEOREM WholeMapping == Spec => []MappingIsWhole
  <1>1. Inv => MappingIsWhole
    BY DEF Inv
  <1> QED BY <1>1, Invariant, PTL

\* A session implies an organisation of the user's own and a private team.
THEOREM PrivateSessions == Spec => []SessionsArePrivate
  <1>1. Inv => SessionsArePrivate
    BY DEF Inv
  <1> QED BY <1>1, Invariant, PTL

\* assertPersonalUserAccess() lets a call pass the Portal's grant only when some
\* sign-in committed that very grant.
THEOREM FreshGrants == Spec => FreshSignIn
  <1> DEFINE Passes(c) ==
        call[c].at = "grant" /\ call'[c].at = "workspace" =>
          \E a \in Agents : mapping[a].user = call[c].user /\ portal[a] \in presented
  <1>1. ASSUME Inv, [Next]_vars, NEW c \in Callers
        PROVE  Passes(c)
    <2> SUFFICES ASSUME call[c].at = "grant", call'[c].at = "workspace"
                 PROVE  \E a \in Agents : mapping[a].user = call[c].user /\ portal[a] \in presented
      OBVIOUS
    <2>1. Check(c) \/ Fail(c)
      BY <1>1, OwnStep DEF SignIn, Request, Provision, TxRead, TxWrite, FindOrganisation,
         CreateOrganisation, CheckMembers, FindTeam, CreateTeam, Settings, Go, GoIf
    <2>2. ~Fail(c)
      BY <1>1, Known, EndedCall DEF Fail
    <2>3. CheckGrant(c)
      BY <1>1, <2>1, <2>2, Known, EndedCall DEF Check, ReadUser, ReadMapping, ReadAccount,
         CheckWorkspace, DeleteSessions, Insert, Ensure, GoIf
    <2>4. Granted(call[c].grant)
      BY <1>1, <2>3, Known, EndedCall DEF CheckGrant, Ensure, GoIf
    <2>5. /\ call[c].grant # None /\ call[c].grant.agent \in Agents
          /\ mapping[call[c].grant.agent].user = call[c].user /\ call[c].grant \in presented
      BY <1>1, Known DEF CallOK
    <2> QED BY <2>4, <2>5 DEF Granted
  <1>2. Inv /\ [Next]_vars => [\A c \in Callers : Passes(c)]_vars
    BY <1>1
  <1> QED BY <1>2, Invariant, PTL DEF Spec, FreshSignIn

-----------------------------------------------------------------------------
\* What an undisturbed sign-in knows: the address it holds is its grant's, and the
\* user is its agent's.
Calm(c) ==
  LET k == call[c]
      a == k.grant.agent
  IN  /\ Favoured(c) /\ k.purpose # "request" /\ k.at \notin {"idle", "denied"}
      /\ k.at \in {"user", "mapping"} => mapping[a].user = k.user
      /\ k.at = "mapping" => k.email = k.grant.id.email

CalmInv == undisturbed \subseteq Callers /\ \A c \in undisturbed : Calm(c)

\* A mapping keeps its user.
LEMMA SameUser ==
  ASSUME Inv, [Next]_vars, NEW a \in Agents, mapping[a].user # 0
  PROVE  mapping'[a].user = mapping[a].user
  <1>1. mapping \in [Agents -> [user : Ids \union {0}, grant : Grant \union {None}]]
    BY DEF Inv, DataOK
  <1>2. CASE mapping' = mapping
    BY <1>2
  <1>3. ASSUME NEW c \in Callers, TxWrite(c) PROVE mapping'[a].user = mapping[a].user
    BY <1>1, <1>3 DEF TxWrite
  <1>4. mapping' = mapping \/ \E c \in Callers : TxWrite(c)
    BY DEF Next, Step, vars, database, PortalChange, Meddle, SignIn, Request, Provision, TxRead,
       FindOrganisation, CreateOrganisation, CheckMembers, FindTeam, CreateTeam, Settings, Check,
       ReadUser, ReadMapping, ReadAccount, CheckGrant, CheckWorkspace, DeleteSessions, Insert,
       Fail, Ensure
  <1> QED BY <1>2, <1>3, <1>4

\* A step of the sign-in itself.
LEMMA OwnCalm ==
  ASSUME Inv, [Next]_vars, NEW c \in Callers, call'[c] # call[c],
         Favoured(c)', call[c].at = "idle" \/ Calm(c)
  PROVE  Calm(c)'
  <1> DEFINE k == call[c]
             j == call'[c]
             a == k.grant.agent
  <1>1. /\ k \in Call /\ CallOK(c) /\ (k.grant # None => a \in Agents)
        /\ \A i : call' = [call EXCEPT ![c] = i] => call'[c] = i
        /\ \A v \in Ids \union {0} : j \notin {Ended, Denied(v)}
        /\ k.user \in Ids \union {0}
    BY Known, EndedCall DEF Favoured
  <1>2. CASE \E b \in Agents : SignIn(c, b)
    <2>1. j.at = "lock" /\ j.purpose = "provision"
      BY <1>1, <1>2 DEF SignIn, Ended
    <2> QED BY <2>1 DEF Calm
  <1>3. ~Fail(c) /\ \A u \in Ids : ~Request(c, u)
    <2>1. j.grant # None
      BY DEF Favoured
    <2>2. \A u : [Ended EXCEPT !.at = "user", !.user = u, !.purpose = "request"].grant = None
      BY DEF Ended
    <2>3. ~Fail(c)
      BY <1>1, <2>1, EndedCall DEF Fail
    <2>4. ASSUME NEW u \in Ids, Request(c, u) PROVE FALSE
      <3>1. j = [Ended EXCEPT !.at = "user", !.user = u, !.purpose = "request"]
        BY <1>1, <2>4 DEF Request
      <3> QED BY <2>1, <2>2, <3>1
    <2> QED BY <2>3, <2>4
  <1>4. CASE Provision(c) /\ ~Settings(c)
    <2>1. k.purpose = "provision" /\ k.at \in {"lock", "write"} \union Building
      BY <1>1, <1>4 DEF Provision, TxRead, TxWrite, FindOrganisation, CreateOrganisation,
         CheckMembers, FindTeam, CreateTeam, Go, GoIf, CallOK, Building
    <2>2. j # Ended
      BY <1>1
    <2>3. \E to \in {"write"} \union Building : \E u :
            j = [k EXCEPT !.at = to] \/ j = [k EXCEPT !.at = to, !.user = u]
      <3>1. CASE TxRead(c)
        BY <1>1, <2>2, <3>1 DEF TxRead, GoIf
      <3>2. CASE TxWrite(c)
        <4> DEFINE u == IF k.user = 0 THEN Len(users) + 1 ELSE k.user
        <4>1. j = [k EXCEPT !.at = "organisation", !.user = u]
          BY <1>1, <2>2, <3>2 DEF TxWrite, GoIf
        <4> QED BY <4>1 DEF Building
      <3>3. CASE CheckMembers(c)
        BY <1>1, <2>2, <3>3 DEF CheckMembers, GoIf, Building
      <3>4. CASE FindOrganisation(c) \/ CreateOrganisation(c) \/ FindTeam(c) \/ CreateTeam(c)
        BY <1>1, <3>4 DEF FindOrganisation, CreateOrganisation, FindTeam, CreateTeam, Go, Building
      <3> QED BY <1>4, <3>1, <3>2, <3>3, <3>4 DEF Provision
    <2>4. j.purpose = k.purpose /\ j.at \in {"write"} \union Building
      BY <1>1, <2>3 DEF Call
    <2> QED BY <2>1, <2>4 DEF Calm, Building
  <1>5. CASE Settings(c)
    <2>1. /\ k.at = "settings" /\ call' = [call EXCEPT ![c] = [k EXCEPT !.at = "user"]]
          /\ mapping' = mapping
      BY <1>5 DEF Settings, Go
    <2>2. j = [k EXCEPT !.at = "user"] /\ k.purpose = "provision" /\ k.user = mapping[a].user
      BY <1>1, <2>1 DEF CallOK, Building
    <2>3. j.at = "user" /\ j.purpose = "provision" /\ j.grant = k.grant /\ j.user = k.user
      BY <1>1, <2>2 DEF Call
    <2> QED BY <2>1, <2>2, <2>3 DEF Calm
  <1>6. CASE ReadUser(c)
    <2>1. /\ k.at = "user" /\ j = [k EXCEPT !.at = "mapping", !.email = users[k.user]]
          /\ mapping' = mapping
      BY <1>1, <1>6 DEF ReadUser, Ensure, GoIf, database
    <2>2. /\ j.at = "mapping" /\ j.email = users[k.user] /\ j.grant = k.grant
          /\ j.user = k.user /\ j.purpose = k.purpose
      BY <1>1, <2>1 DEF Call
    <2>3. /\ Calm(c) /\ k.grant # None /\ a \in Agents /\ k.user # 0
          /\ mapping[a].user = k.user /\ mapping[a].grant = k.grant
      BY <1>1, <2>1 DEF Calm, Favoured, CallOK, Checking
    <2>4. users[k.user] = k.grant.id.email
      BY <2>3 DEF Inv, MappingIsWhole, IsMapped
    <2> QED BY <2>1, <2>2, <2>3, <2>4 DEF Calm
  <1>7. CASE ReadMapping(c)
    <2>1. PICK b \in Agents :
            j = [k EXCEPT !.at = "account", !.grant = mapping[b].grant, !.email = None]
      BY <1>1, <1>7 DEF ReadMapping, Ensure, GoIf
    <2>2. j.at = "account" /\ j.purpose = k.purpose /\ k.at = "mapping"
      BY <1>1, <1>7, <2>1 DEF Call, ReadMapping, Ensure, GoIf
    <2> QED BY <2>2 DEF Calm
  <1>8. CASE ReadAccount(c) \/ CheckGrant(c)
    <2>1. PICK to \in {"grant", "workspace"} : j = [k EXCEPT !.at = to]
      BY <1>1, <1>8 DEF ReadAccount, CheckGrant, Ensure, GoIf
    <2>2. j.at \in {"grant", "workspace"} /\ j.purpose = k.purpose
          /\ k.at \in {"account", "grant"}
      BY <1>1, <1>8, <2>1 DEF Call, ReadAccount, CheckGrant, Ensure, GoIf
    <2> QED BY <2>2 DEF Calm
  <1>9. CASE CheckWorkspace(c)
    <2>1. /\ k.at = "workspace" /\ Calm(c) /\ k.grant # None /\ mapping[a].user = k.user
          /\ mapping' = mapping /\ k.purpose \in {"provision", "session"}
      BY <1>1, <1>9 DEF CheckWorkspace, Ensure, GoIf, Calm, CallOK, Call, Purposes, database
    <2>2. j \in {[k EXCEPT !.at = "user", !.purpose = "session"], [k EXCEPT !.at = "insert"]}
      BY <1>1, <1>9, <2>1 DEF CheckWorkspace, Ensure, GoIf
    <2>3. /\ j.at \in {"user", "insert"} /\ j.purpose \in {"provision", "session"}
          /\ j.grant = k.grant /\ j.user = k.user
      BY <1>1, <2>1, <2>2 DEF Call
    <2> QED BY <2>1, <2>3 DEF Calm
  <1>10. ~DeleteSessions(c) /\ ~Insert(c)
    BY <1>1 DEF DeleteSessions, Insert, GoIf
  <1> QED BY <1>2, <1>3, <1>4, <1>5, <1>6, <1>7, <1>8, <1>9, <1>10, OwnStep DEF Check

LEMMA NextCalm == Inv /\ CalmInv /\ [Next]_vars => CalmInv'
  <1> SUFFICES ASSUME Inv, CalmInv, [Next]_vars PROVE CalmInv'
    OBVIOUS
  <1>1. CASE UNCHANGED vars
    BY <1>1 DEF vars, database, CalmInv, Calm, Favoured, Welcome, Ids
  <1>2. CASE Next
    <2> SUFFICES ASSUME NEW c \in Callers, Favoured(c)', call[c].at = "idle" \/ c \in undisturbed
                 PROVE  Calm(c)'
      BY <1>2 DEF Next, CalmInv
    <2>1. CASE call'[c] # call[c]
      BY <2>1, OwnCalm DEF CalmInv
    <2>2. CASE call'[c] = call[c]
      <3>1. Calm(c)
        <4>1. call[c].at # "idle"
          BY <2>2, Known DEF CallOK, Favoured
        <4> QED BY <4>1 DEF CalmInv
      <3>2. call[c].at \in {"user", "mapping"} =>
              mapping'[call[c].grant.agent].user = mapping[call[c].grant.agent].user
        BY <3>1, SameUser, Known DEF Calm, Favoured, CallOK, Checking
      <3> QED BY <2>2, <3>1, <3>2 DEF Calm
    <2> QED BY <2>1, <2>2
  <1> QED BY <1>1, <1>2

\* A sign-in that repeats what earlier ones began is not refused: each step of
\* provisionPersonalGoogleUser() takes over what it finds.
LEMMA NotRefused ==
  ASSUME Inv, [Next]_vars, NEW c \in Callers, Calm(c),
         call[c].at # "insert", failures' = failures
  PROVE  call'[c].at \notin {"idle", "denied"}
  <1> DEFINE k == call[c]
             a == k.grant.agent
  <1>1. /\ k \in Call /\ CallOK(c) /\ k.grant # None /\ a \in Agents
        /\ \A j : call' = [call EXCEPT ![c] = j] => call'[c] = j
        /\ mistake = None /\ k.at \notin {"idle", "denied"}
        /\ portal[a] = k.grant /\ Welcome(a)
        /\ k.at \notin {"lock", "write"} => mapping[a].grant = k.grant
    BY Known DEF Calm, Favoured, Welcome
  <1>2. CASE call'[c] = k
    BY <1>1, <1>2
  <1>3. ~Fail(c) /\ ~(\E b \in Agents : SignIn(c, b)) /\ ~(\E u \in Ids : Request(c, u))
    <2>1. failures \in Nat
      BY BoundAssumption DEF Inv, DataOK
    <2>2. ~Fail(c)
      BY <2>1 DEF Fail
    <2>3. (\A b \in Agents : ~SignIn(c, b)) /\ \A u \in Ids : ~Request(c, u)
      BY <1>1 DEF SignIn, Request
    <2> QED BY <2>2, <2>3
  <1>4. \A to : call' = [call EXCEPT ![c] = [k EXCEPT !.at = to]] => call'[c].at = to
    BY <1>1 DEF Call
  <1>5. CASE TxRead(c)
    <2>1. mapping[a].user \in Ids \union {0}
      BY <1>1 DEF Inv, DataOK
    <2>2. call'[c] = [k EXCEPT !.at = "write", !.user = mapping[a].user]
      BY <1>1, <1>5, <2>1 DEF TxRead, GoIf, Welcome, Disabled
    <2>3. call'[c].at = "write"
      BY <1>1, <2>2 DEF Call
    <2> QED BY <2>3
  <1>6. CASE TxWrite(c)
    <2> DEFINE u == IF k.user = 0 THEN Len(users) + 1 ELSE k.user
    <2>1. k.user = mapping[a].user /\ 0 \notin Ids
      BY <1>1, <1>6 DEF TxWrite, GoIf, CallOK, Ids
    <2>2. Unique(u, k.grant)
      BY <1>1, <2>1 DEF Unique, Welcome
    <2>3. call'[c] = [k EXCEPT !.at = "organisation", !.user = u]
      BY <1>1, <1>6, <2>2 DEF TxWrite, GoIf
    <2>4. call'[c].at = "organisation"
      BY <1>1, <2>3 DEF Call
    <2> QED BY <2>4
  <1>7. CASE FindOrganisation(c) \/ CreateOrganisation(c) \/ FindTeam(c) \/ CreateTeam(c)
             \/ Settings(c)
    <2>1. PICK to : /\ to \notin {"idle", "denied"}
                    /\ call' = [call EXCEPT ![c] = [k EXCEPT !.at = to]]
      BY <1>7 DEF FindOrganisation, CreateOrganisation, FindTeam, CreateTeam, Settings, Go
    <2> QED BY <1>4, <2>1
  <1>8. CASE CheckMembers(c)
    <2>1. owner[a] = k.user /\ ~OtherMembers(a)
      BY <1>1, <1>8, NoneAssumption
         DEF CheckMembers, GoIf, CallOK, Building, Inv, OneUserPerAgent, OtherMembers
    <2>2. call' = [call EXCEPT ![c] = [k EXCEPT !.at = "team"]]
      BY <1>8, <2>1 DEF CheckMembers, GoIf
    <2> QED BY <1>4, <2>2
  <1>9. ASSUME k.at \in Checking
        PROVE  k.user # 0 /\ Ready(k.user) /\ mapping[a].user = k.user
    BY <1>1, <1>9 DEF CallOK, Calm, Checking
  <1>10. CASE ReadUser(c)
    <2>1. call'[c] = [k EXCEPT !.at = "mapping", !.email = users[k.user]]
      BY <1>1, <1>10 DEF ReadUser, Ensure, GoIf, Disabled
    <2>2. call'[c].at = "mapping"
      BY <1>1, <2>1 DEF Call
    <2> QED BY <2>2
  <1>11. CASE ReadMapping(c)
    <2>1. /\ k.at = "mapping" /\ k.user # 0 /\ mapping[a].user = k.user
          /\ k.email = mapping[a].grant.id.email
      BY <1>1, <1>9, <1>11 DEF ReadMapping, Ensure, GoIf, Checking, Calm
    <2>2. \A b \in Agents : mapping[b].user = k.user => b = a
      BY <1>1, <2>1 DEF Inv, OneUserPerAgent
    <2>3. call'[c] = [k EXCEPT !.at = "account", !.grant = mapping[a].grant, !.email = None]
      BY <1>1, <1>11, <2>1, <2>2 DEF ReadMapping, Ensure, GoIf
    <2>4. call'[c].at = "account"
      BY <1>1, <2>3 DEF Call
    <2> QED BY <2>4
  <1>12. CASE ReadAccount(c)
    <2>1. k.at = "account" /\ mapping[a].user = k.user /\ mapping[a].user # 0
      BY <1>9, <1>12 DEF ReadAccount, Ensure, GoIf, Checking
    <2>2. account[k.grant.id.subject] = k.user
      BY <1>1, <2>1 DEF Inv, MappingIsWhole, IsMapped
    <2> QED BY <1>4, <1>12, <2>2 DEF ReadAccount, Ensure, GoIf
  <1>13. CASE CheckGrant(c)
    BY <1>1, <1>4, <1>13 DEF CheckGrant, Ensure, GoIf, Granted
  <1>14. CASE CheckWorkspace(c)
    <2>1. k.at = "workspace" /\ k.user # 0 /\ Ready(k.user) /\ mapping[a].user = k.user
      BY <1>9, <1>14 DEF CheckWorkspace, Ensure, GoIf, Checking
    <2>2. owner[a] = k.user
      BY <1>1, <2>1 DEF Ready, Inv, OneUserPerAgent
    <2>3. ~ForeignMember(k.user) /\ ~OtherMembers(a)
      BY <1>1, NoneAssumption DEF ForeignMember, OtherMembers
    <2>4. CASE k.purpose = "provision"
      <3>1. call'[c] = [k EXCEPT !.at = "user", !.purpose = "session"]
        BY <1>1, <1>14, <2>2, <2>3, <2>4 DEF CheckWorkspace, Ensure, GoIf
      <3>2. call'[c].at = "user"
        BY <1>1, <3>1 DEF Call
      <3> QED BY <3>2
    <2>5. CASE k.purpose = "session"
      <3>1. call' = [call EXCEPT ![c] = [k EXCEPT !.at = "insert"]]
        BY <1>14, <2>2, <2>3, <2>5 DEF CheckWorkspace, Ensure, GoIf
      <3> QED BY <1>4, <3>1
    <2> QED BY <1>1, <2>4, <2>5 DEF Call, Purposes, Calm
  <1>15. ~Insert(c) /\ ~DeleteSessions(c)
    BY <1>1 DEF Insert, DeleteSessions, GoIf
  <1> QED BY <1>2, <1>3, <1>5, <1>6, <1>7, <1>8, <1>10, <1>11, <1>12, <1>13, <1>14, <1>15,
          OwnStep DEF Provision, Check

\* Whatever failed or overlapping calls left behind, a sign-in that nothing disturbs
\* gets its session.
THEOREM Retryable == Spec => NeverTurnedAway
  <1>1. Init => CalmInv
    BY DEF Init, CalmInv
  <1>2. Inv /\ CalmInv /\ [Next]_vars =>
          [\A c \in undisturbed : call[c].at # "insert" /\ failures' = failures =>
             call'[c].at \notin {"idle", "denied"}]_vars
    BY NotRefused DEF CalmInv
  <1> QED BY <1>1, <1>2, Invariant, NextCalm, PTL DEF Spec, NeverTurnedAway
=============================================================================
