------------------------------ MODULE Identity ------------------------------
(***************************************************************************)
(* The credentials, workspace invites and human sessions of one             *)
(* organization (src/src/identity, src/src/persistence/identityStore.ts,    *)
(* src/src/http/auth.ts, src/src/http/humanSessions.ts and their routes in  *)
(* src/src/http/app.ts).                                                    *)
(*                                                                         *)
(* A request is authenticated once and acts later with the principal it was *)
(* given: a credential can be revoked, an invite consumed and a session end *)
(* in between.  A human session speaks for the service credential at the    *)
(* root of the chain of invites and sessions it came from.                  *)
(***************************************************************************)
EXTENDS Naturals, FiniteSets

CONSTANTS
  Accounts,         \* service accounts
  RoleOf,           \* their roles
  Agents,           \* agent ids
  ServiceKeys,      \* service credential ids
  AgentKeys,        \* agent credential ids
  Invites,          \* invite ids (and tokens)
  Sessions,         \* human session ids (and tokens)
  Requests,         \* HTTP requests being served
  Grants,           \* the capability sets credentials are asked for
  FirstKey, FirstAccount,   \* of the bootstrap
  InviteLife, SessionLife, MaxTime,
  NoRoot

VARIABLES
  now,
  agent,            \* agent_identities: registered or not
  serviceKey,       \* service_account_credentials
  agentKey,         \* api_credentials
  invite,           \* workspace_invites
  session,          \* human_sessions
  request,          \* the requests being served
  rootOf,           \* history: the service credential at the root of a session or an invite
  inviteOf          \* history: the invite a session was opened with

identityVars ==
  <<now, agent, serviceKey, agentKey, invite, session, request, rootOf, inviteOf>>

Roles == {"admin", "operator", "viewer"}

(* Ids are drawn apart for each table; the life of an invite and of a session *)
(* is a constant of the code, and neither is zero.                           *)
ASSUME IdentityAssumption ==
  /\ RoleOf \in [Accounts -> Roles] /\ FirstAccount \in Accounts
  /\ Sessions \cap (ServiceKeys \cup Invites) = {} /\ NoRoot \notin Invites
  /\ MaxTime \in Nat /\ {InviteLife, SessionLife} \subseteq Nat \ {0}

(* API_CAPABILITIES, those no modelled operation asks for left out. *)
Capabilities ==
  {"inference:invoke", "policies:read", "sandbox:run", "agents:write",
   "credentials:issue", "credentials:revoke"}

RoleCapabilities ==
  [admin |-> Capabilities,
   operator |-> {"inference:invoke", "policies:read", "sandbox:run"},
   viewer |-> {"policies:read"}]

HumanCapabilities ==
  [admin |-> Capabilities,
   operator |-> {"policies:read", "sandbox:run"},
   viewer |-> {"policies:read"}]

AgentCapabilities == {"inference:invoke"}

Never == MaxTime + 1
Absent == [status |-> "absent"]

Principal(kind, key, role, capabilities, source) ==
  [kind |-> kind, key |-> key, role |-> role, capabilities |-> capabilities, source |-> source]

Idle == [at |-> "idle"]

IdentityInit ==
  /\ now = 0
  /\ agent = [a \in Agents |-> FALSE]
  /\ serviceKey = [c \in ServiceKeys |->
       IF c = FirstKey
       THEN [status |-> "active", account |-> FirstAccount, capabilities |-> Capabilities,
             expires |-> Never]
       ELSE Absent]
  /\ agentKey = [c \in AgentKeys |-> Absent]
  /\ invite = [i \in Invites |-> Absent]
  /\ session = [s \in Sessions |-> Absent]
  /\ request = [x \in Requests |-> Idle]
  /\ rootOf = [s \in Sessions \cup Invites |-> NoRoot]
  /\ inviteOf = [s \in Sessions |-> NoRoot]

Serving(x, place) == request[x].at = place
End(x) == request' = [request EXCEPT ![x] = Idle]
Admit(x, principal) == request' = [request EXCEPT ![x] = [at |-> "admitted", as |-> principal]]

-----------------------------------------------------------------------------
(* Authentication. *)

ServiceKeyActive(c) == serviceKey[c].status = "active" /\ now < serviceKey[c].expires

AuthenticateService(x, c) ==
  /\ Serving(x, "idle")
  /\ ServiceKeyActive(c)
  /\ LET role == RoleOf[serviceKey[c].account] IN
     /\ serviceKey[c].capabilities \subseteq RoleCapabilities[role]
     /\ Admit(x, Principal("service_account", c, role, serviceKey[c].capabilities, c))
  /\ UNCHANGED <<now, agent, serviceKey, agentKey, invite, session, rootOf, inviteOf>>

AuthenticateAgent(x, c) ==
  /\ Serving(x, "idle")
  /\ agentKey[c].status = "active"
  /\ now < agentKey[c].expires
  /\ Admit(x, Principal("agent", c, "none", agentKey[c].capabilities, c))
  /\ UNCHANGED <<now, agent, serviceKey, agentKey, invite, session, rootOf, inviteOf>>

SessionOpen(s) == session[s].status = "active" /\ now < session[s].expires

ResolveSession(x, s) ==
  /\ Serving(x, "idle")
  /\ SessionOpen(s)
  /\ request' = [request EXCEPT ![x] = [at |-> "resolved", session |-> s]]
  /\ UNCHANGED <<now, agent, serviceKey, agentKey, invite, session, rootOf, inviteOf>>

(* Faulty: any credential that exists. *)
SourceKnown(c) == c \in ServiceKeys /\ serviceKey[c].status # "absent"

SourceActive(c) == c \in ServiceKeys /\ ServiceKeyActive(c)

CheckSource(x) ==
  LET s == request[x].session
      role == session[s].role
  IN  /\ Serving(x, "resolved")
      /\ \/ /\ SourceActive(session[s].source)
            /\ Admit(x, Principal("service_account", s, role, HumanCapabilities[role],
                                  session[s].source))
         \/ /\ ~SourceActive(session[s].source)
            /\ End(x)
      /\ UNCHANGED <<now, agent, serviceKey, agentKey, invite, session, rootOf, inviteOf>>

(* requireServiceAccount and the capability guards of the routes. *)
May(x, capability) ==
  /\ Serving(x, "admitted")
  /\ request[x].as.kind = "service_account"
  /\ request[x].as.role = "admin"
  /\ capability \in request[x].as.capabilities

(* The request is refused, only reads, or is dropped with its process. *)
Leave(x) ==
  /\ ~Serving(x, "idle")
  /\ End(x)
  /\ UNCHANGED <<now, agent, serviceKey, agentKey, invite, session, rootOf, inviteOf>>

-----------------------------------------------------------------------------
(* Agents and credentials. *)
RegisterAgent(x, a) ==
  /\ May(x, "agents:write")
  /\ ~agent[a]
  /\ agent' = [agent EXCEPT ![a] = TRUE]
  /\ End(x)
  /\ UNCHANGED <<now, serviceKey, agentKey, invite, session, rootOf, inviteOf>>

IssueAgentKey(x, c, a, grant, expires) ==
  /\ May(x, "credentials:issue")
  /\ agentKey[c] = Absent
  /\ agent[a]
  /\ grant # {} /\ grant \subseteq AgentCapabilities
  /\ expires > now
  /\ agentKey' = [agentKey EXCEPT ![c] =
       [status |-> "active", agent |-> a, capabilities |-> grant, expires |-> expires]]
  /\ End(x)
  /\ UNCHANGED <<now, agent, serviceKey, invite, session, rootOf, inviteOf>>

RevokeAgentKey(x, c) ==
  /\ May(x, "credentials:revoke")
  /\ agentKey[c].status = "active"
  /\ agentKey' = [agentKey EXCEPT ![c].status = "revoked"]
  /\ End(x)
  /\ UNCHANGED <<now, agent, serviceKey, invite, session, rootOf, inviteOf>>

IssueServiceKey(x, c, account, grant, expires) ==
  /\ May(x, "credentials:issue")
  /\ serviceKey[c] = Absent
  /\ grant # {} /\ grant \subseteq RoleCapabilities[RoleOf[account]]
  /\ expires > now
  /\ serviceKey' = [serviceKey EXCEPT ![c] =
       [status |-> "active", account |-> account, capabilities |-> grant, expires |-> expires]]
  /\ End(x)
  /\ UNCHANGED <<now, agent, agentKey, invite, session, rootOf, inviteOf>>

RevokeServiceKey(x, c) ==
  /\ May(x, "credentials:revoke")
  /\ serviceKey[c].status = "active"
  /\ serviceKey' = [serviceKey EXCEPT ![c].status = "revoked"]
  /\ End(x)
  /\ UNCHANGED <<now, agent, agentKey, invite, session, rootOf, inviteOf>>

-----------------------------------------------------------------------------
(* Invites. *)

(* The credential an invite speaks for: the source of a session. *)
SourceOf(principal) == principal.source

(* Followed back through the sessions. *)
Root(key) == IF key \in Sessions THEN rootOf[key] ELSE key

IssueInvite(x, i, role) ==
  /\ May(x, "credentials:issue")
  /\ invite[i] = Absent
  /\ invite' = [invite EXCEPT ![i] =
       [status |-> "open", role |-> role, source |-> SourceOf(request[x].as),
        expires |-> now + InviteLife]]
  /\ rootOf' = [rootOf EXCEPT ![i] = Root(request[x].as.key)]
  /\ End(x)
  /\ UNCHANGED <<now, agent, serviceKey, agentKey, session, inviteOf>>

RevokeInvite(x, i) ==
  /\ May(x, "credentials:revoke")
  /\ invite[i].status = "open"
  /\ invite' = [invite EXCEPT ![i].status = "revoked"]
  /\ End(x)
  /\ UNCHANGED <<now, agent, serviceKey, agentKey, session, rootOf, inviteOf>>

(* Faulty: forgets that it was accepted. *)
ConsumableAgain(i) == invite[i].status \in {"open", "accepted"} /\ now < invite[i].expires

Consumable(i) == invite[i].status = "open" /\ now < invite[i].expires

(* consumeWorkspaceInvite, without looking at the credential behind it. *)
ConsumeWorkspaceInvite(x, i) ==
  /\ Serving(x, "idle")
  /\ Consumable(i)
  /\ invite' = [invite EXCEPT ![i].status = "accepted"]
  /\ request' = [request EXCEPT ![x] = [at |-> "accepting", invite |-> i, since |-> now]]
  /\ UNCHANGED <<now, agent, serviceKey, agentKey, session, rootOf, inviteOf>>

Earlier(s, t) == IF s < t THEN s ELSE t

(* The session of an accepted invite, put in a transaction of its own. *)
PutInvitedSession(x, s) ==
  LET i == request[x].invite IN
  /\ Serving(x, "accepting")
  /\ session[s] = Absent
  /\ session' = [session EXCEPT ![s] =
       [status |-> "active", role |-> invite[i].role, source |-> invite[i].source,
        expires |-> Earlier(request[x].since + SessionLife, invite[i].expires)]]
  /\ rootOf' = [rootOf EXCEPT ![s] = rootOf[i]]
  /\ inviteOf' = [inviteOf EXCEPT ![s] = i]
  /\ End(x)
  /\ UNCHANGED <<now, agent, serviceKey, agentKey, invite>>

-----------------------------------------------------------------------------
(* Sessions of service accounts, and their end. *)
CreateSession(x, s, expires) ==
  LET principal == request[x].as IN
  /\ Serving(x, "admitted")
  /\ principal.kind = "service_account"
  /\ principal.key \in ServiceKeys
  /\ session[s] = Absent
  /\ now < expires /\ expires <= now + SessionLife
  /\ session' = [session EXCEPT ![s] =
       [status |-> "active", role |-> principal.role, source |-> principal.key,
        expires |-> expires]]
  /\ rootOf' = [rootOf EXCEPT ![s] = Root(principal.key)]
  /\ End(x)
  /\ UNCHANGED <<now, agent, serviceKey, agentKey, invite, inviteOf>>

SignOut(s) ==
  /\ SessionOpen(s)
  /\ session' = [session EXCEPT ![s].status = "revoked"]
  /\ UNCHANGED <<now, agent, serviceKey, agentKey, invite, request, rootOf, inviteOf>>

RevokeSession(x, s) ==
  /\ May(x, "policies:read")
  /\ session[s].status = "active"
  /\ session' = [session EXCEPT ![s].status = "revoked"]
  /\ End(x)
  /\ UNCHANGED <<now, agent, serviceKey, agentKey, invite, rootOf, inviteOf>>

Tick ==
  /\ now < MaxTime
  /\ now' = now + 1
  /\ UNCHANGED <<agent, serviceKey, agentKey, invite, session, request, rootOf, inviteOf>>

IdentityNext ==
  \/ \E x \in Requests :
       \/ \E c \in ServiceKeys :
            \/ AuthenticateService(x, c)
            \/ RevokeServiceKey(x, c)
            \/ \E a \in Accounts, g \in Grants, e \in 1..Never : IssueServiceKey(x, c, a, g, e)
       \/ \E c \in AgentKeys :
            \/ AuthenticateAgent(x, c)
            \/ RevokeAgentKey(x, c)
            \/ \E a \in Agents, g \in Grants, e \in 1..Never : IssueAgentKey(x, c, a, g, e)
       \/ \E a \in Agents : RegisterAgent(x, a)
       \/ \E i \in Invites :
            \/ \E role \in Roles : IssueInvite(x, i, role)
            \/ RevokeInvite(x, i)
            \/ ConsumeWorkspaceInvite(x, i)
       \/ \E s \in Sessions :
            \/ ResolveSession(x, s)
            \/ PutInvitedSession(x, s)
            \/ \E e \in 1..Never : CreateSession(x, s, e)
            \/ RevokeSession(x, s)
       \/ CheckSource(x)
       \/ Leave(x)
  \/ \E s \in Sessions : SignOut(s)
  \/ Tick

IdentitySpec == IdentityInit /\ [][IdentityNext]_identityVars

-----------------------------------------------------------------------------
PrincipalRecord ==
  [kind : {"agent", "service_account"}, key : ServiceKeys \cup AgentKeys \cup Sessions,
   role : Roles \cup {"none"}, capabilities : SUBSET Capabilities,
   source : ServiceKeys \cup AgentKeys]

Times == 0..(MaxTime + InviteLife + SessionLife)

(* Rows and principals keep their shape; above all a session and an invite   *)
(* name a service credential as their source, never a session.               *)
IdentityTypeOK ==
  /\ now \in 0..MaxTime
  /\ agent \in [Agents -> BOOLEAN]
  /\ serviceKey \in [ServiceKeys -> {Absent} \cup
       [status : {"active", "revoked"}, account : Accounts,
        capabilities : SUBSET Capabilities, expires : Times]]
  /\ agentKey \in [AgentKeys -> {Absent} \cup
       [status : {"active", "revoked"}, agent : Agents,
        capabilities : SUBSET AgentCapabilities, expires : Times]]
  /\ invite \in [Invites -> {Absent} \cup
       [status : {"open", "accepted", "revoked"}, role : Roles, source : ServiceKeys,
        expires : Times]]
  /\ session \in [Sessions -> {Absent} \cup
       [status : {"active", "revoked"}, role : Roles, source : ServiceKeys, expires : Times]]
  /\ request \in [Requests -> {Idle} \cup [at : {"admitted"}, as : PrincipalRecord]
       \cup [at : {"resolved"}, session : Sessions]
       \cup [at : {"accepting"}, invite : Invites, since : Times]]

(* A session has one origin.  The invite it came from opened no other, and   *)
(* was not revoked: of two acceptances, or of an acceptance and a revocation, *)
(* that race, one wins.  However long the chain of invites and sessions      *)
(* behind it, it names the service credential the chain started from and has *)
(* no more than the role of that credential's account.                       *)
SessionsHaveOneOrigin ==
  /\ IdentityTypeOK
  /\ \A s \in Sessions :
       /\ inviteOf[s] # NoRoot =>
            /\ invite[inviteOf[s]].status = "accepted"
            /\ \A t \in Sessions : inviteOf[t] = inviteOf[s] => t = s
       /\ session[s] # Absent =>
            /\ session[s].source = rootOf[s]
            /\ HumanCapabilities[session[s].role] \subseteq
                 RoleCapabilities[RoleOf[serviceKey[rootOf[s]].account]]

(* A session authenticates nothing once the credential at its root is        *)
(* revoked or expired: revoking one credential ends every session that       *)
(* descends from it.                                                         *)
SessionsEndWithTheirRoot ==
  [][\A x \in Requests :
       Serving(x, "resolved") /\ request'[x].at = "admitted" =>
         ServiceKeyActive(rootOf[request[x].session])]_identityVars
=============================================================================
