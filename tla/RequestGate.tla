---------------------------- MODULE RequestGate ----------------------------
(***************************************************************************)
(* Who gets through to a handler: the security middleware of main.py, the  *)
(* users and sessions of modules/security, and the members of a project    *)
(* (modules/projects).                                                     *)
(*                                                                         *)
(* The middleware runs on the event loop, one request at a time; handlers  *)
(* run in threads next to it and next to each other, and users, sessions   *)
(* and members may change between a check and what was checked for.  The   *)
(* checks of the middleware are one step: they read different tables, each *)
(* once.                                                                   *)
(* rgStore is the store in use: a session in memory keeps the role of the  *)
(* login, a session in PostgreSQL shows the role of the user.              *)
(*                                                                         *)
(* Abstracted: passwords and tokens; routes, to five kinds of requests;    *)
(* one project.  Expiry is a step that may happen to any session.  The     *)
(* rate limiter is the module RateLimiter: here it may refuse any request. *)
(* Not covered: the audit log, which nothing reads back.                   *)
(***************************************************************************)
EXTENDS Naturals, FiniteSets

CONSTANTS
  RgUser,        \* users, the first administrator among them
  RgAdmin,       \* the first administrator
  RgToken,       \* bound: sessions that are opened
  RgThread,      \* requests in progress at once
  RgMaxChanges,  \* bound: changes of users and members
  RgUpdate,      \* what users are changed to, [enabled, role]
  RgMembership   \* roles in the project that are given

ASSUME RequestGateAssumption ==
  /\ RgAdmin \in RgUser
  /\ RgToken # {}
  /\ RgUpdate \subseteq [enabled : BOOLEAN, role : {"admin", "developer", "user"}]
  /\ RgMembership \subseteq {"owner", "editor", "viewer"}
  /\ RgMaxChanges \in Nat

VARIABLES
  rgStore,     \* "memory" or "postgres"
  rgUser,      \* [RgUser -> [enabled, role]]
  rgSession,   \* [RgToken -> [state, user, role]]
  rgMember,    \* [RgUser -> role in the project]
  rgThread,    \* [RgThread -> request in progress]
  rgChanges,   \* changes of users and members so far
  rgRevoked    \* history: sessions that were there when their user was disabled

rgVars == <<rgStore, rgUser, rgSession, rgMember, rgThread, rgChanges, rgRevoked>>

RgRole == {"admin", "developer", "user"}
RgMemberRole == {"owner", "editor", "viewer", "none"}

\* task: for everybody; build: for developers; update: PATCH of a user; member:
\* POST of a member; logout.
RgKind == {"task", "build", "update", "member", "logout"}

RgThreadType ==
  [pc : {"idle", "open", "call", "allowed"}, kind : RgKind,
   token : RgToken, user : RgUser, role : RgRole]

AtEase == [pc |-> "idle", kind |-> "task", token |-> CHOOSE t \in RgToken : TRUE, user |-> RgAdmin,
           role |-> "user"]

\* A session that was popped or revoked, or has expired.
Gone == [state |-> "gone", user |-> RgAdmin, role |-> "user"]

RequestGateTypeOK ==
  /\ rgStore \in {"memory", "postgres"}
  /\ rgUser \in [RgUser -> [enabled : BOOLEAN, role : RgRole]]
  /\ rgSession \in [RgToken -> [state : {"unused", "live", "gone"}, user : RgUser, role : RgRole]]
  /\ rgMember \in [RgUser -> RgMemberRole]
  /\ rgThread \in [RgThread -> RgThreadType]
  /\ rgChanges \in 0..RgMaxChanges
  /\ rgRevoked \subseteq RgToken

\* The first administrator owns the project and has logged in; the others have
\* been created and are members.
RgInit ==
  /\ rgStore \in {"memory", "postgres"}
  /\ rgUser = [u \in RgUser |-> [enabled |-> TRUE, role |-> IF u = RgAdmin THEN "admin" ELSE "developer"]]
  /\ rgSession = [t \in RgToken |-> IF t = AtEase.token
                                   THEN [state |-> "live", user |-> RgAdmin, role |-> "admin"]
                                   ELSE [Gone EXCEPT !.state = "unused"]]
  /\ rgMember = [u \in RgUser |-> IF u = RgAdmin THEN "owner" ELSE "editor"]
  /\ rgThread = [q \in RgThread |-> AtEase]
  /\ rgChanges = 0
  /\ rgRevoked = {}

--------------------------------------------------------------------------
RgStep(q, pc, next) ==
  /\ rgThread[q].pc = pc
  /\ rgThread' = [rgThread EXCEPT ![q] = next]
  /\ UNCHANGED rgStore

KeepUsers == UNCHANGED <<rgUser, rgMember, rgChanges>>
KeepSessions == UNCHANGED <<rgSession, rgRevoked>>

(* login *)

Unopened == {t \in RgToken : rgSession[t].state = "unused"}

\* The user is read and the password verified, which takes its time.
Login(q, u) ==
  /\ Cardinality(Unopened) > Cardinality({o \in RgThread : rgThread[o].pc = "open"})
  /\ rgUser[u].enabled
  /\ RgStep(q, "idle", [AtEase EXCEPT !.pc = "open", !.user = u, !.role = rgUser[u].role])
  /\ KeepUsers /\ KeepSessions

\* The session is stored, whatever has become of the user.
OpenSession(q, t) ==
  LET w == rgThread[q] IN
  /\ t \in Unopened
  /\ RgStep(q, "open", AtEase)
  /\ rgSession' = [rgSession EXCEPT ![t] = [state |-> "live", user |-> w.user, role |-> w.role]]
  /\ KeepUsers /\ UNCHANGED rgRevoked

--------------------------------------------------------------------------
(* The middleware *)

\* authenticate: the session must be there and its user enabled.
Accepted(t) == rgSession[t].state = "live" /\ rgUser[rgSession[t].user].enabled

\* The role a request has: of its session, or of its user.
RoleOf(t) == IF rgStore = "memory" THEN rgSession[t].role ELSE rgUser[rgSession[t].user].role

RoleAllows(kind, role) ==
  /\ kind = "update" => role = "admin"
  /\ kind = "build" => role \in {"admin", "developer"}

\* The request t sends is let in as u: by its role, and by require_access of the
\* project, to write, which logout does without.
LetIn(t, kind) ==
  /\ Accepted(t) /\ RoleAllows(kind, RoleOf(t))
  /\ kind = "logout" \/ rgMember[rgSession[t].user] \in {"owner", "editor"}

\* With the store in memory authenticate drops a session it does not accept.
Refuse(q, t, kind) ==
  /\ rgSession[t].state # "unused" /\ ~LetIn(t, kind)
  /\ RgStep(q, "idle", AtEase)
  /\ rgSession' = IF ~Accepted(t) /\ rgStore = "memory"
                  THEN [rgSession EXCEPT ![t] = Gone] ELSE rgSession
  /\ KeepUsers /\ UNCHANGED rgRevoked

\* What follows changes nothing here when it creates a task or builds a version,
\* or when the limiter refuses.
Admit(q, t, kind) ==
  /\ LetIn(t, kind)
  /\ RgStep(q, "idle", IF kind \in {"task", "build"} THEN AtEase
                       ELSE [AtEase EXCEPT !.pc = "call", !.kind = kind, !.token = t,
                                           !.user = rgSession[t].user])
  /\ KeepUsers /\ KeepSessions

--------------------------------------------------------------------------
(* Handlers *)

\* A handler that is refused or fails.
CallFails(q) ==
  /\ RgStep(q, "call", AtEase)
  /\ KeepUsers /\ KeepSessions

CallLogout(q) ==
  LET w == rgThread[q] IN
  /\ w.kind = "logout"
  /\ RgStep(q, "call", AtEase)
  /\ rgSession' = [rgSession EXCEPT ![w.token] = Gone]
  /\ KeepUsers /\ UNCHANGED rgRevoked

SessionsOf(u) == {t \in RgToken : rgSession[t].state = "live" /\ rgSession[t].user = u}

\* Seeded fault: only the user is disabled.
UpdateUserOnly(q, u, new) ==
  LET w == rgThread[q] IN
  /\ w.kind = "update" /\ ~(u = w.user /\ ~new.enabled)
  /\ RgStep(q, "call", AtEase)
  /\ rgChanges < RgMaxChanges /\ rgChanges' = rgChanges + 1
  /\ rgUser' = [rgUser EXCEPT ![u] = new]
  /\ rgRevoked' = IF new.enabled THEN rgRevoked ELSE rgRevoked \union SessionsOf(u)
  /\ UNCHANGED <<rgMember, rgSession>>

\* PATCH /users/{id}: the user and its sessions change at once.  The account of
\* the request itself is not disabled.
UpdateUser(q, u, new) ==
  LET w == rgThread[q] IN
  /\ w.kind = "update" /\ ~(u = w.user /\ ~new.enabled)
  /\ RgStep(q, "call", AtEase)
  /\ rgChanges < RgMaxChanges /\ rgChanges' = rgChanges + 1
  /\ rgUser' = [rgUser EXCEPT ![u] = new]
  /\ rgSession' = [t \in RgToken |-> IF ~new.enabled /\ t \in SessionsOf(u)
                                     THEN Gone ELSE rgSession[t]]
  /\ rgRevoked' = IF new.enabled THEN rgRevoked ELSE rgRevoked \union SessionsOf(u)
  /\ UNCHANGED rgMember

\* add_member checks that the actor owns the project, and then stores.
CheckOwner(q) ==
  LET w == rgThread[q] IN
  /\ w.kind = "member"
  /\ RgStep(q, "call", IF rgMember[w.user] = "owner" THEN [w EXCEPT !.pc = "allowed"] ELSE AtEase)
  /\ KeepUsers /\ KeepSessions

AddMember(q, u, role) ==
  /\ RgStep(q, "allowed", AtEase)
  /\ rgChanges < RgMaxChanges /\ rgChanges' = rgChanges + 1
  /\ rgMember' = [rgMember EXCEPT ![u] = role]
  /\ KeepSessions /\ UNCHANGED rgUser

--------------------------------------------------------------------------
Expire(t) ==
  /\ rgSession[t].state = "live"
  /\ rgSession' = [rgSession EXCEPT ![t] = Gone]
  /\ KeepUsers /\ UNCHANGED <<rgStore, rgThread, rgRevoked>>

RgNext ==
  \/ \E q \in RgThread :
       \/ CallFails(q) \/ CallLogout(q) \/ CheckOwner(q)
       \/ \E u \in RgUser : Login(q, u)
       \/ \E t \in RgToken :
            \/ OpenSession(q, t)
            \/ \E kind \in RgKind : Refuse(q, t, kind) \/ Admit(q, t, kind)
       \/ \E u \in RgUser, new \in RgUpdate : UpdateUser(q, u, new)
       \/ \E u \in RgUser, role \in RgMembership : AddMember(q, u, role)
  \/ \E t \in RgToken : Expire(t)

\* The bounds are used up: no session is left to open, or no change to make.
RgIdle ==
  /\ Unopened = {} \/ rgChanges = RgMaxChanges
  /\ UNCHANGED rgVars

RgSpec == RgInit /\ [][RgNext \/ RgIdle]_rgVars
--------------------------------------------------------------------------
\* A session its user had when the user was disabled lets nothing through any
\* more, also after the user has been enabled again.
RevokedNeverServes ==
  [][\A q \in RgThread : rgThread[q].pc = "idle" /\ rgThread'[q].pc = "call"
                          => rgThread'[q].token \notin rgRevoked]_rgVars

\* With PostgreSQL a change of role counts from the next request on, for the
\* sessions that are open as well.
RoleIsCurrent ==
  [][\A q \in RgThread : rgStore = "postgres" /\ rgThread[q].pc = "idle" /\ rgThread'[q].pc = "call"
        => RoleAllows(rgThread'[q].kind, rgUser[rgThread'[q].user].role)]_rgVars
=============================================================================
