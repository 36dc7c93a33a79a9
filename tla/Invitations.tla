----------------------------- MODULE Invitations -----------------------------
(* Accounts and invitations: an administrator invites an address, its owner  *)
(* registers or logs in and joins the organization; links to verify an       *)
(* address and to reset a password. One action per statement of the two      *)
(* databases and per call of OpenPath or of the mail provider.               *)
(* A user is identified with their email address, which both databases keep  *)
(* unique.                                                                   *)
EXTENDS Tenants, Integers, FiniteSets

CONSTANTS
  Invites,          \* identifiers of invitations; each goes with a link of its own
  Wanted,           \* the invitations administrators want to make
  InitialAccounts,  \* users who have an OpenPath account before
  InitialMembers,   \* the membership each user has before
  Requested,        \* the kinds of requests clients make in this instance
  Handlers,
  MaxSecrets, MaxTime, MaxFaults

Roles == {"admin", "teacher"}
TTL == 1

\* via: the invitation a membership comes from. It tells two rows of a user in
\* one organization apart, as the row's identifier does.
Membership == [org : Orgs, role : Roles, via : Invites \union {None}]

Account == [verified : BOOLEAN, google : BOOLEAN]

InvitationType ==
  [org : Orgs, user : Users, role : Roles, expires : Nat, sent : BOOLEAN, live : BOOLEAN]

Kinds == {"invite", "open", "pending", "register", "google", "resend", "reset"}

InvitationsAssumption ==
  /\ None \notin Users \union Orgs \union Invites /\ None \notin Kinds
  /\ None \notin Account /\ None \notin InvitationType /\ None \notin Membership
  /\ Requested \subseteq Kinds
  /\ Wanted \subseteq [org : Orgs, user : Users, role : Roles]
  /\ InitialAccounts \subseteq Users
  /\ InitialMembers \in [Users -> Membership \union {None}]
  /\ \A u \in Users : InitialMembers[u] /= None => InitialMembers[u].via = None
  /\ MaxSecrets \in Nat /\ MaxTime \in Nat /\ MaxFaults \in Nat

VARIABLES
  accounts,     \* OpenPath users: None, or whether their address is verified and Google linked
  secrets,      \* verification and reset tokens that are stored
  mailbox,      \* those whose link was mailed
  invitations,  \* cp_invitations; a row that was deleted stays, no longer live
  members,      \* cp_memberships
  waiting,      \* cp_user_status: users who wait for an invitation
  mirror,       \* the OpenPath role row
  terms,        \* cp_terms_acceptance
  audits,       \* audit events of invitations and of reset tokens
  handlers, now, faults

openpath == <<accounts, secrets, mirror>>
classroompath == <<invitations, members, waiting, terms, audits>>
world == <<mailbox, now, faults>>
vars == <<openpath, classroompath, world, handlers>>

Purposes == {"verify", "reset"}
Secret == [purpose : Purposes, user : Users, n : 1 .. MaxSecrets]

\* user: whom the request is about; link: the invitation in its link; invite:
\* the one it works on; secret: the token it has drawn; row: the membership it
\* has read; new: it registers the account it works for.
Handling(kind, stage, user, link, invite) ==
  [kind |-> kind, stage |-> stage, user |-> user, link |-> link, invite |-> invite,
   secret |-> None, row |-> None, new |-> FALSE]

Idle == Handling(None, "idle", None, None, None)

At(h, stage) == handlers[h].stage = stage
Goto(h, stage) == handlers' = [handlers EXCEPT ![h].stage = stage]
End(h) == handlers' = [handlers EXCEPT ![h] = Idle]

Init ==
  /\ accounts = [u \in Users |-> IF u \in InitialAccounts THEN [verified |-> TRUE, google |-> FALSE] ELSE None]
  /\ secrets = {} /\ mailbox = {}
  /\ invitations = [i \in Invites |-> None]
  /\ members = InitialMembers
  /\ waiting = {u \in Users : InitialMembers[u] = None}
  /\ mirror = [u \in Users |-> IF InitialMembers[u] = None THEN None ELSE InitialMembers[u].role]
  /\ terms = {} /\ audits = {}
  /\ handlers = [h \in Handlers |-> Idle]
  /\ now = 0 /\ faults = 0

Live(i) == invitations[i] /= None /\ invitations[i].live
Active(i) == Live(i) /\ invitations[i].expires > now
Deleted(i) == [invitations EXCEPT ![i].live = FALSE]

Begin(h, kind, stage, u, i) ==
  /\ At(h, "idle") /\ kind \in Requested
  /\ handlers' = [handlers EXCEPT ![h] = Handling(kind, stage, u, i, i)]
  /\ UNCHANGED <<openpath, classroompath, world>>

LoggedIn(u) == accounts[u] /= None /\ accounts[u].verified

-----------------------------------------------------------------------------
(* createOrganizationInvitation and generateTenantResetToken *)

\* The unique index counts a row whose time is over like any other.
Clash(c) == \E i \in Invites : Live(i) /\ invitations[i].org = c.org /\ invitations[i].user = c.user

Invite(h, i, c) ==
  /\ At(h, "idle") /\ invitations[i] = None
  /\ ~Clash(c)
  /\ invitations' = [invitations EXCEPT ![i] =
                       [org |-> c.org, user |-> c.user, role |-> c.role, expires |-> now + TTL,
                        sent |-> FALSE, live |-> TRUE]]
  /\ handlers' = [handlers EXCEPT ![h] = Handling("invite", "audit", c.user, None, i)]
  /\ UNCHANGED <<openpath, members, waiting, terms, audits, world>>

\* Only a member of the organization, who has an account.
Reset(h, u) == accounts[u] /= None /\ members[u] /= None /\ Begin(h, "reset", "drop", u, None)

SubjectOf(h) == IF handlers[h].kind = "invite" THEN handlers[h].invite ELSE handlers[h].secret

Audit(h) ==
  /\ At(h, "audit")
  /\ audits' = audits \union {SubjectOf(h)}
  /\ Goto(h, "mail")
  /\ UNCHANGED <<openpath, invitations, members, waiting, terms, world>>

\* A link reaches its address, or the provider is off or refuses. The mail of a
\* verification link is best effort: its caller learns only whether it was sent.
Mail(h, sent) ==
  LET r == handlers[h] IN
  /\ At(h, "mail")
  /\ mailbox' = IF sent /\ r.kind /= "invite" THEN mailbox \union {r.secret} ELSE mailbox
  /\ invitations' = IF sent /\ r.kind = "invite" /\ Live(r.invite)
                    THEN [invitations EXCEPT ![r.invite].sent = TRUE] ELSE invitations
  /\ IF sent \/ r.kind \notin {"invite", "reset"} THEN End(h) ELSE Goto(h, "undo")
  /\ UNCHANGED <<openpath, members, waiting, terms, audits, now, faults>>

\* The invitation by its identifier; every reset token of the user.
Undo(h) ==
  LET r == handlers[h] IN
  /\ At(h, "undo")
  /\ invitations' = IF r.kind = "invite" THEN Deleted(r.invite) ELSE invitations
  /\ secrets' = IF r.kind = "reset" THEN {s \in secrets : s.purpose = "reset" => s.user /= r.user}
                                    ELSE secrets
  /\ Goto(h, "unaudit")
  /\ UNCHANGED <<accounts, mirror, members, waiting, terms, audits, world>>

UndoAudit(h) ==
  /\ At(h, "unaudit")
  /\ audits' \in {audits, audits \ {SubjectOf(h)}}
  /\ End(h)
  /\ UNCHANGED <<openpath, invitations, members, waiting, terms, world>>

\* Administrators see, and revoke, what has not expired.
Revoke(h, i) ==
  /\ At(h, "idle") /\ Active(i)
  /\ invitations' = Deleted(i)
  /\ UNCHANGED <<openpath, members, waiting, terms, audits, world, handlers>>

-----------------------------------------------------------------------------
(* Tokens: replacePasswordResetToken, replaceEmailVerificationToken *)

PurposeOf(h) == IF handlers[h].kind = "reset" THEN "reset" ELSE "verify"

\* The old tokens are deleted by one statement, the new one inserted by another.
Drop(h) ==
  /\ At(h, "drop")
  /\ secrets' = {s \in secrets : s.user /= handlers[h].user \/ s.purpose /= PurposeOf(h)}
  /\ Goto(h, "put")
  /\ UNCHANGED <<accounts, mirror, classroompath, world>>

AfterPut(h) ==
  CASE handlers[h].kind = "reset" -> "audit"
    [] handlers[h].kind = "open"  -> "verify"
    [] OTHER                      -> "mail"

\* A token is never drawn twice. In this model its number may be, once the token
\* is gone: its old link and the record of it are forgotten.
Fresh(s) == s \notin secrets /\ \A h \in Handlers : handlers[h].secret /= s
Drawn(h) == {s \in Secret : s.purpose = PurposeOf(h) /\ s.user = handlers[h].user /\ Fresh(s)}

\* Mutant: the token is drawn and mailed, and never stored.
PutNothing(h) ==
  /\ At(h, "put")
  /\ \E s \in Drawn(h) :
       /\ mailbox' = mailbox \ {s}
       /\ audits' = audits \ {s}
       /\ handlers' = [handlers EXCEPT ![h].stage = AfterPut(h), ![h].secret = s]
  /\ UNCHANGED <<openpath, invitations, members, waiting, terms, now, faults>>

Put(h) ==
  /\ At(h, "put")
  /\ \E s \in Drawn(h) :
       /\ secrets' = secrets \union {s}
       /\ mailbox' = mailbox \ {s}
       /\ audits' = audits \ {s}
       /\ handlers' = [handlers EXCEPT ![h].stage = AfterPut(h), ![h].secret = s]
  /\ UNCHANGED <<accounts, mirror, invitations, members, waiting, terms, now, faults>>

\* generateEmailVerificationDelivery: for an account that is not verified.
Resend(h, u) ==
  accounts[u] /= None /\ ~accounts[u].verified /\ Begin(h, "resend", "drop", u, None)

\* OpenPath, for the owner of the mailbox: a stored token verifies the address,
\* or changes the password, once.
FollowLink(s) ==
  /\ s \in mailbox /\ s \in secrets
  /\ secrets' = secrets \ {s}
  /\ accounts' = IF s.purpose = "verify" THEN [accounts EXCEPT ![s.user].verified = TRUE] ELSE accounts
  /\ UNCHANGED <<mirror, classroompath, world, handlers>>

-----------------------------------------------------------------------------
(* registerSelfServiceUser and signUpWithGoogle *)

SignUp(h, u) == Begin(h, "register", "register", u, None)

\* OpenPath refuses an address it knows. It may answer with a token it has
\* stored; if not, this server stores one.
Register(h) ==
  LET u == handlers[h].user IN
  /\ At(h, "register")
  /\ \/ accounts[u] /= None /\ End(h) /\ UNCHANGED <<accounts, secrets, mailbox>>
     \/ /\ accounts[u] = None
        /\ accounts' = [accounts EXCEPT ![u] = [verified |-> FALSE, google |-> FALSE]]
        /\ \/ \E s \in Drawn(h) :
                /\ secrets' = secrets \union {s}
                /\ mailbox' = mailbox \ {s}
                /\ handlers' = [handlers EXCEPT ![h].stage = "terms", ![h].secret = s]
           \/ Goto(h, "terms") /\ UNCHANGED <<secrets, mailbox>>
  /\ UNCHANGED <<mirror, classroompath, now, faults>>

AfterTerms(h) ==
  LET r == handlers[h] IN
  CASE r.kind = "register" -> IF r.secret = None THEN "drop" ELSE "mail"
    [] r.kind = "open" /\ r.new -> IF r.secret = None THEN "drop" ELSE "verify"
    [] r.kind = "google" -> "end"
    [] OTHER -> "membership"

AcceptTerms(h) ==
  /\ At(h, "terms")
  /\ terms' = terms \union {handlers[h].user}
  /\ IF AfterTerms(h) = "end" THEN End(h) ELSE Goto(h, AfterTerms(h))
  /\ UNCHANGED <<openpath, invitations, members, waiting, audits, world>>

\* ensureOpenPathGoogleUser: found by identity, or by address and then linked,
\* or inserted; an insert that meets a concurrent one falls back to what is there.
GoogleSignUp(h, u) == Begin(h, "google", "lookup", u, None)

LookUp(h) ==
  LET a == accounts[handlers[h].user] IN
  /\ At(h, "lookup")
  /\ Goto(h, IF a = None THEN "insert" ELSE IF a.google THEN "terms" ELSE "linkup")
  /\ UNCHANGED <<openpath, classroompath, world>>

LinkOrInsert(h) ==
  LET u == handlers[h].user IN
  /\ At(h, "insert") \/ At(h, "linkup")
  /\ accounts' = IF At(h, "linkup") \/ accounts[u] = None
                 THEN [accounts EXCEPT ![u] = [verified |-> TRUE, google |-> TRUE]] ELSE accounts
  /\ Goto(h, "terms")
  /\ UNCHANGED <<secrets, mirror, classroompath, world>>

-----------------------------------------------------------------------------
(* acceptInvitation and acceptPendingInvitation *)

\* The owner of the mailbox follows the link, whatever became of the row.
Open(h, i) == invitations[i] /= None /\ invitations[i].sent /\ Begin(h, "open", "token", invitations[i].user, i)

AcceptPending(h, u) == LoggedIn(u) /\ Begin(h, "pending", "active", u, None)

\* getInvitationByToken: a row whose time is over is deleted.
FindToken(h) ==
  LET i == handlers[h].link IN
  /\ At(h, "token")
  /\ \/ ~Live(i) /\ End(h) /\ UNCHANGED invitations
     \/ Live(i) /\ ~Active(i) /\ End(h) /\ invitations' = Deleted(i)
     \/ Active(i) /\ Goto(h, "active") /\ UNCHANGED invitations
  /\ UNCHANGED <<openpath, members, waiting, terms, audits, world>>

\* Mutant: the organization of the link is not asked for.
ActiveForAny(u, link) ==
  LET all == {i \in Invites : Active(i) /\ invitations[i].user = u}
  IN  {i \in all : \A j \in all : invitations[j].expires <= invitations[i].expires}

\* The active invitations of the address: those of the link's organization
\* first, the newest of them.
ActiveFor(u, link) ==
  LET all == {i \in Invites : Active(i) /\ invitations[i].user = u}
      targeted == {i \in all : link /= None /\ invitations[i].org = invitations[link].org}
      pool == IF targeted = {} THEN all ELSE targeted
  IN  {i \in pool : \A j \in pool : invitations[j].expires <= invitations[i].expires}

FindActive(h) ==
  LET found == ActiveFor(handlers[h].user, handlers[h].link) IN
  /\ At(h, "active")
  /\ \/ found = {} /\ End(h)
     \/ \E i \in found : handlers' = [handlers EXCEPT ![h].invite = i, ![h].stage = "account"]
  /\ UNCHANGED <<openpath, classroompath, world>>

\* An address that has an account takes a session of it; one that has none
\* registers.
FindAccount(h) ==
  LET u == handlers[h].user IN
  /\ At(h, "account")
  /\ \/ accounts[u] = None /\ handlers' = [handlers EXCEPT ![h].stage = "register", ![h].new = TRUE]
     \/ accounts[u] /= None /\ LoggedIn(u) /\ Goto(h, "terms")
     \/ accounts[u] /= None /\ ~LoggedIn(u) /\ End(h)
  /\ UNCHANGED <<openpath, classroompath, world>>

\* With the token of the registration; it may have been replaced.
Verify(h) ==
  LET s == handlers[h].secret IN
  /\ At(h, "verify")
  /\ \/ s \notin secrets /\ End(h) /\ UNCHANGED <<accounts, secrets>>
     \/ /\ s \in secrets
        /\ secrets' = secrets \ {s}
        /\ accounts' = [accounts EXCEPT ![s.user].verified = TRUE]
        /\ Goto(h, "membership")
  /\ UNCHANGED <<mirror, classroompath, world>>

ReadMembership(h) ==
  /\ At(h, "membership")
  /\ handlers' = [handlers EXCEPT ![h].row = members[handlers[h].user], ![h].stage = "commit"]
  /\ UNCHANGED <<openpath, classroompath, world>>

\* Mutant: the user is still waiting when they are a member.
CommitMembershipWaiting(h) ==
  LET r == handlers[h]
      i == r.invite IN
  /\ At(h, "commit")
  /\ members' = [members EXCEPT ![r.user] =
                   [org |-> invitations[i].org, role |-> invitations[i].role, via |-> i]]
  /\ invitations' = Deleted(i)
  /\ Goto(h, "readrole")
  /\ UNCHANGED <<openpath, waiting, terms, audits, world>>

\* The transaction of acceptOrganizationInvitation. The row that was read is
\* deleted by its identifier; another one in its place aborts the insert. The
\* invitation is not read again.
CommitMembership(h) ==
  LET r == handlers[h]
      i == r.invite
      g == invitations[i].org
      leftover == IF members[r.user] = r.row THEN None ELSE members[r.user]
      stays == r.row /= None /\ r.row.org = g
  IN
  /\ At(h, "commit")
  /\ \/ stays /\ invitations' = Deleted(i) /\ Goto(h, "readrole") /\ UNCHANGED <<members, waiting>>
     \/ /\ ~stays /\ leftover = None
        /\ members' = [members EXCEPT ![r.user] = [org |-> g, role |-> invitations[i].role, via |-> i]]
        /\ waiting' = waiting \ {r.user}
        /\ invitations' = Deleted(i)
        /\ Goto(h, "readrole")
     \/ ~stays /\ leftover /= None /\ End(h) /\ UNCHANGED <<invitations, members, waiting>>
  /\ UNCHANGED <<openpath, terms, audits, world>>

\* synchronizeOpenPathRole.
ReadRole(h) ==
  /\ At(h, "readrole")
  /\ handlers' = [handlers EXCEPT ![h].row = members[handlers[h].user], ![h].stage = "writerole"]
  /\ UNCHANGED <<openpath, classroompath, world>>

WriteRole(h) ==
  LET r == handlers[h] IN
  /\ At(h, "writerole")
  /\ mirror' = [mirror EXCEPT ![r.user] = IF r.row = None THEN None ELSE r.row.role]
  /\ End(h)
  /\ UNCHANGED <<accounts, secrets, classroompath, world>>

-----------------------------------------------------------------------------
(* The specification *)

Fault(h) ==
  /\ ~At(h, "idle") /\ faults < MaxFaults
  /\ faults' = faults + 1
  /\ End(h)
  /\ UNCHANGED <<openpath, classroompath, mailbox, now>>

Tick ==
  /\ now < MaxTime
  /\ now' = now + 1
  /\ UNCHANGED <<openpath, classroompath, mailbox, faults, handlers>>

Run(h) ==
  \/ Audit(h) \/ Mail(h, TRUE) \/ Mail(h, FALSE) \/ Undo(h) \/ UndoAudit(h)
  \/ Drop(h) \/ Put(h) \/ Register(h) \/ AcceptTerms(h) \/ LookUp(h) \/ LinkOrInsert(h)
  \/ FindToken(h) \/ FindActive(h) \/ FindAccount(h) \/ Verify(h)
  \/ ReadMembership(h) \/ CommitMembership(h) \/ ReadRole(h) \/ WriteRole(h)

Next ==
  \/ \E h \in Handlers :
       \/ \E i \in Invites : (\E c \in Wanted : Invite(h, i, c)) \/ Revoke(h, i) \/ Open(h, i)
       \/ \E u \in Users : \/ SignUp(h, u) \/ GoogleSignUp(h, u) \/ Resend(h, u)
                           \/ Reset(h, u) \/ AcceptPending(h, u)
       \/ Run(h)
       \/ Fault(h)
  \/ \E s \in mailbox : FollowLink(s)
  \/ Tick

Spec == Init /\ [][Next]_vars

\* Handlers go on; an invitee asks for a link to verify their address as long
\* as it is not, gets one in the end, follows it, and opens their invitation
\* again and again.
Fairness ==
  /\ \A h \in Handlers : WF_vars(Run(h)) /\ SF_vars(Mail(h, TRUE))
  /\ \A u \in Users : /\ SF_vars(\E h \in Handlers : Resend(h, u))
                      /\ SF_vars(\E s \in mailbox : s.user = u /\ FollowLink(s))
  /\ \A i \in Invites : SF_vars(\E h \in Handlers : Open(h, i))

FairSpec == Spec /\ Fairness
-----------------------------------------------------------------------------
(* Properties *)

TypeOK ==
  /\ accounts \in [Users -> Account \union {None}]
  /\ secrets \subseteq Secret /\ mailbox \subseteq Secret
  /\ invitations \in [Invites -> InvitationType \union {None}]
  /\ members \in [Users -> Membership \union {None}]
  /\ waiting \subseteq Users /\ terms \subseteq Users
  /\ mirror \in [Users -> Roles \union {None}]
  /\ audits \subseteq Invites \union Secret
  /\ \A h \in Handlers : handlers[h].kind \in Kinds \union {None}
  /\ now \in 0 .. MaxTime /\ faults \in 0 .. MaxFaults

AtWork(h) == handlers[h].stage \in {"account", "register", "terms", "drop", "put", "verify", "membership", "commit"}

\* Whoever follows the link of an organization joins that organization, as
\* long as its invitation stands: the search by address that follows the one
\* by token may fall back to another organization's only when it is gone.
LinkLeadsHome ==
  \A h \in Handlers :
    handlers[h].kind = "open" /\ AtWork(h) /\ Active(handlers[h].link) =>
      invitations[handlers[h].invite].org = invitations[handlers[h].link].org

\* Whoever joins by an invitation has accepted the terms, has an account that
\* is verified, and no longer waits.
JoinedInFull ==
  \A u \in Users :
    members[u] /= None /\ members[u].via /= None =>
      u \in terms /\ LoggedIn(u) /\ u \notin waiting

\* An invitation that was mailed is accepted in the end, wherever a handler
\* dies, unless it ends otherwise: a registration that was broken off leaves an
\* account from which the invitee can still get in.
InviteeGetsIn ==
  \A i \in Invites :
    (invitations[i] /= None /\ invitations[i].sent) ~> ~Live(i)
=============================================================================
