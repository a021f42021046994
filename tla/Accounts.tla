------------------------------- MODULE Accounts -------------------------------
(***************************************************************************)
(* Accounts and workspaces: registration, sign-in, the links sent by mail, *)
(* changes of address and password, invitations, roles.  The handlers read *)
(* what they decide on in one statement and write it in later ones, in     *)
(* between they hash passwords and send mail, and the API serves several   *)
(* at once.  Every account owns one workspace, which is named by it.       *)
(***************************************************************************)
EXTENDS Integers, FiniteSets, Sequences

CONSTANTS
  Users, Emails,
  Home,            \* the addresses of the accounts there are at first
  Required,        \* AUTH_EMAIL_VERIFICATION_REQUIRED, for new accounts
  Requests,        \* what the API serves at once
  MaxRequests      \* bound: requests

VARIABLES
  account,   \* users: see Account
  token,     \* auth_tokens that are neither used nor expired
  session,   \* sessions: those alike are one member
  role,      \* workspace_members: per workspace and user, a role or "none"
  joined,    \* per user: its workspaces, by the time it joined them
  invite,    \* workspace_invites that are neither accepted nor expired
  request,   \* the handlers
  served,    \* how much of the bound is used
  past       \* history: see Past

accountVars == <<account, token, session, role, joined, invite, request, served, past>>

NoEmail == "no email"

ASSUME AccountAssumption ==
  /\ Required \in BOOLEAN /\ MaxRequests \in Nat /\ NoEmail \notin Emails
  /\ Home \in [Users -> Emails] /\ \A u, v \in Users : Home[u] = Home[v] => u = v

(* What a request can ask for: "member" is operator or viewer, which these *)
(* handlers do not tell apart.                                             *)
GivenRoles == {"admin", "member"}
Roles == GivenRoles \cup {"owner", "none"}

Account == [email : Emails \cup {NoEmail}, pending : Emails \cup {NoEmail},
            verified : BOOLEAN, required : BOOLEAN, password : Nat]
NoAccount == [email |-> NoEmail, pending |-> NoEmail, verified |-> FALSE,
              required |-> FALSE, password |-> 0]

(* crossed: users of whom two changes of address overlapped, one was left  *)
(* half done, or a link was used in the middle of one; unpurged: those of  *)
(* whom a change of password was left half done; ownInvite: owners that    *)
(* accepted an invitation to their own workspace.                          *)
Past == [crossed : SUBSET Users, unpurged : SUBSET Users, ownInvite : SUBSET Users]

(* A handler: what it does next, for whom, the password it has seen, and   *)
(* its arguments, of which each operation uses some.                       *)
NoRequest == [op |-> "none", user |-> "nobody", password |-> 0, next |-> "none", item |-> <<>>]

Registered == {u \in Users : account[u].email # NoEmail}
Taken(e, u) == \E v \in Users \ {u} : account[v].email = e

AccountInit ==
  /\ \E there \in SUBSET Users :
       account = [u \in Users |-> IF u \notin there THEN NoAccount
                  ELSE [NoAccount EXCEPT !.email = Home[u], !.verified = TRUE,
                                         !.required = Required]]
  /\ token = {} /\ invite = {}
  /\ session = [user : Registered, password : {0}, late : {FALSE}]
  /\ \E s, u \in Users, given \in GivenRoles :   \* perhaps a team already
       LET owned(v) == IF v \in Registered THEN <<v>> ELSE <<>>
           team == u # s /\ {s, u} \subseteq Registered
       IN  /\ role = [w \in Users |-> [v \in Users |->
                IF v = w /\ v \in Registered THEN "owner"
                ELSE IF team /\ w = s /\ v = u THEN given ELSE "none"]]
           /\ joined = [v \in Users |-> IF team /\ v = u THEN <<u, s>> ELSE owned(v)]
  /\ request = [r \in Requests |-> NoRequest]
  /\ served = 0 /\ past = [crossed |-> {}, unpurged |-> {}, ownInvite |-> {}]

-----------------------------------------------------------------------------
(* The steps of a handler.                                                 *)

Asked(r, op, u, next, item) ==
  /\ request[r].op = "none" /\ served < MaxRequests /\ served' = served + 1
  /\ request' = [request EXCEPT ![r] = [op |-> op, user |-> u, password |-> account[u].password,
                                        next |-> next, item |-> item]]
Goes(r, op) == request' = [request EXCEPT ![r].op = op]
Replies(r) == request' = [request EXCEPT ![r] = NoRequest]

members == <<role, joined, invite>>
tables == <<account, token, session, role, joined, invite>>

(* requireUser, with the active workspace: the one joined last.            *)
Active(u) == joined[u][Len(joined[u])]
SignedIn(u) ==
  /\ \E s \in session : s.user = u
  /\ account[u].required => account[u].verified
  /\ joined[u] # <<>>
Administers(u) == SignedIn(u) /\ role[Active(u)][u] \in {"owner", "admin"}

(* A mail with a link: the older ones for the same purpose are deleted,    *)
(* then the new one is inserted.                                           *)
Mail(purpose, to) == [purpose |-> purpose, to |-> to]
Letter(r) == request[r].item
NoOlderLinks(u, purpose) == {}
OlderLinks(u, purpose) == {t \in token : t.user = u /\ t.purpose = purpose}
DeleteOlder(r) ==
  /\ request[r].op = "issue" /\ Goes(r, "send")
  /\ token' = token \ OlderLinks(request[r].user, Letter(r).purpose)
  /\ UNCHANGED <<account, session, members, served, past>>
(* A number tells the links of a user apart.                               *)
InUse(u) == {t.n : t \in {x \in token : x.user = u}} \cup
            {request[r].item.link.n : r \in {x \in Requests : request[x].op \in {"verify", "reset"}
                                                          /\ request[x].user = u}}
SendLink(r) ==
  LET u == request[r].user
      n == CHOOSE k \in 1 .. Cardinality(InUse(u)) + 1 : k \notin InUse(u)
  IN  /\ request[r].op = "send"
      /\ token' = token \cup {[user |-> u, purpose |-> Letter(r).purpose, to |-> Letter(r).to,
                               n |-> n]}
      /\ IF request[r].next = "none" THEN Replies(r) ELSE Goes(r, request[r].next)
      /\ UNCHANGED <<account, session, members, served, past>>

(* createSession: for who has shown the password that was then read.       *)
CreateSession(r) ==
  LET u == request[r].user IN
  /\ request[r].op = "session" /\ Replies(r)
  /\ session' = session \cup {[user |-> u, password |-> request[r].password,
                               late |-> request[r].password # account[u].password]}
  /\ UNCHANGED <<account, token, members, served, past>>

-----------------------------------------------------------------------------
(* Signing up and in.                                                      *)

(* The transaction of POST /v1/auth/register, under an advisory lock.      *)
Register(r, u, e) ==
  /\ u \notin Registered /\ ~Taken(e, u)
  /\ account' = [account EXCEPT ![u] = [NoAccount EXCEPT !.email = e, !.required = Required]]
  /\ role' = [role EXCEPT ![u][u] = "owner"]
  /\ joined' = [joined EXCEPT ![u] = <<u>>]
  /\ Asked(r, "issue", u, IF Required THEN "none" ELSE "session", Mail("verification", e))
  /\ UNCHANGED <<token, session, invite, past>>

(* POST /v1/auth/login with the right password.                            *)
Login(r, u) ==
  /\ u \in Registered
  /\ IF account[u].required /\ ~account[u].verified
     THEN Asked(r, "issue", u, "none", Mail("verification", account[u].email))
     ELSE Asked(r, "session", u, "none", <<>>)
  /\ UNCHANGED <<tables, past>>

Resend(r, u) ==
  /\ u \in Registered /\ ~account[u].verified
  /\ Asked(r, "issue", u, "none", Mail("verification", account[u].email))
  /\ UNCHANGED <<tables, past>>

Forgot(r, u) ==
  /\ u \in Registered
  /\ Asked(r, "issue", u, "none", Mail("reset", account[u].email))
  /\ UNCHANGED <<tables, past>>

(* Logout, the end of a session, of all others, of its time.               *)
EndSessions(gone) ==
  /\ gone # {} /\ gone \subseteq session
  /\ session' = session \ gone
  /\ UNCHANGED <<account, token, members, served, past, request>>

(* POST /v1/auth/verify-email reads the token and the pending address ...  *)
Changing(u) ==
  {r \in Requests : request[r].user = u /\ request[r].op \in {"issue", "send"}
                    /\ Letter(r).purpose = "change"}
AskVerify(r, t) ==
  LET u == t.user IN
  /\ t \in token /\ t.purpose \in {"verification", "change"}
  /\ t.purpose = "change" => account[u].pending # NoEmail /\ ~Taken(account[u].pending, u)
  /\ Asked(r, "verify", u, "none", [link |-> t, pending |-> account[u].pending])
  /\ past' = [past EXCEPT !.crossed =
                 IF t.purpose = "change" /\ Changing(u) # {} THEN @ \cup {u} ELSE @]
  /\ UNCHANGED tables
(* ... and writes in a transaction, which fails when another account took  *)
(* the address.                                                            *)
Verify(r) ==
  LET t == request[r].item.link
      u == t.user
      to == request[r].item.pending
      fails == t.purpose = "change" /\ Taken(to, u)
  IN  /\ request[r].op = "verify" /\ Replies(r)
      /\ IF fails THEN UNCHANGED <<account, token>>
         ELSE /\ token' = token \ {t}
              /\ account' = IF t.purpose = "change"
                   THEN [account EXCEPT ![u].email = to, ![u].pending = NoEmail,
                                        ![u].verified = TRUE]
                   ELSE [account EXCEPT ![u].verified = TRUE]
      /\ UNCHANGED <<session, members, served, past>>

(* POST /v1/auth/reset-password reads the token, hashes, and writes all in *)
(* one transaction.                                                        *)
AskReset(r, t) ==
  /\ t \in token /\ t.purpose = "reset"
  /\ Asked(r, "reset", t.user, "none", [link |-> t])
  /\ UNCHANGED <<tables, past>>
EveryOther(u) == session
Others(u) == {s \in session : s.user # u}
Reset(r) ==
  LET t == request[r].item.link
      u == t.user
  IN  /\ request[r].op = "reset" /\ Replies(r)
      /\ token' = token \ {t}
      /\ account' = [account EXCEPT ![u].password = @ + 1]
      /\ session' = Others(u)
      /\ past' = [past EXCEPT !.unpurged = @ \ {u}]
      /\ UNCHANGED <<members, served>>

(* POST /v1/me/email with the right password.                              *)
AskEmail(r, u, e) ==
  /\ SignedIn(u) /\ e # account[u].email /\ ~Taken(e, u)
  /\ Asked(r, "pending", u, "none", Mail("change", e))
  /\ UNCHANGED <<tables, past>>
SetPending(r) ==
  LET u == request[r].user IN
  /\ request[r].op = "pending" /\ Goes(r, "issue")
  /\ account' = [account EXCEPT ![u].pending = Letter(r).to]
  /\ past' = [past EXCEPT !.crossed = IF Changing(u) # {} THEN @ \cup {u} ELSE @]
  /\ UNCHANGED <<token, session, members, served>>

(* POST /v1/me/password: three statements after the password was checked.  *)
AskPassword(r, u) ==
  /\ SignedIn(u)
  /\ Asked(r, "password", u, "none", <<>>)
  /\ UNCHANGED <<tables, past>>
UpdatePassword(r) ==
  LET u == request[r].user IN
  /\ request[r].op = "password"
  /\ account' = [account EXCEPT ![u].password = @ + 1]
  /\ request' = [request EXCEPT ![r] = [op |-> "purge", user |-> u, next |-> "none",
                                         password |-> account[u].password + 1, item |-> <<>>]]
  /\ UNCHANGED <<token, session, members, served, past>>
Purge(r) ==
  /\ request[r].op = "purge" /\ Goes(r, "session")
  /\ session' = Others(request[r].user)
  /\ past' = [past EXCEPT !.unpurged = @ \ {request[r].user}]
  /\ UNCHANGED <<account, token, members, served>>

-----------------------------------------------------------------------------
(* Workspaces.                                                             *)

AskInvite(r, u, e, given) ==
  /\ Administers(u)
  /\ \A v \in Users : role[Active(u)][v] # "none" => account[v].email # e
  /\ Asked(r, "invite", u, "none", [space |-> Active(u), email |-> e, role |-> given])
  /\ UNCHANGED <<tables, past>>
Invite(r) ==
  /\ request[r].op = "invite" /\ Replies(r)
  /\ invite' = invite \cup {request[r].item}
  /\ UNCHANGED <<account, token, session, role, joined, served, past>>

AskAccept(r, u, i) ==
  /\ SignedIn(u) /\ i \in invite /\ i.email = account[u].email
  /\ Asked(r, "accept", u, "none", i)
  /\ UNCHANGED <<tables, past>>
(* The insert of the membership updates the role of one there is.          *)
Accept(r) ==
  LET u == request[r].user
      i == request[r].item
  IN  /\ request[r].op = "accept" /\ Replies(r)
      /\ invite' = invite \ {i}
      /\ role' = [role EXCEPT ![i.space][u] = i.role]
      /\ joined' = IF role[i.space][u] # "none" THEN joined
                   ELSE [joined EXCEPT ![u] = Append(@, i.space)]
      /\ past' = [past EXCEPT !.ownInvite = @ \cup ({u} \cap {i.space})]
      /\ UNCHANGED <<account, token, session, served>>

(* PATCH and DELETE of a member; who asks was an administrator when asked. *)
AnySubject(s, v) == role[s][v] # "none"
Subject(s, v) == role[s][v] \notin {"none", "owner"}
AskMember(r, u, v, op, given) ==
  /\ Administers(u)
  /\ op = "role" => Subject(Active(u), v)
  /\ Asked(r, op, u, "none", [space |-> Active(u), user |-> v, role |-> given])
  /\ UNCHANGED <<tables, past>>
SetRole(r) ==
  LET x == request[r].item IN
  /\ request[r].op = "role" /\ Replies(r)
  /\ role' = IF role[x.space][x.user] = "none" THEN role
             ELSE [role EXCEPT ![x.space][x.user] = x.role]
  /\ UNCHANGED <<account, token, session, joined, invite, served, past>>
Without(spaces, s) ==
  LET k == CHOOSE k \in DOMAIN spaces : spaces[k] = s
  IN  SubSeq(spaces, 1, k - 1) \o SubSeq(spaces, k + 1, Len(spaces))
RemoveMember(r) ==
  LET x == request[r].item
  IN  /\ request[r].op = "remove" /\ Replies(r)
      /\ IF Subject(x.space, x.user)
         THEN /\ role' = [role EXCEPT ![x.space][x.user] = "none"]
              /\ joined' = [joined EXCEPT ![x.user] = Without(@, x.space)]
         ELSE UNCHANGED <<role, joined>>
      /\ UNCHANGED <<account, token, session, invite, served, past>>

(* A handler throws or dies; links and invitations run out.                *)
Dies(r) ==
  LET u == request[r].user IN
  /\ request[r].op # "none" /\ Replies(r)
  /\ past' = [past EXCEPT !.crossed = IF r \in Changing(u) THEN @ \cup {u} ELSE @,
                       !.unpurged = IF request[r].op = "purge" THEN @ \cup {u} ELSE @]
  /\ UNCHANGED <<tables, served>>
RunsOut ==
  /\ \/ \E t \in token : token' = token \ {t} /\ UNCHANGED invite
     \/ \E i \in invite : invite' = invite \ {i} /\ UNCHANGED token
  /\ UNCHANGED <<account, session, role, joined, served, past, request>>

-----------------------------------------------------------------------------
BeginsOf(r) ==
  \/ \E u \in Users :
       \/ \E e \in Emails : Register(r, u, e) \/ AskEmail(r, u, e)
                            \/ \E g \in GivenRoles : AskInvite(r, u, e, g)
       \/ Login(r, u) \/ Resend(r, u) \/ Forgot(r, u) \/ AskPassword(r, u)
       \/ \E i \in invite : AskAccept(r, u, i)
       \/ \E v \in Users, g \in GivenRoles : AskMember(r, u, v, "role", g)
       \/ \E v \in Users : AskMember(r, u, v, "remove", "member")
  \/ \E t \in token : AskVerify(r, t) \/ AskReset(r, t)

GoesOn(r) ==
  \/ DeleteOlder(r) \/ SendLink(r) \/ CreateSession(r) \/ Verify(r) \/ Reset(r)
  \/ SetPending(r) \/ UpdatePassword(r) \/ Purge(r)
  \/ Invite(r) \/ Accept(r) \/ SetRole(r) \/ RemoveMember(r) \/ Dies(r)

AccountNext ==
  \/ \E r \in Requests : BeginsOf(r) \/ GoesOn(r)
  \/ \E gone \in SUBSET session : EndSessions(gone)
  \/ RunsOut

AccountSpec == AccountInit /\ [][AccountNext]_accountVars

-----------------------------------------------------------------------------
(* Properties.                                                             *)

(* The tables and the workspaces of each user: those it is a member of.    *)
AccountTypeOK ==
  /\ account \in [Users -> Account]
  /\ role \in [Users -> [Users -> Roles]]
  /\ \A u \in Users : {joined[u][k] : k \in DOMAIN joined[u]} = {s \in Users : role[s][u] # "none"}
  /\ \A i \in invite : i.space \in Users /\ i.email \in Emails /\ i.role \in GivenRoles

(* A workspace has one owner, who made it: no request, however it races    *)
(* with others, takes the role or gives it to another.  The exception is   *)
(* an owner who accepts an invitation to the own workspace, sent to an     *)
(* address the owner took later: it overwrites the role.                   *)
OwnerRole ==
  \A s, u \in Users :
    /\ role[s][u] = "owner" => u = s
    /\ s \in Registered \ past.ownInvite => role[s][s] = "owner"

(* A session is of the password the account has now: a change ends those   *)
(* of the older ones.  Between the two statements of a change they still   *)
(* are; and a request that had seen the old password before the change     *)
(* opens a session after it.                                               *)
SessionsFollowPassword ==
  \A s \in session :
    \/ s.password = account[s.user].password \/ s.late
    \/ \E r \in Requests : request[r].op = "purge" /\ request[r].user = s.user
    \/ s.user \in past.unpurged

(* An address is taken only with a link that was sent to it, whatever      *)
(* links were sent before and however the changes were repeated; when two  *)
(* changes overlap, or a link is used in the middle of one, the link to    *)
(* another address will do.                                                *)
EmailByLink ==
  [][\A u \in Registered : account'[u].email # account[u].email =>
       \/ u \in past.crossed
       \/ \E r \in Requests : /\ request[r].op = "verify" /\ request[r].user = u
                              /\ request[r].item.link.to = account'[u].email]_accountVars
=============================================================================
