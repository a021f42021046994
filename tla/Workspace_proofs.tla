---------------------------- MODULE Workspace_proofs ----------------------------
(***************************************************************************)
(* Proofs about Accounts and Catalogue, for any users, resources and       *)
(* requests at once: the owner's role, the sessions after a change of      *)
(* password, the links that change an address; the demo lock is held by    *)
(* who is at work, there is one demo run, and a run that was removed left  *)
(* nothing.                                                                *)
(***************************************************************************)
EXTENDS Accounts, Catalogue, FiniteSetTheorems, SequenceTheorems, TLAPS

-----------------------------------------------------------------------------
(* Accounts: the inductive invariant.                                      *)

(* The tables: whoever is referred to has an account, and a member of a    *)
(* workspace has it in the list of the workspaces joined.                  *)
TablesOK ==
  /\ account \in [Users -> Account]
  /\ role \in [Users -> [Users -> Roles]]
  /\ joined \in [Users -> Seq(Users)]
  /\ past \in Past
  /\ \A t \in token : t.user \in Registered
  /\ \A s \in session : s.user \in Registered
  /\ \A i \in invite : i.space \in Registered /\ i.role \in GivenRoles
  /\ \A u \in Users : \A k \in 1 .. Len(joined[u]) : joined[u][k] \in Registered
  /\ \A s, u \in Users : role[s][u] # "none" =>
       u \in Registered /\ \E k \in 1 .. Len(joined[u]) : joined[u][k] = s

(* A handler is a record; what its item holds depends on the operation.    *)
IsRequest(q) == q = [op |-> q.op, user |-> q.user, password |-> q.password,
                     next |-> q.next, item |-> q.item]
LetterOK(q) ==
  q.op \in {"issue", "send", "pending"} =>
    /\ q.item.to \in Emails
    /\ q.next \in {"none", "session"}
    /\ q.op = "pending" => q.item.purpose = "change"
LinkOK(q) ==
  /\ q.op \in {"verify", "reset"} => q.item.link.user = q.user
  /\ q.op = "verify" /\ q.item.link.purpose = "change" => q.item.pending \in Emails
SpaceOK(q, known, own) ==
  /\ q.op \in {"invite", "accept"} => q.item.space \in known /\ q.item.role \in GivenRoles
  /\ q.op \in {"role", "remove"} => q.item.space \in Users /\ q.item.user \in Users
  /\ q.op = "role" => /\ q.item.role \in GivenRoles
                      /\ q.item.user = q.item.space => q.item.space \in own
RequestOK(q, known, own) ==
  /\ IsRequest(q) /\ (q.op # "none" => q.user \in known)
  /\ LetterOK(q) /\ LinkOK(q) /\ SpaceOK(q, known, own)
RequestsOK == /\ request = [r \in Requests |-> request[r]]
              /\ \A r \in Requests : RequestOK(request[r], Registered, past.ownInvite)

AccountInv == TablesOK /\ RequestsOK /\ OwnerRole

-----------------------------------------------------------------------------
(* Lemmas about the pieces.                                                *)

LEMMA RegisteredIsUser == Registered \subseteq Users
BY DEF Registered

(* The workspace a user is in is one that was registered.                  *)
LEMMA ActiveKnown ==
  ASSUME TablesOK, NEW u \in Users, SignedIn(u)
  PROVE  Active(u) \in Registered /\ Active(u) \in Users
<1>1. joined[u] \in Seq(Users) /\ joined[u] # <<>>
  BY DEF TablesOK, SignedIn
<1>2. Len(joined[u]) \in Nat /\ Len(joined[u]) \in 1 .. Len(joined[u])
  BY <1>1
<1> QED BY <1>2, RegisteredIsUser DEF TablesOK, Active

(* Taking a workspace out of a list leaves the others.                     *)
LEMMA WithoutSpace ==
  ASSUME NEW S, NEW spaces \in Seq(S), NEW s \in S, \E k \in 1 .. Len(spaces) : spaces[k] = s
  PROVE  /\ Without(spaces, s) \in Seq(S)
         /\ \A k \in 1 .. Len(Without(spaces, s)) :
              \E j \in 1 .. Len(spaces) : Without(spaces, s)[k] = spaces[j]
         /\ \A j \in 1 .. Len(spaces) : spaces[j] # s =>
              \E k \in 1 .. Len(Without(spaces, s)) : Without(spaces, s)[k] = spaces[j]
<1> DEFINE i == CHOOSE k \in DOMAIN spaces : spaces[k] = s
           left == SubSeq(spaces, 1, i - 1)
           right == SubSeq(spaces, i + 1, Len(spaces))
<1>1. i \in 1 .. Len(spaces) /\ spaces[i] = s
  OBVIOUS
<1> HIDE DEF i
<1>2. /\ left \in Seq(S) /\ Len(left) = i - 1
      /\ \A k \in 1 .. i - 1 : left[k] = spaces[k]
  BY <1>1
<1>3. /\ right \in Seq(S) /\ Len(right) = Len(spaces) - i
      /\ \A k \in 1 .. Len(spaces) - i : right[k] = spaces[i + k]
  BY <1>1
<1>4. Without(spaces, s) = left \o right
  BY DEF Without, i
<1> HIDE DEF left, right
<1>5. /\ left \o right \in Seq(S) /\ Len(left \o right) = Len(spaces) - 1
      /\ \A k \in 1 .. i - 1 : (left \o right)[k] = spaces[k]
      /\ \A k \in i .. Len(spaces) - 1 : (left \o right)[k] = spaces[k + 1]
  <2>1. /\ left \o right \in Seq(S)
        /\ Len(left \o right) = Len(left) + Len(right)
        /\ \A k \in 1 .. Len(left) + Len(right) :
             (left \o right)[k] = IF k <= Len(left) THEN left[k] ELSE right[k - Len(left)]
    BY <1>2, <1>3, ConcatProperties
  <2>2. ASSUME NEW k \in i .. Len(spaces) - 1
        PROVE  (left \o right)[k] = spaces[k + 1]
    <3>1. k \in 1 .. Len(left) + Len(right) /\ ~(k <= Len(left)) /\ k - Len(left) = k - i + 1
      BY <1>1, <1>2, <1>3
    <3>2. k - i + 1 \in 1 .. Len(spaces) - i /\ i + (k - i + 1) = k + 1
      BY <1>1
    <3> QED BY <1>3, <2>1, <3>1, <3>2
  <2>3. ASSUME NEW k \in 1 .. i - 1
        PROVE  (left \o right)[k] = spaces[k]
    BY <1>1, <1>2, <1>3, <2>1
  <2>4. Len(left \o right) = Len(spaces) - 1
    BY <1>1, <1>2, <1>3, <2>1
  <2> QED BY <2>1, <2>2, <2>3, <2>4
<1>6. ASSUME NEW k \in 1 .. Len(left \o right)
      PROVE  \E j \in 1 .. Len(spaces) : (left \o right)[k] = spaces[j]
  <2>1. k \in 1 .. i - 1 \/ k \in i .. Len(spaces) - 1
    BY <1>1, <1>5
  <2>2. CASE k \in 1 .. i - 1
    <3>1. k \in 1 .. Len(spaces)
      BY <1>1, <2>2
    <3> QED BY <1>5, <2>2, <3>1
  <2>3. CASE k \in i .. Len(spaces) - 1
    <3>1. k + 1 \in 1 .. Len(spaces)
      BY <1>1, <2>3
    <3> QED BY <1>5, <2>3, <3>1
  <2> QED BY <2>1, <2>2, <2>3
<1>7. ASSUME NEW j \in 1 .. Len(spaces), spaces[j] # s
      PROVE  \E k \in 1 .. Len(left \o right) : (left \o right)[k] = spaces[j]
  <2>1. CASE j < i
    <3>1. j \in 1 .. i - 1 /\ j \in 1 .. Len(left \o right)
      BY <1>1, <1>5, <2>1
    <3> QED BY <1>5, <3>1
  <2>2. CASE j > i
    <3>1. j - 1 \in i .. Len(spaces) - 1 /\ j - 1 \in 1 .. Len(left \o right) /\ (j - 1) + 1 = j
      BY <1>1, <1>5, <2>2
    <3> QED BY <1>5, <3>1
  <2> QED BY <1>1, <1>7, <2>1, <2>2
<1> QED BY <1>4, <1>5, <1>6, <1>7

(* Joining one adds it, unless it is there.                                *)
LEMMA WithSpace ==
  ASSUME NEW S, NEW spaces \in Seq(S), NEW s \in S, NEW new,
         \/ new = Append(spaces, s)
         \/ new = spaces /\ \E k \in 1 .. Len(spaces) : spaces[k] = s
  PROVE  /\ new \in Seq(S)
         /\ \A k \in 1 .. Len(spaces) : k \in 1 .. Len(new) /\ new[k] = spaces[k]
         /\ \A k \in 1 .. Len(new) : new[k] = s \/ (k \in 1 .. Len(spaces) /\ new[k] = spaces[k])
         /\ \E k \in 1 .. Len(new) : new[k] = s
<1>1. CASE new = Append(spaces, s)
  <2>1. /\ new \in Seq(S) /\ Len(new) = Len(spaces) + 1 /\ Len(spaces) \in Nat
        /\ \A k \in 1 .. Len(spaces) : new[k] = spaces[k]
        /\ new[Len(spaces) + 1] = s
    BY <1>1, AppendProperties
  <2> QED BY <2>1
<1>2. CASE new # Append(spaces, s)
  BY <1>2
<1> QED BY <1>1, <1>2

(* Nobody loses the account or the mark of having accepted an invitation   *)
(* to the own workspace.                                                   *)
Grows == Registered \subseteq Registered' /\ past.ownInvite \subseteq past'.ownInvite

(* Another password.                                                       *)
LEMMA NextPassword ==
  ASSUME NEW a \in Account
  PROVE  [a EXCEPT !.password = @ + 1] \in Account
<1>1. a.password + 1 \in Nat
  BY DEF Account
<1>2. [a EXCEPT !.password = @ + 1] =
        [email |-> a.email, pending |-> a.pending, verified |-> a.verified,
         required |-> a.required, password |-> a.password + 1]
  BY DEF Account
<1> QED BY <1>1, <1>2 DEF Account

(* What is fine for a handler stays so, and one handler changes at a time. *)
LEMMA RequestsKept ==
  ASSUME RequestsOK, Grows, NEW r \in Requests, NEW q,
         request' = [request EXCEPT ![r] = q], RequestOK(q, Registered', past'.ownInvite)
  PROVE  RequestsOK'
<1>1. request' = [x \in Requests |-> request'[x]]
  BY DEF RequestsOK
<1>2. ASSUME NEW x \in Requests
      PROVE  RequestOK(request'[x], Registered', past'.ownInvite)
  <2>1. CASE x = r
    BY <2>1 DEF RequestsOK
  <2>2. CASE x # r
    <3>1. request'[x] = request[x] /\ RequestOK(request[x], Registered, past.ownInvite)
      BY <2>2 DEF RequestsOK
    <3> QED BY <3>1 DEF RequestOK, LetterOK, LinkOK, SpaceOK, Grows
  <2> QED BY <2>1, <2>2
<1> QED BY <1>1, <1>2 DEF RequestsOK

LEMMA NoneOK == \A known, own : RequestOK(NoRequest, known, own)
BY DEF RequestOK, IsRequest, NoRequest, LetterOK, LinkOK, SpaceOK

(* A handler that goes on keeps all but what it does next.                 *)
LEMMA GoesRequest ==
  ASSUME RequestsOK, NEW r \in Requests, NEW op, Goes(r, op)
  PROVE  LET q == [op |-> op, user |-> request[r].user, password |-> request[r].password,
                   next |-> request[r].next, item |-> request[r].item]
         IN  request' = [request EXCEPT ![r] = q]
<1>1. IsRequest(request[r])
  BY DEF RequestsOK, RequestOK
<1>2. [request[r] EXCEPT !.op = op]
        = [op |-> op, user |-> request[r].user, password |-> request[r].password,
           next |-> request[r].next, item |-> request[r].item]
  BY <1>1 DEF IsRequest
<1>3. request' = [request EXCEPT ![r] = [request[r] EXCEPT !.op = op]]
  BY DEF Goes
<1> QED BY <1>2, <1>3

(* A request that is taken up reads the tables and changes none.           *)
LEMMA AskedKeeps ==
  ASSUME AccountInv, NEW r \in Requests, NEW op, NEW u \in Registered, NEW next, NEW item,
         Asked(r, op, u, next, item), UNCHANGED tables,
         past' \in Past, past'.ownInvite = past.ownInvite,
         LET q == [op |-> op, user |-> u, password |-> account[u].password,
                   next |-> next, item |-> item]
         IN  LetterOK(q) /\ LinkOK(q) /\ SpaceOK(q, Registered, past.ownInvite)
  PROVE  AccountInv'
<1> DEFINE q == [op |-> op, user |-> u, password |-> account[u].password,
                 next |-> next, item |-> item]
<1>1. Registered' = Registered /\ Grows
  BY DEF Grows, Registered, tables
<1>2. request' = [request EXCEPT ![r] = q]
  BY DEF Asked
<1>3. RequestOK(q, Registered', past'.ownInvite)
  BY <1>1 DEF RequestOK, IsRequest, LetterOK, LinkOK, SpaceOK
<1>4. RequestsOK'
  BY <1>1, <1>2, <1>3, RequestsKept DEF AccountInv
<1>5. TablesOK' /\ OwnerRole'
  BY <1>1 DEF AccountInv, TablesOK, OwnerRole, tables, members
<1> QED BY <1>4, <1>5 DEF AccountInv

(* Every action that begins a request keeps the invariant.                 *)
LEMMA RegisterKeeps ==
  ASSUME AccountInv, AccountAssumption, NEW r \in Requests, NEW u \in Users, NEW e \in Emails,
         Register(r, u, e)
  PROVE  AccountInv'
<1> DEFINE q == [op |-> "issue", user |-> u, password |-> account[u].password,
                 next |-> IF Required THEN "none" ELSE "session",
                 item |-> Mail("verification", e)]
<1>1. /\ account' = [account EXCEPT ![u] = [NoAccount EXCEPT !.email = e, !.required = Required]]
      /\ role' = [role EXCEPT ![u][u] = "owner"]
      /\ joined' = [joined EXCEPT ![u] = <<u>>]
      /\ request' = [request EXCEPT ![r] = q]
      /\ UNCHANGED <<token, session, invite, past>>
      /\ u \notin Registered
  BY DEF Register, Asked
<1>2. account'[u] \in Account /\ account'[u].email = e /\ e # NoEmail
      /\ \A v \in Users : v # u => account'[v] = account[v]
  BY <1>1 DEF AccountInv, TablesOK, Account, NoAccount, AccountAssumption
<1>3. Registered' = Registered \cup {u} /\ Grows
  BY <1>1, <1>2 DEF Grows, Registered
<1>4. RequestOK(q, Registered', past'.ownInvite)
  BY <1>3 DEF RequestOK, IsRequest, LetterOK, LinkOK, SpaceOK, Mail
<1>5. RequestsOK'
  BY <1>1, <1>3, <1>4, RequestsKept DEF AccountInv
<1>6. TablesOK'
  <2>1. account' \in [Users -> Account]
    BY <1>1, <1>2 DEF AccountInv, TablesOK
  <2>2. role' \in [Users -> [Users -> Roles]]
    BY <1>1 DEF AccountInv, TablesOK, Roles
  <2>3. joined' \in [Users -> Seq(Users)] /\ joined'[u] = <<u>>
        /\ \A v \in Users : v # u => joined'[v] = joined[v]
    BY <1>1 DEF AccountInv, TablesOK
  <2>4. \A v \in Users : \A k \in 1 .. Len(joined'[v]) : joined'[v][k] \in Registered'
    <3>1. <<u>> \in Seq(Users) /\ Len(<<u>>) = 1 /\ <<u>>[1] = u
      OBVIOUS
    <3>2. ASSUME NEW v \in Users, NEW k \in 1 .. Len(joined'[v])
          PROVE  joined'[v][k] \in Registered'
      <4>1. CASE v = u
        <5>1. joined'[v] = <<u>>
          BY <2>3, <4>1
        <5>2. Len(joined'[v]) = 1
          BY <3>1, <5>1
        <5>3. k = 1
          BY <5>2
        <5> QED BY <1>3, <3>1, <5>1, <5>3
      <4>2. CASE v # u
        BY <1>3, <2>3, <4>2 DEF AccountInv, TablesOK
      <4> QED BY <4>1, <4>2
    <3> QED BY <3>2
  <2>5. ASSUME NEW s \in Users, NEW v \in Users, role'[s][v] # "none"
        PROVE  v \in Registered' /\ \E k \in 1 .. Len(joined'[v]) : joined'[v][k] = s
    <3>1. CASE v # u
      BY <1>1, <1>3, <2>3, <2>5, <3>1 DEF AccountInv, TablesOK
    <3>2. CASE v = u
      <4>1. s = u
        BY <1>1, <2>5, <3>2 DEF AccountInv, TablesOK
      <4>2. Len(<<u>>) = 1 /\ <<u>>[1] = u
        OBVIOUS
      <4> QED BY <1>3, <2>3, <3>2, <4>1, <4>2
    <3> QED BY <3>1, <3>2
  <2> QED BY <1>1, <1>3, <2>1, <2>2, <2>3, <2>4, <2>5 DEF AccountInv, TablesOK
<1>7. OwnerRole'
  BY <1>1, <1>3 DEF AccountInv, TablesOK, OwnerRole
<1> QED BY <1>5, <1>6, <1>7 DEF AccountInv

(* The other requests that begin only read.                                *)
LEMMA BeginsKeeps ==
  ASSUME AccountInv, AccountAssumption, NEW r \in Requests, BeginsOf(r)
  PROVE  AccountInv'
<1>1. /\ past \in Past /\ account \in [Users -> Account]
      /\ \A u \in Registered : u \in Users /\ account[u].email \in Emails
  BY DEF AccountInv, TablesOK, Registered, Account
<1>2. ASSUME NEW u \in Users, SignedIn(u)
      PROVE  u \in Registered
  BY <1>2 DEF SignedIn, AccountInv, TablesOK
<1>3. ASSUME NEW u \in Users, NEW e \in Emails, Register(r, u, e)
      PROVE  AccountInv'
  BY <1>3, RegisterKeeps
<1>4. ASSUME NEW u \in Users, NEW e \in Emails, AskEmail(r, u, e)
      PROVE  AccountInv'
  <2>1. u \in Registered
    BY <1>2, <1>4 DEF AskEmail
  <2> QED BY <1>1, <1>4, <2>1, AskedKeeps DEF AskEmail, Mail, LetterOK, LinkOK, SpaceOK
<1>5. ASSUME NEW u \in Users, NEW e \in Emails, NEW given \in GivenRoles, AskInvite(r, u, e, given)
      PROVE  AccountInv'
  <2>1. u \in Registered /\ Active(u) \in Registered
    BY <1>2, <1>5, ActiveKnown DEF AskInvite, Administers, AccountInv
  <2> QED BY <1>1, <1>5, <2>1, AskedKeeps DEF AskInvite, LetterOK, LinkOK, SpaceOK
<1>6. ASSUME NEW u \in Users, Login(r, u)
      PROVE  AccountInv'
  <2>1. CASE account[u].required /\ ~account[u].verified
    BY <1>1, <1>6, <2>1, AskedKeeps DEF Login, Mail, LetterOK, LinkOK, SpaceOK
  <2>2. CASE ~(account[u].required /\ ~account[u].verified)
    BY <1>1, <1>6, <2>2, AskedKeeps DEF Login, LetterOK, LinkOK, SpaceOK
  <2> QED BY <2>1, <2>2
<1>7. ASSUME NEW u \in Users, Resend(r, u) \/ Forgot(r, u)
      PROVE  AccountInv'
  <2>1. CASE Resend(r, u)
    BY <1>1, <2>1, AskedKeeps DEF Resend, Mail, LetterOK, LinkOK, SpaceOK
  <2>2. CASE Forgot(r, u)
    BY <1>1, <2>2, AskedKeeps DEF Forgot, Mail, LetterOK, LinkOK, SpaceOK
  <2> QED BY <1>7, <2>1, <2>2
<1>8. ASSUME NEW u \in Users, AskPassword(r, u)
      PROVE  AccountInv'
  BY <1>1, <1>2, <1>8, AskedKeeps DEF AskPassword, LetterOK, LinkOK, SpaceOK
<1>9. ASSUME NEW u \in Users, NEW i \in invite, AskAccept(r, u, i)
      PROVE  AccountInv'
  <2>1. u \in Registered /\ i.space \in Registered /\ i.role \in GivenRoles
    BY <1>2, <1>9 DEF AskAccept, AccountInv, TablesOK
  <2> QED BY <1>1, <1>9, <2>1, AskedKeeps DEF AskAccept, LetterOK, LinkOK, SpaceOK
<1>10. ASSUME NEW u \in Users, NEW v \in Users, NEW given \in GivenRoles, NEW op \in {"role", "remove"},
              AskMember(r, u, v, op, given)
       PROVE  AccountInv'
  <2>1. u \in Registered /\ Active(u) \in Registered /\ Active(u) \in Users
    BY <1>2, <1>10, ActiveKnown DEF AskMember, Administers, AccountInv
  <2>2. op = "role" /\ v = Active(u) => v \in past.ownInvite
    BY <1>10, <2>1 DEF AskMember, Subject, AccountInv, OwnerRole
  <2> QED BY <1>1, <1>10, <2>1, <2>2, AskedKeeps DEF AskMember, LetterOK, LinkOK, SpaceOK
<1>11. ASSUME NEW t \in token, AskVerify(r, t)
       PROVE  AccountInv'
  <2>1. t.user \in Registered
    BY DEF AccountInv, TablesOK
  <2>2. t.purpose = "change" => account[t.user].pending \in Emails
    BY <1>1, <1>11, <2>1 DEF AskVerify, Account
  <2>3. past' \in Past /\ past'.ownInvite = past.ownInvite
    BY <1>1, <1>11, <2>1 DEF AskVerify, Past
  <2> QED BY <1>11, <2>1, <2>2, <2>3, AskedKeeps DEF AskVerify, LetterOK, LinkOK, SpaceOK
<1>12. ASSUME NEW t \in token, AskReset(r, t)
       PROVE  AccountInv'
  <2>1. t.user \in Registered
    BY DEF AccountInv, TablesOK
  <2> QED BY <1>1, <1>12, <2>1, AskedKeeps DEF AskReset, LetterOK, LinkOK, SpaceOK
<1> QED BY <1>3, <1>4, <1>5, <1>6, <1>7, <1>8, <1>9, <1>10, <1>11, <1>12 DEF BeginsOf, GivenRoles

(* The steps of a handler keep the invariant: first those that write none  *)
(* of the tables of workspaces.                                            *)
LEMMA TakesUp ==
  ASSUME AccountInv, NEW r \in Requests, NEW op, Goes(r, op), Grows,
         request[r].op # "none",
         op \in {"send", "none", "session", "issue"},
         op \in {"send", "issue"} => request[r].op \in {"issue", "send", "pending"}
  PROVE  RequestsOK'
<1> DEFINE q == [op |-> op, user |-> request[r].user, password |-> request[r].password,
                 next |-> request[r].next, item |-> request[r].item]
<1>1. request' = [request EXCEPT ![r] = q]
  BY GoesRequest DEF AccountInv
<1>2. RequestOK(request[r], Registered, past.ownInvite)
  BY DEF AccountInv, RequestsOK
<1>3. RequestOK(q, Registered', past'.ownInvite)
  BY <1>2 DEF RequestOK, IsRequest, LetterOK, LinkOK, SpaceOK, Grows
<1> QED BY <1>1, <1>3, RequestsKept DEF AccountInv

LEMMA RepliesKeeps ==
  ASSUME AccountInv, NEW r \in Requests, Replies(r), Grows
  PROVE  RequestsOK'
BY NoneOK, RequestsKept DEF Replies, AccountInv

(* The history of who accepted an invitation to the own workspace is       *)
(* written by Accept alone.                                                *)
LEMMA PastKept ==
  ASSUME AccountInv, NEW r \in Requests,
         \/ DeleteOlder(r) \/ SendLink(r) \/ CreateSession(r) \/ Dies(r)
         \/ Verify(r) \/ Reset(r) \/ SetPending(r) \/ UpdatePassword(r) \/ Purge(r)
  PROVE  past'.ownInvite = past.ownInvite /\ past' \in Past
<1>1. /\ past \in Past
      /\ request[r].op # "none" => request[r].user \in Users
      /\ request[r].op = "reset" => request[r].item.link.user \in Users
  BY RegisteredIsUser DEF AccountInv, TablesOK, RequestsOK, RequestOK, LinkOK
<1>2. CASE past' = past
  BY <1>1, <1>2
<1>3. CASE Dies(r)
  <2>1. PICK X \in SUBSET Users, Y \in SUBSET Users :
          past' = [past EXCEPT !.crossed = X, !.unpurged = Y]
    BY <1>1, <1>3 DEF Dies, Past
  <2> QED BY <1>1, <2>1 DEF Past
<1>4. CASE Reset(r) \/ Purge(r)
  <2>1. PICK Y \in SUBSET Users : past' = [past EXCEPT !.unpurged = Y]
    BY <1>1, <1>4 DEF Reset, Purge, Past
  <2> QED BY <1>1, <2>1 DEF Past
<1>5. CASE SetPending(r)
  <2>1. PICK X \in SUBSET Users : past' = [past EXCEPT !.crossed = X]
    BY <1>1, <1>5 DEF SetPending, Past
  <2> QED BY <1>1, <2>1 DEF Past
<1> QED BY <1>2, <1>3, <1>4, <1>5
        DEF DeleteOlder, SendLink, CreateSession, Verify, UpdatePassword

LEMMA SameRegistered ==
  ASSUME account \in [Users -> Account], NEW u \in Users, NEW a \in Account,
         account' = [account EXCEPT ![u] = a], u \in Registered, a.email # NoEmail
  PROVE  account' \in [Users -> Account] /\ Registered' = Registered
BY DEF Registered

LEMMA SpacesSame ==
  ASSUME AccountInv, UNCHANGED <<role, joined, invite>>, Registered' = Registered,
         account' \in [Users -> Account],
         past'.ownInvite = past.ownInvite, past' \in Past,
         \A t \in token' : t.user \in Registered,
         \A s \in session' : s.user \in Registered
  PROVE  TablesOK' /\ OwnerRole'
<1>1. TablesOK'
  BY DEF AccountInv, TablesOK
<1>2. OwnerRole'
  BY DEF AccountInv, OwnerRole
<1> QED BY <1>1, <1>2

LEMMA LinksKeep ==
  ASSUME AccountInv, NEW r \in Requests,
         DeleteOlder(r) \/ SendLink(r) \/ CreateSession(r) \/ Dies(r)
  PROVE  AccountInv'
<1>1. /\ UNCHANGED <<account, role, joined, invite>>
      /\ past'.ownInvite = past.ownInvite /\ past' \in Past
  BY PastKept DEF DeleteOlder, SendLink, CreateSession, Dies, members, tables
<1> account' \in [Users -> Account]
  BY <1>1 DEF AccountInv, TablesOK
<1>2. Registered' = Registered /\ Grows
  BY <1>1 DEF Grows, Registered
<1>3. RequestOK(request[r], Registered, past.ownInvite)
  BY DEF AccountInv, RequestsOK
<1>4. CASE DeleteOlder(r)
  <2>1. RequestsOK'
    BY <1>2, <1>4, TakesUp DEF DeleteOlder
  <2>2. /\ \A t \in token' : t.user \in Registered
        /\ \A s \in session' : s.user \in Registered
    BY <1>4 DEF DeleteOlder, AccountInv, TablesOK
  <2> QED BY <1>1, <1>2, <2>1, <2>2, SpacesSame DEF AccountInv
<1>5. CASE SendLink(r)
  <2>1. request[r].user \in Registered /\ request[r].next \in {"none", "session"}
    BY <1>3, <1>5 DEF SendLink, RequestOK, LetterOK
  <2>2. RequestsOK'
    <3>1. CASE request[r].next = "none"
      BY <1>2, <1>5, <3>1, RepliesKeeps DEF SendLink
    <3>2. CASE request[r].next = "session"
      <4>1. Goes(r, "session")
        BY <1>5, <3>2 DEF SendLink
      <4> QED BY <1>2, <1>5, <4>1, TakesUp DEF SendLink
    <3> QED BY <2>1, <3>1, <3>2
  <2>3. /\ \A t \in token' : t.user \in Registered
        /\ \A s \in session' : s.user \in Registered
    BY <1>5, <2>1 DEF SendLink, AccountInv, TablesOK
  <2> QED BY <1>1, <1>2, <2>2, <2>3, SpacesSame DEF AccountInv
<1>6. CASE CreateSession(r)
  <2>1. request[r].user \in Registered
    BY <1>3, <1>6 DEF CreateSession, RequestOK
  <2>2. RequestsOK'
    BY <1>2, <1>6, RepliesKeeps DEF CreateSession
  <2>3. /\ \A t \in token' : t.user \in Registered
        /\ \A s \in session' : s.user \in Registered
    BY <1>6, <2>1 DEF CreateSession, AccountInv, TablesOK
  <2> QED BY <1>1, <1>2, <2>2, <2>3, SpacesSame DEF AccountInv
<1>7. CASE Dies(r)
  <2>1. RequestsOK'
    BY <1>2, <1>7, RepliesKeeps DEF Dies
  <2>2. /\ \A t \in token' : t.user \in Registered
        /\ \A s \in session' : s.user \in Registered
    BY <1>7 DEF Dies, tables, AccountInv, TablesOK
  <2> QED BY <1>1, <1>2, <2>1, <2>2, SpacesSame DEF AccountInv
<1> QED BY <1>4, <1>5, <1>6, <1>7

LEMMA WritesKeep ==
  ASSUME AccountInv, AccountAssumption, NEW r \in Requests,
         Verify(r) \/ Reset(r) \/ SetPending(r) \/ UpdatePassword(r) \/ Purge(r)
  PROVE  AccountInv'
<1>1. /\ RequestOK(request[r], Registered, past.ownInvite)
      /\ account \in [Users -> Account] /\ past \in Past
  BY DEF AccountInv, RequestsOK, TablesOK
<1>2. UNCHANGED <<role, joined, invite>> /\ past'.ownInvite = past.ownInvite /\ past' \in Past
  BY PastKept DEF Verify, Reset, SetPending, UpdatePassword, Purge, members
<1>3. SUFFICES ASSUME account' \in [Users -> Account], Registered' = Registered, RequestsOK',
                      token' \subseteq token, session' \subseteq session
               PROVE  AccountInv'
  <2>1. CASE Verify(r)
    <3> DEFINE u == request[r].item.link.user
    <3>1. u \in Registered /\ u \in Users /\ account[u] \in Account
      BY <1>1, <2>1, RegisteredIsUser DEF Verify, RequestOK, LinkOK
    <3>2. account' \in [Users -> Account] /\ Registered' = Registered
      <4>1. CASE request[r].item.link.purpose = "change"
        <5>1. request[r].item.pending \in Emails /\ request[r].item.pending # NoEmail
          BY <1>1, <2>1, <4>1 DEF Verify, RequestOK, LinkOK, AccountAssumption
        <5>2. account' = account \/
              account' = [account EXCEPT ![u] = [account[u] EXCEPT !.email = request[r].item.pending,
                                                    !.pending = NoEmail, !.verified = TRUE]]
          BY <1>1, <2>1, <3>1, <4>1 DEF Verify, Account
        <5>3. [account[u] EXCEPT !.email = request[r].item.pending, !.pending = NoEmail,
                                 !.verified = TRUE] \in Account
          BY <3>1, <5>1 DEF Account
        <5>4. CASE account' = account
          BY <1>1, <5>4 DEF Registered
        <5> QED BY <1>1, <3>1, <5>1, <5>2, <5>3, <5>4, SameRegistered DEF Account
      <4>2. CASE request[r].item.link.purpose # "change"
        <5>1. /\ account' = [account EXCEPT ![u] = [account[u] EXCEPT !.verified = TRUE]]
              /\ [account[u] EXCEPT !.verified = TRUE] \in Account
          BY <1>1, <2>1, <3>1, <4>2 DEF Verify, Account
        <5> QED BY <1>1, <3>1, <5>1, SameRegistered DEF Registered, Account
      <4> QED BY <4>1, <4>2
    <3>3. RequestsOK'
      BY <1>2, <2>1, <3>2, RepliesKeeps DEF Verify, Grows
    <3>4. token' \subseteq token /\ session' \subseteq session
      BY <2>1 DEF Verify
    <3> QED BY <1>3, <3>2, <3>3, <3>4
  <2>2. CASE Reset(r)
    <3> DEFINE u == request[r].item.link.user
    <3>1. u \in Registered /\ u \in Users /\ account[u] \in Account
      BY <1>1, <2>2, RegisteredIsUser DEF Reset, RequestOK, LinkOK
    <3>2. /\ account' = [account EXCEPT ![u] = [account[u] EXCEPT !.password = @ + 1]]
          /\ [account[u] EXCEPT !.password = @ + 1] \in Account
      <4>1. [account[u] EXCEPT !.password = @ + 1] \in Account
        BY <3>1, NextPassword
      <4>2. account' = [account EXCEPT ![u] = [account[u] EXCEPT !.password = @ + 1]]
        BY <1>1, <2>2, <3>1 DEF Reset
      <4> QED BY <4>1, <4>2
    <3>3. account' \in [Users -> Account] /\ Registered' = Registered
      BY <1>1, <3>1, <3>2, SameRegistered DEF Registered, Account
    <3>4. RequestsOK'
      BY <1>2, <2>2, <3>3, RepliesKeeps DEF Reset, Grows
    <3>5. token' \subseteq token /\ session' \subseteq session
      BY <2>2 DEF Reset, Others
    <3> QED BY <1>3, <3>3, <3>4, <3>5
  <2>3. CASE SetPending(r)
    <3> DEFINE u == request[r].user
    <3>1. /\ u \in Registered /\ u \in Users /\ account[u] \in Account
          /\ request[r].item.to \in Emails
      BY <1>1, <2>3, RegisteredIsUser DEF SetPending, RequestOK, LetterOK
    <3>2. /\ account' = [account EXCEPT ![u] = [account[u] EXCEPT !.pending = request[r].item.to]]
          /\ [account[u] EXCEPT !.pending = request[r].item.to] \in Account
      BY <1>1, <2>3, <3>1 DEF SetPending, Letter, Account
    <3>3. account' \in [Users -> Account] /\ Registered' = Registered
      BY <1>1, <3>1, <3>2, SameRegistered DEF Registered, Account
    <3>4. RequestsOK'
      BY <1>2, <2>3, <3>3, TakesUp DEF SetPending, Grows
    <3> QED BY <1>3, <2>3, <3>3, <3>4 DEF SetPending
  <2>4. CASE UpdatePassword(r)
    <3> DEFINE u == request[r].user
               q == [op |-> "purge", user |-> u, next |-> "none",
                     password |-> account[u].password + 1, item |-> <<>>]
    <3>1. u \in Registered /\ u \in Users /\ account[u] \in Account
      BY <1>1, <2>4, RegisteredIsUser DEF UpdatePassword, RequestOK
    <3>2. /\ account' = [account EXCEPT ![u] = [account[u] EXCEPT !.password = @ + 1]]
          /\ [account[u] EXCEPT !.password = @ + 1] \in Account
      <4>1. [account[u] EXCEPT !.password = @ + 1] \in Account
        BY <3>1, NextPassword
      <4>2. account' = [account EXCEPT ![u] = [account[u] EXCEPT !.password = @ + 1]]
        BY <1>1, <2>4, <3>1 DEF UpdatePassword
      <4> QED BY <4>1, <4>2
    <3>3. account' \in [Users -> Account] /\ Registered' = Registered
      BY <1>1, <3>1, <3>2, SameRegistered DEF Registered, Account
    <3>4. request' = [request EXCEPT ![r] = q]
      BY <2>4 DEF UpdatePassword
    <3>5. RequestOK(q, Registered', past'.ownInvite)
      BY <3>1, <3>3 DEF RequestOK, IsRequest, LetterOK, LinkOK, SpaceOK
    <3>6. RequestsOK'
      BY <1>2, <3>3, <3>4, <3>5, RequestsKept DEF AccountInv, Grows
    <3> QED BY <1>3, <2>4, <3>3, <3>6 DEF UpdatePassword
  <2>5. CASE Purge(r)
    <3>1. account' = account /\ Registered' = Registered
      BY <2>5 DEF Purge, Registered
    <3>2. RequestsOK'
      BY <1>2, <2>5, <3>1, TakesUp DEF Purge, Grows
    <3> QED BY <1>1, <1>3, <2>5, <3>1, <3>2 DEF Purge, Others
  <2> QED BY <2>1, <2>2, <2>3, <2>4, <2>5
<1>4. TablesOK' /\ OwnerRole'
  BY <1>2, <1>3, SpacesSame DEF AccountInv, TablesOK
<1> QED BY <1>3, <1>4 DEF AccountInv

(* The steps that write the tables of workspaces: the role of an owner is  *)
(* overwritten by an own invitation alone.                                 *)
LEMMA SpacesKeep ==
  ASSUME AccountInv, NEW r \in Requests,
         Invite(r) \/ Accept(r) \/ SetRole(r) \/ RemoveMember(r)
  PROVE  AccountInv'
<1> DEFINE x == request[r].item
<1>1. /\ RequestOK(request[r], Registered, past.ownInvite)
      /\ role \in [Users -> [Users -> Roles]] /\ joined \in [Users -> Seq(Users)]
      /\ past \in Past
  BY DEF AccountInv, RequestsOK, TablesOK
<1>2. UNCHANGED <<account, token, session>> /\ Registered' = Registered /\ Replies(r)
  BY DEF Invite, Accept, SetRole, RemoveMember, Registered
<1>3. CASE Invite(r)
  <2>1. UNCHANGED <<role, joined, past>> /\ Grows
    BY <1>2, <1>3 DEF Invite, Grows
  <2>2. RequestsOK'
    BY <1>2, <2>1, RepliesKeeps
  <2>3. \A i \in invite' : i.space \in Registered' /\ i.role \in GivenRoles
    BY <1>1, <1>2, <1>3 DEF Invite, RequestOK, SpaceOK, AccountInv, TablesOK
  <2>4. TablesOK'
    BY <1>2, <2>1, <2>3 DEF AccountInv, TablesOK
  <2>5. OwnerRole'
    BY <1>2, <2>1 DEF AccountInv, OwnerRole
  <2> QED BY <2>2, <2>4, <2>5 DEF AccountInv
<1>4. CASE Accept(r)
  <2> DEFINE u == request[r].user
  <2>1. /\ u \in Registered /\ u \in Users /\ x.space \in Registered /\ x.space \in Users
        /\ x.role \in GivenRoles
    BY <1>1, <1>4, RegisteredIsUser DEF Accept, RequestOK, SpaceOK
  <2>2. past' = [past EXCEPT !.ownInvite = past.ownInvite \cup ({u} \cap {x.space})]
    BY <1>4 DEF Accept
  <2>3. /\ past'.ownInvite = past.ownInvite \cup ({u} \cap {x.space}) /\ past' \in Past
        /\ Grows
    BY <1>1, <1>2, <2>1, <2>2 DEF Past, Grows
  <2>4. role' = [role EXCEPT ![x.space][u] = x.role]
    BY <1>4 DEF Accept
  <2>5. /\ role' \in [Users -> [Users -> Roles]] /\ role'[x.space][u] = x.role
        /\ \A s, v \in Users : s # x.space \/ v # u => role'[s][v] = role[s][v]
    BY <1>1, <2>1, <2>4 DEF Roles
  <2>6. RequestsOK'
    BY <1>2, <2>3, RepliesKeeps
  <2>7. OwnerRole'
    <3>1. ASSUME NEW s \in Users, NEW v \in Users, role'[s][v] = "owner"
          PROVE  v = s
      BY <2>1, <2>5, <3>1 DEF AccountInv, OwnerRole, GivenRoles
    <3>2. ASSUME NEW s \in Registered' \ past'.ownInvite
          PROVE  role'[s][s] = "owner"
      <4>1. s \in Users /\ s \in Registered \ past.ownInvite /\ (s # x.space \/ s # u)
        BY <1>2, <2>3, <3>2, RegisteredIsUser
      <4>2. role'[s][s] = role[s][s]
        BY <2>5, <4>1
      <4> QED BY <4>1, <4>2 DEF AccountInv, OwnerRole
    <3> QED BY <3>1, <3>2 DEF OwnerRole
  <2>8. /\ joined' \in [Users -> Seq(Users)]
        /\ \A v \in Users : v # u => joined'[v] = joined[v]
        /\ \A k \in 1 .. Len(joined[u]) :
             k \in 1 .. Len(joined'[u]) /\ joined'[u][k] = joined[u][k]
        /\ \A k \in 1 .. Len(joined'[u]) :
             joined'[u][k] = x.space \/ (k \in 1 .. Len(joined[u]) /\ joined'[u][k] = joined[u][k])
        /\ \E k \in 1 .. Len(joined'[u]) : joined'[u][k] = x.space
    <3>1. joined[u] \in Seq(Users)
      BY <1>1, <2>1
    <3>2. \/ joined'[u] = Append(joined[u], x.space)
          \/ joined'[u] = joined[u] /\ \E k \in 1 .. Len(joined[u]) : joined[u][k] = x.space
      <4>1. CASE role[x.space][u] # "none"
        BY <1>4, <2>1, <4>1 DEF Accept, AccountInv, TablesOK
      <4>2. CASE role[x.space][u] = "none"
        BY <1>1, <1>4, <2>1, <4>2 DEF Accept
      <4> QED BY <4>1, <4>2
    <3>3. \A v \in Users : v # u => joined'[v] = joined[v]
      BY <1>1, <1>4, <2>1 DEF Accept
    <3>4. joined' = [v \in Users |-> joined'[v]]
      BY <1>1, <1>4 DEF Accept
    <3> HIDE DEF u, x
    <3>5. /\ joined'[u] \in Seq(Users)
          /\ \A k \in 1 .. Len(joined[u]) :
               k \in 1 .. Len(joined'[u]) /\ joined'[u][k] = joined[u][k]
      BY <2>1, <3>1, <3>2, WithSpace
    <3>6. \A k \in 1 .. Len(joined'[u]) :
            joined'[u][k] = x.space \/ (k \in 1 .. Len(joined[u]) /\ joined'[u][k] = joined[u][k])
      BY <2>1, <3>1, <3>2, WithSpace
    <3>7. \E k \in 1 .. Len(joined'[u]) : joined'[u][k] = x.space
      <4>1. PICK s : s = x.space
        OBVIOUS
      <4>2. \/ joined'[u] = Append(joined[u], s)
            \/ joined'[u] = joined[u] /\ \E k \in 1 .. Len(joined[u]) : joined[u][k] = s
        BY <3>2, <4>1
      <4>3. \E k \in 1 .. Len(joined'[u]) : joined'[u][k] = s
        BY <2>1, <3>1, <4>1, <4>2, WithSpace
      <4> QED BY <4>1, <4>3
    <3>8. joined' \in [Users -> Seq(Users)]
      BY <1>1, <3>3, <3>4, <3>5
    <3> QED BY <3>3, <3>5, <3>6, <3>7, <3>8
  <2>9. TablesOK'
    <3>1. \A v \in Users : \A k \in 1 .. Len(joined'[v]) : joined'[v][k] \in Registered'
      BY <1>2, <2>1, <2>8 DEF AccountInv, TablesOK
    <3>2. ASSUME NEW s \in Users, NEW v \in Users, role'[s][v] # "none"
          PROVE  v \in Registered' /\ \E k \in 1 .. Len(joined'[v]) : joined'[v][k] = s
      <4>1. CASE s = x.space /\ v = u
        BY <1>2, <2>1, <2>8, <4>1
      <4>2. CASE ~(s = x.space /\ v = u)
        <5>1. role[s][v] # "none"
          BY <2>5, <3>2, <4>2
        <5>2. v \in Registered /\ \E k \in 1 .. Len(joined[v]) : joined[v][k] = s
          BY <5>1 DEF AccountInv, TablesOK
        <5> QED BY <1>2, <2>8, <5>2
      <4> QED BY <4>1, <4>2
    <3>3. \A i \in invite' : i.space \in Registered' /\ i.role \in GivenRoles
      BY <1>2, <1>4 DEF Accept, AccountInv, TablesOK
    <3> QED BY <1>2, <2>3, <2>5, <2>8, <3>1, <3>2, <3>3 DEF AccountInv, TablesOK
  <2> QED BY <2>6, <2>7, <2>9 DEF AccountInv
<1>5. CASE SetRole(r)
  <2>1. /\ x.space \in Users /\ x.user \in Users /\ x.role \in GivenRoles
        /\ x.user = x.space => x.space \in past.ownInvite
    BY <1>1, <1>5 DEF SetRole, RequestOK, SpaceOK
  <2>2. UNCHANGED <<joined, invite, past>> /\ Grows
    BY <1>2, <1>5 DEF SetRole, Grows
  <2>3. /\ role' \in [Users -> [Users -> Roles]]
        /\ \A s, v \in Users : \/ role'[s][v] = role[s][v]
                               \/ /\ s = x.space /\ v = x.user /\ role[s][v] # "none"
                                  /\ role'[s][v] = x.role
    BY <1>1, <1>5, <2>1 DEF SetRole, Roles
  <2>4. RequestsOK'
    BY <1>2, <2>2, RepliesKeeps
  <2>5. OwnerRole'
    BY <1>2, <2>1, <2>2, <2>3 DEF AccountInv, OwnerRole, GivenRoles
  <2>6. \A s, v \in Users : role'[s][v] # "none" => role[s][v] # "none"
    BY <2>3
  <2>7. TablesOK'
    BY <1>2, <2>2, <2>3, <2>6 DEF AccountInv, TablesOK
  <2> QED BY <2>4, <2>5, <2>7 DEF AccountInv
<1>6. CASE RemoveMember(r)
  <2>1. UNCHANGED <<invite, past>> /\ Grows
    BY <1>2, <1>6 DEF RemoveMember, Grows
  <2>2. RequestsOK'
    BY <1>2, <2>1, RepliesKeeps
  <2>3. CASE ~Subject(x.space, x.user)
    <3>1. UNCHANGED <<role, joined>>
      BY <1>6, <2>3 DEF RemoveMember
    <3>2. TablesOK'
      BY <1>2, <2>1, <3>1 DEF AccountInv, TablesOK
    <3>3. OwnerRole'
      BY <1>2, <2>1, <3>1 DEF AccountInv, OwnerRole
    <3> QED BY <2>2, <3>2, <3>3 DEF AccountInv
  <2>4. CASE Subject(x.space, x.user)
    <3> DEFINE u == x.user
    <3>1. x.space \in Users /\ u \in Users /\ role[x.space][u] \notin {"none", "owner"}
      BY <1>1, <1>6, <2>4 DEF RemoveMember, RequestOK, SpaceOK, Subject
    <3>2. /\ role' = [role EXCEPT ![x.space][u] = "none"]
          /\ joined' = [joined EXCEPT ![u] = Without(joined[u], x.space)]
      BY <1>6, <2>4 DEF RemoveMember
    <3>3. /\ role' \in [Users -> [Users -> Roles]] /\ role'[x.space][u] = "none"
          /\ \A s, v \in Users : s # x.space \/ v # u => role'[s][v] = role[s][v]
      BY <1>1, <3>1, <3>2 DEF Roles
    <3>4. /\ Without(joined[u], x.space) \in Seq(Users)
          /\ \A k \in 1 .. Len(Without(joined[u], x.space)) :
               \E j \in 1 .. Len(joined[u]) : Without(joined[u], x.space)[k] = joined[u][j]
          /\ \A j \in 1 .. Len(joined[u]) : joined[u][j] # x.space =>
               \E k \in 1 .. Len(Without(joined[u], x.space)) :
                 Without(joined[u], x.space)[k] = joined[u][j]
      <4>1. joined[u] \in Seq(Users) /\ \E k \in 1 .. Len(joined[u]) : joined[u][k] = x.space
        BY <1>1, <3>1 DEF AccountInv, TablesOK
      <4> HIDE DEF u, x
      <4> QED BY <3>1, <4>1, WithoutSpace, SMTT(30)
    <3>5. /\ joined' \in [Users -> Seq(Users)] /\ joined'[u] = Without(joined[u], x.space)
          /\ \A v \in Users : v # u => joined'[v] = joined[v]
      BY <1>1, <3>1, <3>2, <3>4
    <3>6. ASSUME NEW v \in Users, NEW k \in 1 .. Len(joined'[v])
          PROVE  joined'[v][k] \in Registered'
      <4>1. CASE v = u
        <5>1. \E j \in 1 .. Len(joined[u]) : joined'[u][k] = joined[u][j]
          <6>1. joined'[u] = Without(joined[u], x.space)
            BY <3>5
          <6>2. k \in 1 .. Len(Without(joined[u], x.space))
            BY <3>6, <4>1, <6>1
          <6> HIDE DEF u, x
          <6> QED BY <3>4, <6>1, <6>2
        <5> QED BY <1>2, <3>1, <4>1, <5>1 DEF AccountInv, TablesOK
      <4>2. CASE v # u
        BY <1>2, <3>5, <4>2 DEF AccountInv, TablesOK
      <4> QED BY <4>1, <4>2
    <3>7. ASSUME NEW s \in Users, NEW v \in Users, role'[s][v] # "none"
          PROVE  v \in Registered' /\ \E k \in 1 .. Len(joined'[v]) : joined'[v][k] = s
      <4>1. role[s][v] # "none" /\ (s # x.space \/ v # u)
        BY <3>3, <3>7
      <4>2. v \in Registered /\ \E j \in 1 .. Len(joined[v]) : joined[v][j] = s
        BY <4>1 DEF AccountInv, TablesOK
      <4>3. CASE v # u
        BY <1>2, <3>5, <4>2, <4>3
      <4>4. CASE v = u
        <5>1. PICK j \in 1 .. Len(joined[u]) : joined[u][j] = s
          BY <4>2, <4>4
        <5>2. \E k \in 1 .. Len(Without(joined[u], x.space)) :
                Without(joined[u], x.space)[k] = joined[u][j]
          BY <3>4, <4>1, <4>4, <5>1
        <5> HIDE DEF u, x
        <5> QED BY <1>2, <3>5, <4>2, <4>4, <5>1, <5>2
      <4> QED BY <4>3, <4>4
    <3>8. TablesOK'
      BY <1>2, <2>1, <3>3, <3>5, <3>6, <3>7 DEF AccountInv, TablesOK
    <3>9. OwnerRole'
      BY <1>2, <2>1, <3>1, <3>3, RegisteredIsUser DEF AccountInv, OwnerRole
    <3> QED BY <2>2, <3>8, <3>9 DEF AccountInv
  <2> QED BY <2>3, <2>4
<1> QED BY <1>3, <1>4, <1>5, <1>6

LEMMA AccountsStart ==
  ASSUME AccountAssumption, AccountInit
  PROVE  AccountInv
<1>1. PICK there \in SUBSET Users :
        account = [u \in Users |-> IF u \notin there THEN NoAccount
                    ELSE [NoAccount EXCEPT !.email = Home[u], !.verified = TRUE,
                                           !.required = Required]]
  BY DEF AccountInit
<1>2. account \in [Users -> Account] /\ Registered = there
  <2>1. ASSUME NEW u \in Users
        PROVE  account[u] \in Account /\ (account[u].email # NoEmail <=> u \in there)
    <3>1. CASE u \in there
      <4>1. account[u] = [NoAccount EXCEPT !.email = Home[u], !.verified = TRUE,
                                           !.required = Required]
        BY <1>1, <3>1
      <4>2. Home[u] \in Emails /\ Home[u] # NoEmail /\ Required \in BOOLEAN
        BY DEF AccountAssumption
      <4>3. NoAccount \in Account
        BY DEF Account, NoAccount
      <4> HIDE DEF NoAccount
      <4> QED BY <3>1, <4>1, <4>2, <4>3 DEF Account
    <3>2. CASE u \notin there
      BY <1>1, <3>2 DEF Account, NoAccount
    <3> QED BY <3>1, <3>2
  <2>2. account = [u \in Users |-> account[u]]
    BY <1>1
  <2> QED BY <2>1, <2>2 DEF Registered
<1>3. PICK s \in Users, u \in Users, given \in GivenRoles :
        LET owned(v) == IF v \in Registered THEN <<v>> ELSE <<>>
            team == u # s /\ {s, u} \subseteq Registered
        IN  /\ role = [w \in Users |-> [v \in Users |->
                 IF v = w /\ v \in Registered THEN "owner"
                 ELSE IF team /\ w = s /\ v = u THEN given ELSE "none"]]
            /\ joined = [v \in Users |-> IF team /\ v = u THEN <<u, s>> ELSE owned(v)]
  BY DEF AccountInit
<1> DEFINE team == u # s /\ {s, u} \subseteq Registered
<1>4. /\ role \in [Users -> [Users -> Roles]]
      /\ \A w, v \in Users : role[w][v] = IF v = w /\ v \in Registered THEN "owner"
                                          ELSE IF team /\ w = s /\ v = u THEN given ELSE "none"
  BY <1>3 DEF Roles, GivenRoles
<1>5. OwnerRole
  BY <1>4, RegisteredIsUser DEF OwnerRole, GivenRoles
<1>6. ASSUME NEW v \in Users
      PROVE  /\ joined[v] \in Seq(Users)
             /\ \A k \in 1 .. Len(joined[v]) : joined[v][k] \in Registered
             /\ \A w \in Users : role[w][v] # "none" =>
                  v \in Registered /\ \E k \in 1 .. Len(joined[v]) : joined[v][k] = w
  <2>1. CASE team /\ v = u
    <3>1. joined[v] = <<u, s>>
      BY <1>3, <2>1
    <3>2. /\ <<u, s>> \in Seq(Users) /\ Len(<<u, s>>) = 2
          /\ <<u, s>>[1] = u /\ <<u, s>>[2] = s
      OBVIOUS
    <3>3. \A w \in Users : role[w][v] # "none" => w = s \/ w = u
      BY <1>4, <2>1
    <3>4. \A k \in 1 .. Len(<<u, s>>) : k = 1 \/ k = 2
      BY <3>2
    <3>5. 1 \in 1 .. Len(<<u, s>>) /\ 2 \in 1 .. Len(<<u, s>>)
      BY <3>2
    <3> QED BY <2>1, <3>1, <3>2, <3>3, <3>4, <3>5
  <2>2. CASE ~(team /\ v = u) /\ v \in Registered
    <3>1. joined[v] = <<v>>
      BY <1>3, <2>2
    <3>2. <<v>> \in Seq(Users) /\ Len(<<v>>) = 1 /\ <<v>>[1] = v
      OBVIOUS
    <3>3. \A w \in Users : role[w][v] # "none" => w = v
      BY <1>4, <2>2
    <3>4. \A k \in 1 .. Len(<<v>>) : k = 1
      BY <3>2
    <3>5. 1 \in 1 .. Len(<<v>>)
      BY <3>2
    <3> QED BY <2>2, <3>1, <3>2, <3>3, <3>4, <3>5
  <2>3. CASE ~(team /\ v = u) /\ v \notin Registered
    <3>1. joined[v] = <<>>
      BY <1>3, <2>3
    <3>2. \A w \in Users : role[w][v] = "none"
      BY <1>4, <2>3
    <3> QED BY <3>1, <3>2
  <2> QED BY <2>1, <2>2, <2>3
<1>7. TablesOK
  <2>1. joined \in [Users -> Seq(Users)]
    BY <1>3, <1>6
  <2>2. past \in Past
    BY DEF AccountInit, Past
  <2>3. token = {} /\ invite = {} /\ \A x \in session : x.user \in Registered
    BY DEF AccountInit
  <2> QED BY <1>2, <1>4, <1>6, <2>1, <2>2, <2>3 DEF TablesOK
<1>8. RequestsOK
  BY NoneOK DEF AccountInit, RequestsOK
<1> QED BY <1>5, <1>7, <1>8 DEF AccountInv

LEMMA AccountsKeep ==
  ASSUME AccountAssumption, AccountInv, [AccountNext]_accountVars
  PROVE  AccountInv'
<1>1. ASSUME NEW r \in Requests, BeginsOf(r)
      PROVE  AccountInv'
  BY <1>1, BeginsKeeps
<1>2. ASSUME NEW r \in Requests, GoesOn(r)
      PROVE  AccountInv'
  BY <1>2, LinksKeep, WritesKeep, SpacesKeep DEF GoesOn
<1>3. CASE \/ \E gone \in SUBSET session : EndSessions(gone)
           \/ RunsOut
           \/ UNCHANGED accountVars
  <2>1. /\ UNCHANGED <<account, role, joined, request, past>> /\ Registered' = Registered
        /\ token' \subseteq token /\ session' \subseteq session /\ invite' \subseteq invite
    BY <1>3 DEF EndSessions, RunsOut, accountVars, members, Registered
  <2>2. TablesOK'
    BY <2>1 DEF AccountInv, TablesOK
  <2>3. RequestsOK'
    BY <2>1 DEF AccountInv, RequestsOK
  <2>4. OwnerRole'
    BY <2>1 DEF AccountInv, OwnerRole
  <2> QED BY <2>2, <2>3, <2>4 DEF AccountInv
<1> QED BY <1>1, <1>2, <1>3 DEF AccountNext

(* AccountSpec keeps OwnerRole: whatever requests race, a workspace has    *)
(* the one owner who made it, unless the owner accepted an invitation to   *)
(* it.                                                                     *)
THEOREM OwnerRoleHolds == AccountSpec => []OwnerRole
<1> USE AccountAssumption
<1>1. AccountInit => AccountInv
  BY AccountsStart
<1>2. AccountInv /\ [AccountNext]_accountVars => AccountInv'
  BY AccountsKeep
<1>3. AccountInv => OwnerRole
  BY DEF AccountInv
<1> QED BY <1>1, <1>2, <1>3, PTL DEF AccountSpec

-----------------------------------------------------------------------------
(* Sessions after a change of password.                                    *)

(* The requests that begin leave the sessions and do not end a purge; only *)
(* a registration writes an account, of a user who has no session.         *)
LEMMA BeginsAside ==
  ASSUME AccountInv, NEW r \in Requests, BeginsOf(r)
  PROVE  /\ UNCHANGED <<token, session>>
         /\ past'.unpurged = past.unpurged
         /\ request[r].op = "none"
         /\ \A x \in Requests : x # r => request'[x] = request[x]
         /\ \A u \in Registered : account'[u] = account[u]
<1>1. /\ request = [x \in Requests |-> request[x]] /\ account \in [Users -> Account]
      /\ past \in Past
  BY DEF AccountInv, RequestsOK, TablesOK
<1>2. CASE \E u \in Users, e \in Emails : Register(r, u, e)
  BY <1>1, <1>2 DEF Register, Asked, Registered
<1>3. CASE \E t \in token : AskVerify(r, t)
  <2>1. UNCHANGED tables /\ past'.unpurged = past.unpurged
    BY <1>1, <1>3 DEF AskVerify, Past
  <2> QED BY <1>1, <1>3, <2>1 DEF AskVerify, Asked, tables
<1>4. CASE ~(\E u \in Users, e \in Emails : Register(r, u, e)) /\ ~(\E t \in token : AskVerify(r, t))
  <2>1. UNCHANGED <<tables, past>> /\ \E op, u, next, item : Asked(r, op, u, next, item)
    <3>1. ASSUME NEW u \in Users, Login(r, u)
          PROVE  UNCHANGED <<tables, past>> /\ \E op, v, next, item : Asked(r, op, v, next, item)
      BY <3>1 DEF Login
    <3> QED BY <1>4, <3>1 DEF BeginsOf, AskEmail, AskInvite, Resend, Forgot, AskPassword,
                              AskAccept, AskMember, AskReset
  <2> QED BY <1>1, <2>1 DEF Asked, tables
<1> QED BY <1>2, <1>3, <1>4

LEMMA SessionsKept ==
  ASSUME AccountInv, AccountAssumption, SessionsFollowPassword, [AccountNext]_accountVars
  PROVE  SessionsFollowPassword'
<1>1. /\ request = [x \in Requests |-> request[x]] /\ account \in [Users -> Account]
      /\ past \in Past
      /\ \A s \in session : s.user \in Registered /\ s.user \in Users
  BY RegisteredIsUser DEF AccountInv, RequestsOK, TablesOK
<1> DEFINE Fine(s) == \/ s.password = account[s.user].password \/ s.late
                      \/ \E r \in Requests : request[r].op = "purge" /\ request[r].user = s.user
                      \/ s.user \in past.unpurged
<1>2. \A s \in session : Fine(s)
  BY DEF SessionsFollowPassword
<1>3. SUFFICES ASSUME NEW s \in session'
               PROVE  Fine(s)'
  BY DEF SessionsFollowPassword
<1>4. ASSUME NEW r \in Requests, BeginsOf(r)
      PROVE  Fine(s)'
  BY <1>1, <1>2, <1>4, BeginsAside
<1>5. ASSUME NEW r \in Requests, GoesOn(r)
      PROVE  Fine(s)'
  <2>1. \A x \in Requests : x # r => request'[x] = request[x]
    BY <1>1, <1>5 DEF GoesOn, DeleteOlder, SendLink, CreateSession, Verify, Reset, SetPending,
                      UpdatePassword, Purge, Invite, Accept, SetRole, RemoveMember, Dies,
                      Goes, Replies
  <2>2. CASE CreateSession(r)
    <3>1. account' = account /\ past' = past /\ request[r].op = "session"
      BY <2>2 DEF CreateSession
    <3>2. CASE s \in session
      BY <1>2, <2>1, <3>1, <3>2
    <3>3. CASE s \notin session
      <4>1. /\ s.user = request[r].user /\ s.password = request[r].password
            /\ s.late = (request[r].password # account[request[r].user].password)
        BY <2>2, <3>3 DEF CreateSession
      <4>2. CASE request[r].password = account[request[r].user].password
        BY <3>1, <4>1, <4>2
      <4>3. CASE request[r].password # account[request[r].user].password
        BY <4>1, <4>3
      <4> QED BY <4>2, <4>3
    <3> QED BY <3>2, <3>3
  <2>3. CASE Reset(r)
    <3>1. s \in session /\ s.user # request[r].item.link.user
      BY <2>3 DEF Reset, Others
    <3>2. account'[s.user] = account[s.user] /\ request[r].op # "purge"
      BY <1>1, <2>3, <3>1 DEF Reset
    <3>3. past'.unpurged = past.unpurged \ {request[r].item.link.user}
      BY <1>1, <2>3 DEF Reset, Past
    <3> QED BY <1>2, <2>1, <3>1, <3>2, <3>3
  <2>4. CASE Purge(r)
    <3>1. s \in session /\ s.user # request[r].user
      BY <2>4 DEF Purge, Others
    <3>2. past'.unpurged = past.unpurged \ {request[r].user} /\ account' = account
      BY <1>1, <2>4 DEF Purge, Past
    <3>3. Fine(s)
      BY <1>2, <3>1
    <3>4. CASE \E x \in Requests : request[x].op = "purge" /\ request[x].user = s.user
      BY <2>1, <3>1, <3>4
    <3> QED BY <3>1, <3>2, <3>3, <3>4
  <2>5. CASE UpdatePassword(r)
    <3>1. s \in session /\ request[r].op = "password" /\ past' = past
      BY <2>5 DEF UpdatePassword
    <3>2. request'[r].op = "purge" /\ request'[r].user = request[r].user
      BY <1>1, <2>5 DEF UpdatePassword
    <3>3. s.user # request[r].user => account'[s.user] = account[s.user]
      BY <1>1, <2>5, <3>1 DEF UpdatePassword
    <3> QED BY <1>2, <2>1, <3>1, <3>2, <3>3
  <2>6. CASE Dies(r)
    <3>1. s \in session /\ account' = account
      BY <2>6 DEF Dies, tables
    <3>2. /\ past.unpurged \subseteq past'.unpurged
          /\ request[r].op = "purge" => request[r].user \in past'.unpurged
      BY <1>1, <2>6 DEF Dies, Past
    <3> QED BY <1>2, <2>1, <3>1, <3>2
  <2>7. CASE Verify(r) \/ SetPending(r)
    <3>1. s \in session /\ request[r].op # "purge"
      BY <2>7 DEF Verify, SetPending
    <3>2. past'.unpurged = past.unpurged
      BY <1>1, <2>7 DEF Verify, SetPending, Past
    <3>3. account'[s.user].password = account[s.user].password
      <4>1. account[s.user] \in Account
        BY <1>1, <3>1
      <4>2. CASE Verify(r)
        <5> DEFINE u == request[r].item.link.user
                   to == request[r].item.pending
        <5>1. CASE account' = [account EXCEPT ![u].email = to, ![u].pending = NoEmail,
                                              ![u].verified = TRUE]
          <6>1. s.user # u => account'[s.user] = account[s.user]
            BY <1>1, <3>1, <5>1
          <6>2. s.user = u => account'[s.user] = [account[s.user] EXCEPT !.email = to,
                                                    !.pending = NoEmail, !.verified = TRUE]
            BY <1>1, <3>1, <5>1
          <6> HIDE DEF u, to
          <6> QED BY <4>1, <6>1, <6>2 DEF Account
        <5>2. CASE account' = [account EXCEPT ![u].verified = TRUE]
          BY <1>1, <3>1, <4>1, <5>2 DEF Account
        <5> QED BY <4>2, <5>1, <5>2 DEF Verify
      <4>3. CASE SetPending(r)
        BY <1>1, <3>1, <4>1, <4>3 DEF SetPending, Account
      <4> QED BY <2>7, <4>2, <4>3
    <3> QED BY <1>2, <2>1, <3>1, <3>2, <3>3
  <2>8. CASE \/ DeleteOlder(r) \/ SendLink(r) \/ Invite(r) \/ Accept(r) \/ SetRole(r)
             \/ RemoveMember(r)
    <3>1. s \in session /\ account' = account /\ request[r].op # "purge"
      BY <2>8 DEF DeleteOlder, SendLink, Invite, Accept, SetRole, RemoveMember
    <3>2. past'.unpurged = past.unpurged
      BY <1>1, <2>8 DEF DeleteOlder, SendLink, Invite, Accept, SetRole, RemoveMember, Past
    <3> QED BY <1>2, <2>1, <3>1, <3>2
  <2> QED BY <1>5, <2>2, <2>3, <2>4, <2>5, <2>6, <2>7, <2>8 DEF GoesOn
<1>6. CASE \/ \E gone \in SUBSET session : EndSessions(gone)
           \/ RunsOut
           \/ UNCHANGED accountVars
  BY <1>2, <1>6 DEF EndSessions, RunsOut, accountVars
<1> QED BY <1>4, <1>5, <1>6 DEF AccountNext

(* AccountSpec keeps SessionsFollowPassword: however requests overlap, a   *)
(* session of an older password is one that the change has still to end,   *)
(* or one opened by a request that had seen the old password.              *)
THEOREM SessionsFollowPasswordHolds == AccountSpec => []SessionsFollowPassword
<1> USE AccountAssumption
<1>1. AccountInit => AccountInv
  BY AccountsStart
<1>2. AccountInv /\ [AccountNext]_accountVars => AccountInv'
  BY AccountsKeep
<1>3. AccountInit => SessionsFollowPassword
  <2>1. SUFFICES ASSUME AccountInit, NEW s \in session
                 PROVE  s.password = account[s.user].password
    BY DEF SessionsFollowPassword
  <2>2. s.user \in Users /\ s.password = 0
    BY <2>1, RegisteredIsUser DEF AccountInit
  <2>3. \A u \in Users : account[u].password = 0
    <3>1. PICK there \in SUBSET Users :
            account = [u \in Users |-> IF u \notin there THEN NoAccount
                        ELSE [NoAccount EXCEPT !.email = Home[u], !.verified = TRUE,
                                               !.required = Required]]
      BY <2>1 DEF AccountInit
    <3> QED BY <3>1 DEF NoAccount
  <2> QED BY <2>2, <2>3
<1>4. AccountInv /\ SessionsFollowPassword /\ [AccountNext]_accountVars
        => SessionsFollowPassword'
  BY SessionsKept
<1> QED BY <1>1, <1>2, <1>3, <1>4, PTL DEF AccountSpec

-----------------------------------------------------------------------------
(* Changes of address.                                                     *)

(* Of a user whose changes did not cross: one handler at most is between   *)
(* the pending address and its link, older links are gone before the new   *)
(* one is sent, and a link that can still be used is for what is pending.  *)
LinksOf(u) ==
  /\ \A q, r \in Changing(u) : q = r
  /\ \A r \in Changing(u) :
       /\ account[u].pending \in {request[r].item.to, NoEmail}
       /\ request[r].op = "send" => \A t \in token : t.user = u => t.purpose # "change"
  /\ Changing(u) = {} => \A t \in token : t.user = u /\ t.purpose = "change" =>
                           account[u].pending \in {t.to, NoEmail}
  /\ \A r \in Requests :
       request[r].op = "verify" /\ request[r].user = u /\ request[r].item.link.purpose = "change"
         => request[r].item.pending = request[r].item.link.to
LinksInv == \A u \in Users \ past.crossed : LinksOf(u)

(* A step of a handler that is not changing the address of u.              *)
LEMMA LinksAside ==
  ASSUME NEW u \in Users, NEW r \in Requests, LinksOf(u),
         \A x \in Requests : x # r => request'[x] = request[x],
         r \notin Changing(u), r \notin Changing(u)', request'[r].op # "verify",
         account'[u].pending \in {account[u].pending, NoEmail},
         \A t \in token' : t.user = u /\ t.purpose = "change" => t \in token
  PROVE  LinksOf(u)'
<1>1. Changing(u)' = Changing(u) /\ \A x \in Changing(u) : request'[x] = request[x]
  BY DEF Changing, Letter
<1>2. \A q, x \in Changing(u)' : q = x
  BY <1>1 DEF LinksOf
<1>3. ASSUME NEW x \in Changing(u)'
      PROVE  /\ account'[u].pending \in {request'[x].item.to, NoEmail}
             /\ request'[x].op = "send" => \A t \in token' : t.user = u => t.purpose # "change"
  BY <1>1, <1>3 DEF LinksOf
<1>4. ASSUME Changing(u)' = {}, NEW t \in token', t.user = u, t.purpose = "change"
      PROVE  account'[u].pending \in {t.to, NoEmail}
  BY <1>1, <1>4 DEF LinksOf
<1>5. ASSUME NEW x \in Requests, request'[x].op = "verify", request'[x].user = u,
             request'[x].item.link.purpose = "change"
      PROVE  request'[x].item.pending = request'[x].item.link.to
  BY <1>5 DEF LinksOf
<1> QED BY <1>2, <1>3, <1>4, <1>5 DEF LinksOf

LEMMA LinksBegin ==
  ASSUME AccountInv, LinksInv, NEW r \in Requests, BeginsOf(r), NEW u \in Users \ past'.crossed
  PROVE  LinksOf(u)'
<1>1. /\ request = [x \in Requests |-> request[x]] /\ account \in [Users -> Account]
      /\ past \in Past
      /\ request[r].op = "none" /\ UNCHANGED token
      /\ \A x \in Requests : x # r => request'[x] = request[x]
  BY BeginsAside DEF AccountInv, RequestsOK, TablesOK
<1>2. r \notin Changing(u)
  BY <1>1 DEF Changing
<1>3. CASE \E t \in token : AskVerify(r, t)
  <2>1. PICK t \in token : AskVerify(r, t)
    BY <1>3
  <2>2. /\ UNCHANGED account
        /\ request'[r].op = "verify" /\ request'[r].user = t.user
        /\ request'[r].item.link = t /\ request'[r].item.pending = account[t.user].pending
    BY <1>1, <2>1 DEF AskVerify, Asked, tables
  <2>3. u \notin past.crossed /\ (t.user = u /\ t.purpose = "change" => Changing(u) = {})
    BY <1>1, <2>1 DEF AskVerify, Past
  <2>4. LinksOf(u)
    BY <2>3 DEF LinksInv
  <2>5. Changing(u)' = Changing(u) /\ \A x \in Changing(u) : request'[x] = request[x]
    BY <1>1, <1>2, <2>2 DEF Changing, Letter
  <2>6. t.user = u /\ t.purpose = "change" => account[u].pending = t.to
    BY <2>1, <2>3, <2>4 DEF AskVerify, LinksOf
  <2>7. ASSUME NEW x \in Requests, request'[x].op = "verify", request'[x].user = u,
               request'[x].item.link.purpose = "change"
        PROVE  request'[x].item.pending = request'[x].item.link.to
    BY <1>1, <2>2, <2>4, <2>6, <2>7 DEF LinksOf
  <2> QED BY <1>1, <2>2, <2>4, <2>5, <2>7 DEF LinksOf
<1>4. CASE ~\E t \in token : AskVerify(r, t)
  <2>1. /\ past' = past /\ request'[r].op # "verify" /\ r \notin Changing(u)'
        /\ account'[u].pending \in {account[u].pending, NoEmail}
    <3>1. CASE \E v \in Users, e \in Emails : Register(r, v, e)
      <4>1. PICK v \in Users, e \in Emails : Register(r, v, e)
        BY <3>1
      <4>2. /\ past' = past /\ request'[r].op = "issue"
            /\ request'[r].item.purpose = "verification"
        BY <1>1, <4>1 DEF Register, Asked, Mail
      <4>3. account'[u].pending \in {account[u].pending, NoEmail}
        BY <1>1, <4>1 DEF Register, NoAccount
      <4> QED BY <4>2, <4>3 DEF Changing, Letter
    <3>2. CASE ~\E v \in Users, e \in Emails : Register(r, v, e)
      <4>1. /\ UNCHANGED <<account, past>>
            /\ \E op, v, next, item :
                 /\ Asked(r, op, v, next, item) /\ op # "verify"
                 /\ op \in {"issue", "send"} => item.purpose # "change"
        <5>1. ASSUME NEW v \in Users, Login(r, v) \/ Resend(r, v) \/ Forgot(r, v)
              PROVE  /\ UNCHANGED <<account, past>>
                     /\ \E op, w, next, item :
                          /\ Asked(r, op, w, next, item) /\ op # "verify"
                          /\ op \in {"issue", "send"} => item.purpose # "change"
          <6>1. CASE Login(r, v)
            BY <6>1 DEF Login, Mail, tables
          <6>2. CASE Resend(r, v)
            BY <6>2 DEF Resend, Mail, tables
          <6>3. CASE Forgot(r, v)
            BY <6>3 DEF Forgot, Mail, tables
          <6> QED BY <5>1, <6>1, <6>2, <6>3
        <5>2. ASSUME NEW v \in Users, NEW w \in Users, NEW given \in GivenRoles,
                     NEW op \in {"role", "remove"}, AskMember(r, v, w, op, given)
              PROVE  /\ UNCHANGED <<account, past>>
                     /\ \E item : Asked(r, op, v, "none", item)
          BY <5>2 DEF AskMember, tables
        <5>3. ASSUME NEW v \in Users, NEW e \in Emails, NEW given \in GivenRoles,
                     AskEmail(r, v, e) \/ AskInvite(r, v, e, given)
              PROVE  /\ UNCHANGED <<account, past>>
                     /\ \E op \in {"pending", "invite"} : \E item : Asked(r, op, v, "none", item)
          BY <5>3 DEF AskEmail, AskInvite, tables
        <5>4. ASSUME NEW v \in Users, NEW i \in invite, AskAccept(r, v, i)
              PROVE  UNCHANGED <<account, past>> /\ Asked(r, "accept", v, "none", i)
          BY <5>4 DEF AskAccept, tables
        <5>5. ASSUME NEW v \in Users, AskPassword(r, v)
              PROVE  UNCHANGED <<account, past>> /\ Asked(r, "password", v, "none", <<>>)
          BY <5>5 DEF AskPassword, tables
        <5>6. ASSUME NEW t \in token, AskReset(r, t)
              PROVE  UNCHANGED <<account, past>> /\ \E item : Asked(r, "reset", t.user, "none", item)
          BY <5>6 DEF AskReset, tables
        <5>7. "member" \in GivenRoles
          BY DEF GivenRoles
        <5>8. CASE \E v \in Users, e \in Emails : AskEmail(r, v, e)
          BY <5>3, <5>7, <5>8
        <5>9. CASE \E v \in Users, e \in Emails, given \in GivenRoles : AskInvite(r, v, e, given)
          BY <5>3, <5>9
        <5>10. CASE \E v \in Users : Login(r, v) \/ Resend(r, v) \/ Forgot(r, v)
          BY <5>1, <5>10
        <5>11. CASE \E v \in Users : AskPassword(r, v)
          BY <5>5, <5>11
        <5>12. CASE \E v \in Users, i \in invite : AskAccept(r, v, i)
          BY <5>4, <5>12
        <5>13. CASE \E v, w \in Users, op \in {"role", "remove"}, given \in GivenRoles :
                      AskMember(r, v, w, op, given)
          BY <5>2, <5>13
        <5>14. CASE \E t \in token : AskReset(r, t)
          BY <5>6, <5>14
        <5> QED BY <1>4, <3>2, <5>7, <5>8, <5>9, <5>10, <5>11, <5>12, <5>13, <5>14 DEF BeginsOf
      <4>2. PICK op, v, next, item :
              /\ Asked(r, op, v, next, item) /\ op # "verify"
              /\ op \in {"issue", "send"} => item.purpose # "change"
        BY <4>1
      <4>3. request'[r].op = op /\ request'[r].item = item
        BY <1>1, <4>2 DEF Asked
      <4> QED BY <4>1, <4>2, <4>3 DEF Changing, Letter
    <3> QED BY <3>1, <3>2
  <2>2. LinksOf(u)
    BY <2>1 DEF LinksInv
  <2> QED BY <1>1, <1>2, <2>1, <2>2, LinksAside
<1> QED BY <1>3, <1>4

LEMMA LinksGoOn ==
  ASSUME AccountInv, LinksInv, NEW r \in Requests, GoesOn(r), NEW u \in Users \ past'.crossed
  PROVE  LinksOf(u)'
<1>1. /\ request = [x \in Requests |-> request[x]] /\ account \in [Users -> Account]
      /\ past \in Past /\ RequestOK(request[r], Registered, past.ownInvite)
  BY DEF AccountInv, RequestsOK, TablesOK
<1>2. \A x \in Requests : x # r => request'[x] = request[x]
  BY <1>1 DEF GoesOn, DeleteOlder, SendLink, CreateSession, Verify, Reset, SetPending,
              UpdatePassword, Purge, Invite, Accept, SetRole, RemoveMember, Dies, Goes, Replies
<1>3. past.crossed \subseteq past'.crossed
  BY <1>1 DEF GoesOn, DeleteOlder, SendLink, CreateSession, Verify, Reset, SetPending,
              UpdatePassword, Purge, Invite, Accept, SetRole, RemoveMember, Dies, Past
<1>4. LinksOf(u) /\ u \notin past.crossed
  BY <1>3 DEF LinksInv
<1>5. ASSUME Replies(r)
      PROVE  request'[r].op = "none" /\ r \notin Changing(u)'
  BY <1>1, <1>5 DEF Replies, NoRequest, Changing
<1>6. ASSUME NEW op, Goes(r, op)
      PROVE  /\ request'[r].op = op /\ request'[r].user = request[r].user
             /\ request'[r].item = request[r].item
  <2>1. request' = [request EXCEPT ![r] = [op |-> op, user |-> request[r].user,
                                           password |-> request[r].password,
                                           next |-> request[r].next, item |-> request[r].item]]
    BY <1>6, GoesRequest DEF AccountInv
  <2> QED BY <1>1, <2>1
<1>7. CASE DeleteOlder(r)
  <2>1. /\ request[r].op = "issue" /\ request'[r].op = "send" /\ UNCHANGED account
        /\ request'[r].user = request[r].user /\ request'[r].item = request[r].item
        /\ token' = token \ OlderLinks(request[r].user, request[r].item.purpose)
    BY <1>6, <1>7 DEF DeleteOlder, Letter
  <2>2. CASE r \in Changing(u)
    <3>1. request[r].user = u /\ request[r].item.purpose = "change"
      BY <2>2 DEF Changing, Letter
    <3>2. Changing(u)' = Changing(u)
      BY <1>2, <2>1, <2>2 DEF Changing, Letter
    <3>3. \A t \in token' : t.user = u => t.purpose # "change"
      BY <2>1, <3>1 DEF OlderLinks
    <3>4. ASSUME NEW x \in Changing(u)'
          PROVE  account'[u].pending \in {request'[x].item.to, NoEmail}
      <4>1. x \in Changing(u) /\ x = r
        BY <1>4, <2>2, <3>2 DEF LinksOf
      <4> QED BY <1>4, <2>1, <4>1 DEF LinksOf
    <3>5. ASSUME NEW x \in Requests, request'[x].op = "verify", request'[x].user = u,
                 request'[x].item.link.purpose = "change"
          PROVE  request'[x].item.pending = request'[x].item.link.to
      BY <1>2, <1>4, <2>1, <3>5 DEF LinksOf
    <3> QED BY <1>4, <3>2, <3>3, <3>4, <3>5 DEF LinksOf
  <2>3. CASE r \notin Changing(u)
    <3>1. r \notin Changing(u)' /\ request'[r].op # "verify"
      BY <2>1, <2>3 DEF Changing, Letter
    <3> QED BY <1>2, <1>4, <2>1, <2>3, <3>1, LinksAside
  <2> QED BY <2>2, <2>3
<1>8. CASE SendLink(r)
  <2>1. PICK n : /\ request[r].op = "send" /\ UNCHANGED account
                 /\ token' = token \cup {[user |-> request[r].user, n |-> n,
                                          purpose |-> request[r].item.purpose,
                                          to |-> request[r].item.to]}
    BY <1>8 DEF SendLink, Letter
  <2>2. request'[r].op \in {"none", "session"} /\ r \notin Changing(u)'
    <3>1. request[r].next \in {"none", "session"}
      BY <1>1, <2>1 DEF RequestOK, LetterOK
    <3>2. request'[r].op \in {"none", "session"}
      BY <1>5, <1>6, <1>8, <3>1 DEF SendLink
    <3> QED BY <3>2 DEF Changing
  <2>3. CASE r \in Changing(u)
    <3>1. Changing(u) = {r} /\ Changing(u)' = {}
      BY <1>2, <1>4, <2>2, <2>3 DEF LinksOf, Changing, Letter
    <3>2. ASSUME NEW t \in token', t.user = u, t.purpose = "change"
          PROVE  account'[u].pending \in {t.to, NoEmail}
      BY <1>4, <2>1, <2>3, <3>2 DEF LinksOf
    <3>3. ASSUME NEW x \in Requests, request'[x].op = "verify", request'[x].user = u,
                 request'[x].item.link.purpose = "change"
          PROVE  request'[x].item.pending = request'[x].item.link.to
      BY <1>2, <1>4, <2>2, <3>3 DEF LinksOf
    <3> QED BY <3>1, <3>2, <3>3 DEF LinksOf
  <2>4. CASE r \notin Changing(u)
    <3>1. ASSUME NEW t \in token', t.user = u, t.purpose = "change"
          PROVE  t \in token
      BY <2>1, <2>4, <3>1 DEF Changing, Letter
    <3> QED BY <1>2, <1>4, <2>1, <2>2, <2>4, <3>1, LinksAside
  <2> QED BY <2>3, <2>4
<1>9. CASE SetPending(r)
  <2>1. /\ request[r].op = "pending" /\ request'[r].op = "issue" /\ token' = token
        /\ request'[r].user = request[r].user /\ request'[r].item = request[r].item
        /\ request[r].item.purpose = "change" /\ request[r].user \in Users
    BY <1>1, <1>6, <1>9, RegisteredIsUser DEF SetPending, RequestOK, LetterOK
  <2>2. CASE request[r].user = u
    <3>1. Changing(u) = {}
      BY <1>1, <1>9, <2>2 DEF SetPending, Past
    <3>2. Changing(u)' = {r}
      BY <1>2, <2>1, <2>2, <3>1 DEF Changing, Letter
    <3>3. account'[u].pending = request'[r].item.to
      BY <1>1, <1>9, <2>1, <2>2 DEF SetPending, Letter, Account
    <3>4. ASSUME NEW x \in Requests, request'[x].op = "verify", request'[x].user = u,
                 request'[x].item.link.purpose = "change"
          PROVE  request'[x].item.pending = request'[x].item.link.to
      BY <1>2, <1>4, <2>1, <3>4 DEF LinksOf
    <3> QED BY <2>1, <3>2, <3>3, <3>4 DEF LinksOf
  <2>3. CASE request[r].user # u
    <3>1. r \notin Changing(u) /\ r \notin Changing(u)'
      BY <2>1, <2>3 DEF Changing
    <3>2. account'[u] = account[u]
      BY <1>1, <1>9, <2>3 DEF SetPending
    <3> QED BY <1>2, <1>4, <2>1, <3>1, <3>2, LinksAside
  <2> QED BY <2>2, <2>3
<1>10. CASE Verify(r)
  <2>1. r \notin Changing(u) /\ request'[r].op = "none" /\ r \notin Changing(u)'
    BY <1>5, <1>10 DEF Verify, Changing
  <2>2. account'[u].pending \in {account[u].pending, NoEmail} /\ token' \subseteq token
    <3> DEFINE v == request[r].item.link.user
               to == request[r].item.pending
    <3>1. \/ account' = account
          \/ account' = [account EXCEPT ![v].email = to, ![v].pending = NoEmail,
                                        ![v].verified = TRUE]
          \/ account' = [account EXCEPT ![v].verified = TRUE]
      BY <1>10 DEF Verify
    <3>2. account[u] \in Account /\ token' \subseteq token
      BY <1>1, <1>10 DEF Verify
    <3>3. CASE account' = [account EXCEPT ![v].email = to, ![v].pending = NoEmail,
                                          ![v].verified = TRUE]
      <4>1. u # v => account'[u] = account[u]
        BY <1>1, <3>3
      <4>2. u = v => account'[u] = [account[u] EXCEPT !.email = to, !.pending = NoEmail,
                                                      !.verified = TRUE]
        BY <1>1, <3>3
      <4> HIDE DEF v, to
      <4> QED BY <3>2, <4>1, <4>2 DEF Account
    <3>4. CASE account' = [account EXCEPT ![v].verified = TRUE]
      BY <1>1, <3>2, <3>4 DEF Account
    <3> QED BY <3>1, <3>2, <3>3, <3>4
  <2> QED BY <1>2, <1>4, <2>1, <2>2, LinksAside
<1>11. CASE Reset(r) \/ UpdatePassword(r)
  <2>1. /\ r \notin Changing(u) /\ r \notin Changing(u)' /\ request'[r].op # "verify"
        /\ token' \subseteq token
    BY <1>1, <1>5, <1>11 DEF Reset, UpdatePassword, Changing
  <2>2. account'[u].pending = account[u].pending
    <3>1. account[u] \in Account
      BY <1>1
    <3> QED BY <1>1, <1>11, <3>1 DEF Reset, UpdatePassword, Account
  <2> QED BY <1>2, <1>4, <2>1, <2>2, LinksAside
<1>12. CASE \/ CreateSession(r) \/ Purge(r) \/ Invite(r) \/ Accept(r) \/ SetRole(r)
            \/ RemoveMember(r) \/ Dies(r)
  <2>1. UNCHANGED <<account, token>> /\ (Replies(r) \/ Goes(r, "session"))
    BY <1>12 DEF CreateSession, Purge, Invite, Accept, SetRole, RemoveMember, Dies, tables
  <2>2. request'[r].op \in {"none", "session"}
    BY <1>5, <1>6, <2>1
  <2>3. r \notin Changing(u)
    <3>1. CASE Dies(r)
      <4>1. r \in Changing(u) => request[r].user = u
        BY DEF Changing
      <4>2. r \in Changing(request[r].user) => request[r].user \in past'.crossed
        BY <1>1, <3>1 DEF Dies, Past
      <4> QED BY <4>1, <4>2
    <3>2. CASE ~Dies(r)
      BY <1>12, <3>2 DEF CreateSession, Purge, Invite, Accept, SetRole, RemoveMember, Changing
    <3> QED BY <3>1, <3>2
  <2>4. r \notin Changing(u)'
    BY <2>2 DEF Changing
  <2> QED BY <1>2, <1>4, <2>1, <2>2, <2>3, <2>4, LinksAside
<1> QED BY <1>7, <1>8, <1>9, <1>10, <1>11, <1>12 DEF GoesOn

LEMMA LinksKept ==
  ASSUME AccountInv, LinksInv, [AccountNext]_accountVars
  PROVE  LinksInv'
<1>1. SUFFICES ASSUME NEW u \in Users \ past'.crossed
               PROVE  LinksOf(u)'
  BY DEF LinksInv
<1>2. CASE \/ \E gone \in SUBSET session : EndSessions(gone)
           \/ RunsOut
           \/ UNCHANGED accountVars
  <2>1. UNCHANGED <<account, request, past>> /\ token' \subseteq token
    BY <1>2 DEF EndSessions, RunsOut, accountVars
  <2>2. LinksOf(u)
    BY <2>1 DEF LinksInv
  <2>3. Changing(u)' = Changing(u)
    BY <2>1 DEF Changing, Letter
  <2> QED BY <2>1, <2>2, <2>3 DEF LinksOf
<1> QED BY <1>2, LinksBegin, LinksGoOn DEF AccountNext

(* The address changes when a link is used, and then to the one the link   *)
(* was sent to.                                                            *)
LEMMA EmailStep ==
  ASSUME AccountInv, LinksInv, [AccountNext]_accountVars,
         NEW u \in Registered, account'[u].email # account[u].email, u \notin past.crossed
  PROVE  \E r \in Requests : /\ request[r].op = "verify" /\ request[r].user = u
                             /\ request[r].item.link.to = account'[u].email
<1>1. account \in [Users -> Account] /\ u \in Users /\ account[u] \in Account
  BY RegisteredIsUser DEF AccountInv, TablesOK
<1>2. PICK r \in Requests : GoesOn(r)
  <2>1. ASSUME NEW r \in Requests, BeginsOf(r)
        PROVE  FALSE
    BY <2>1, BeginsAside
  <2> QED BY <2>1 DEF AccountNext, EndSessions, RunsOut, accountVars
<1>3. Verify(r)
  <2>1. CASE Reset(r) \/ UpdatePassword(r) \/ SetPending(r)
    BY <1>1, <2>1 DEF Reset, UpdatePassword, SetPending, Account
  <2>2. CASE \/ DeleteOlder(r) \/ SendLink(r) \/ CreateSession(r) \/ Purge(r) \/ Invite(r)
             \/ Accept(r) \/ SetRole(r) \/ RemoveMember(r) \/ Dies(r)
    BY <2>2 DEF DeleteOlder, SendLink, CreateSession, Purge, Invite, Accept, SetRole,
                RemoveMember, Dies, tables
  <2> QED BY <1>2, <2>1, <2>2 DEF GoesOn
<1> DEFINE v == request[r].item.link.user
           to == request[r].item.pending
<1>4. /\ request[r].op = "verify" /\ request[r].item.link.purpose = "change"
      /\ account' = [account EXCEPT ![v].email = to, ![v].pending = NoEmail,
                                    ![v].verified = TRUE]
  <2>1. CASE account' = [account EXCEPT ![v].verified = TRUE]
    BY <1>1, <2>1 DEF Account
  <2> QED BY <1>3, <2>1 DEF Verify
<1>5. v = request[r].user
  BY <1>4 DEF AccountInv, RequestsOK, RequestOK, LinkOK
<1>6. u = v
  BY <1>1, <1>4
<1>7. account'[u].email = to
  <2>1. account'[u] = [account[u] EXCEPT !.email = to, !.pending = NoEmail, !.verified = TRUE]
    BY <1>1, <1>4, <1>6
  <2> HIDE DEF v, to
  <2> QED BY <1>1, <2>1 DEF Account
<1>8. request[r].item.pending = request[r].item.link.to
  BY <1>1, <1>4, <1>5, <1>6 DEF LinksInv, LinksOf
<1> QED BY <1>4, <1>5, <1>6, <1>7, <1>8

(* AccountSpec keeps EmailByLink: but for changes that overlap, are left   *)
(* half done or are crossed by a link, an address becomes an account's     *)
(* only with a link that was sent to it.                                   *)
THEOREM EmailByLinkHolds == AccountSpec => EmailByLink
<1> USE AccountAssumption
<1>1. AccountInit => AccountInv
  BY AccountsStart
<1>2. AccountInv /\ [AccountNext]_accountVars => AccountInv'
  BY AccountsKeep
<1>3. AccountInit => LinksInv
  <2>1. SUFFICES ASSUME AccountInit, NEW u \in Users
                 PROVE  LinksOf(u)
    BY DEF LinksInv
  <2>2. token = {} /\ \A r \in Requests : request[r].op = "none"
    BY <2>1 DEF AccountInit, NoRequest
  <2>3. Changing(u) = {}
    BY <2>2 DEF Changing
  <2> QED BY <2>2, <2>3 DEF LinksOf
<1>4. AccountInv /\ LinksInv /\ [AccountNext]_accountVars => LinksInv'
  BY LinksKept
<1>5. AccountInv /\ LinksInv /\ [AccountNext]_accountVars =>
        [\A u \in Registered : account'[u].email # account[u].email =>
           \/ u \in past.crossed
           \/ \E r \in Requests : /\ request[r].op = "verify" /\ request[r].user = u
                                  /\ request[r].item.link.to = account'[u].email]_accountVars
  BY EmailStep
<1> QED BY <1>1, <1>2, <1>3, <1>4, <1>5, PTL DEF AccountSpec, EmailByLink

-----------------------------------------------------------------------------
(* Catalogue: the inductive invariant.                                     *)

(* A row that was there is not new again, one that is gone stays so.       *)
Later(before, after) ==
  (before = "gone" => after = "gone") /\ (before # "never" => after # "never")

(* What a handler has read.                                                *)
CallOK(q) ==
  /\ q.op \in Operations /\ q.by \in People
  /\ q.op \in {"endpoint", "scenario"} => q.item \in Scenarios
  /\ q.op = "patch" => q.item \in Endpoints /\ q.with \subseteq Scenarios /\ q.with # {}
  /\ q.op = "update" => q.item \in Monitors
  /\ q.op = "page" => q.item \in Pages /\ q.with \subseteq Monitors
  /\ q.op = "remove" => q.with \subseteq Runs /\ q.also \subseteq Runs

Types ==
  /\ db \in Tables
  /\ lock \in [People -> Calls \cup {Free, Dead}]
  /\ call \in [Calls -> [op : Operations, by : People,
                         item : Scenarios \cup Endpoints \cup Monitors \cup Pages
                                  \cup {Nothing, "channel"},
                         with : SUBSET (Runs \cup Scenarios \cup Monitors), also : SUBSET Runs]]
  /\ \A c \in Calls : CallOK(call[c])
  /\ used \in [calls : Nat, channels : 0 .. MaxChannels, faults : Nat]
  /\ byHand \subseteq Runs /\ ranOut \in BOOLEAN

(* Channel ids are given once.                                             *)
Numbered ==
  /\ db.channel.id <= used.channels
  /\ \A d \in Runs : db.stored[d] <= used.channels

(* A run is there as a whole, and found by its monitor's tag, unless users *)
(* took it apart.                                                          *)
Whole ==
  \A d \in Runs \ byHand :
    /\ db.endpoint[d] # "never" =>
         db.monitor[d] # "never" /\ db.scenario[d] # "never" /\ db.page[d] # "never"
    /\ db.monitor[d] = "here" => d \in db.tagged

(* A removal has read all that it has to remove.                           *)
Read ==
  \A c \in Calls : call[c].op = "remove" =>
    \A d \in call[c].with \ (Brought \cup byHand) :
      /\ db.endpoint[d] # "never"
      /\ db.monitor[d] = "gone" \/ d \in call[c].also

(* One demo run at most.                                                   *)
Present == (Found \ Brought) \ byHand
Single == \A d, e \in Present : d = e

(* A setup holds the owner's lock, and between its two statements there is *)
(* no run.                                                                 *)
Alone ==
  \A c \in Calls :
    /\ call[c].op \in {"setup", "create"} => lock[Owner] = c
    /\ call[c].op = "create" => Present = {}

CatalogueInv ==
  /\ Types /\ Numbered /\ Whole /\ Read /\ NothingLeft
  /\ LockHeldAtWork /\ (ranOut \/ (Alone /\ Single))

-----------------------------------------------------------------------------
(* The tables after each action.                                           *)

LEMMA MarkTable ==
  ASSUME NEW S, NEW table \in [S -> Status], NEW items, NEW status \in Status
  PROVE  /\ Mark(table, items, status) \in [S -> Status]
         /\ \A x \in S : Mark(table, items, status)[x] = IF x \in items THEN status ELSE table[x]
BY DEF Mark

LEMMA HereIs ==
  ASSUME NEW S, NEW table \in [S -> Status]
  PROVE  /\ Here(table) = {x \in S : table[x] = "here"}
         /\ New(table) = {x \in S : table[x] = "never"} \ Runs
BY DEF Here, New

LEMMA Fields ==
  ASSUME NEW t \in Tables
  PROVE  /\ t.scenario \in [Scenarios -> Status] /\ t.endpoint \in [Endpoints -> Status]
         /\ t.monitor \in [Monitors -> Status] /\ t.page \in [Pages -> Status]
         /\ t.uses \in [Endpoints -> Scenarios \cup {Nothing}]
         /\ t.shows \in [Pages -> SUBSET Monitors] /\ t.tagged \subseteq Runs
         /\ t.channel \in Channel /\ t.stored \in [Runs -> 0 .. MaxChannels]
BY DEF Tables

LEMMA Rows ==
  ASSUME NEW t \in Tables
  PROVE  /\ Here(t.endpoint) = {x \in Endpoints : t.endpoint[x] = "here"}
         /\ New(t.endpoint) = {x \in Endpoints : t.endpoint[x] = "never"} \ Runs
         /\ Here(t.monitor) = {x \in Monitors : t.monitor[x] = "here"}
         /\ New(t.monitor) = {x \in Monitors : t.monitor[x] = "never"} \ Runs
         /\ Here(t.page) = {x \in Pages : t.page[x] = "here"}
BY Fields, HereIs

(* What most steps do to the runs: they take parts away or leave them.     *)
Aside ==
  /\ db' \in Tables /\ db'.stored = db.stored /\ byHand \subseteq byHand'
  /\ \A d \in Runs :
       /\ db'.endpoint[d] = db.endpoint[d] \/ (d \in byHand' /\ db.endpoint[d] # "never")
       /\ Later(db.endpoint[d], db'.endpoint[d]) /\ Later(db.monitor[d], db'.monitor[d])
       /\ Later(db.scenario[d], db'.scenario[d]) /\ Later(db.page[d], db'.page[d])
       /\ db'.endpoint[d] = "here" => db.endpoint[d] = "here"
       /\ db'.monitor[d] = "here" => db.monitor[d] = "here"
       /\ d \in db'.tagged => d \in db.tagged
       /\ d \in db.tagged /\ db'.monitor[d] = "here" => d \in db'.tagged \cup byHand'
  /\ db'.channel.id \in {0, db.channel.id} \/ db'.channel.id > used.channels

LEMMA FoundIn ==
  ASSUME NEW t \in Tables
  PROVE  {d \in Runs : d \in Here(t.endpoint) \/ d \in Here(t.monitor) \cap t.tagged}
           = {d \in Runs : t.endpoint[d] = "here" \/ (t.monitor[d] = "here" /\ d \in t.tagged)}
<1>1. Here(t.endpoint) = {x \in Endpoints : t.endpoint[x] = "here"}
      /\ Here(t.monitor) = {x \in Monitors : t.monitor[x] = "here"}
  BY Fields, HereIs
<1> QED BY <1>1 DEF Endpoints, Monitors

LEMMA FoundIs ==
  /\ db \in Tables => Found = {d \in Runs : \/ db.endpoint[d] = "here"
                                            \/ db.monitor[d] = "here" /\ d \in db.tagged}
  /\ db' \in Tables => Found' = {d \in Runs : \/ db'.endpoint[d] = "here"
                                              \/ db'.monitor[d] = "here" /\ d \in db'.tagged}
BY FoundIn DEF Found

LEMMA AsideKeeps ==
  ASSUME CatalogueInv, Aside
  PROVE  /\ Whole' /\ NothingLeft'
         /\ Present' \subseteq Present
<1>1. /\ db \in Tables /\ used.channels \in Nat
      /\ \A d \in Runs : db.stored[d] \in Nat /\ db.stored[d] <= used.channels
      /\ db.channel.id \in Nat
  BY Fields DEF CatalogueInv, Types, Numbered, Channel
<1>2. Found' \subseteq Found
  BY <1>1, FoundIs DEF Aside
<1>3. Whole'
  <2>1. SUFFICES ASSUME NEW d \in Runs \ byHand'
                 PROVE  /\ db'.endpoint[d] # "never" =>
                             /\ db'.monitor[d] # "never" /\ db'.scenario[d] # "never"
                             /\ db'.page[d] # "never"
                        /\ db'.monitor[d] = "here" => d \in db'.tagged
    BY DEF Whole
  <2>2. /\ d \in Runs \ byHand
        /\ db.endpoint[d] # "never" =>
             db.monitor[d] # "never" /\ db.scenario[d] # "never" /\ db.page[d] # "never"
        /\ db.monitor[d] = "here" => d \in db.tagged
    BY DEF CatalogueInv, Whole, Aside
  <2>3. db'.endpoint[d] # "never" => db.endpoint[d] # "never"
    BY DEF Aside
  <2> QED BY <2>2, <2>3 DEF Aside, Later
<1>4. NothingLeft'
  <2>1. SUFFICES ASSUME NEW d \in Runs \ byHand', db'.endpoint[d] = "gone"
                 PROVE  /\ db'.monitor[d] = "gone" /\ db'.scenario[d] = "gone"
                        /\ db'.page[d] = "gone"
                        /\ db'.stored[d] = 0 \/ db'.channel.id # db'.stored[d]
    BY DEF NothingLeft
  <2>2. d \in Runs \ byHand /\ db.endpoint[d] = "gone"
    BY <2>1 DEF Aside
  <2>3. /\ db.monitor[d] = "gone" /\ db.scenario[d] = "gone" /\ db.page[d] = "gone"
        /\ db.stored[d] = 0 \/ db.channel.id # db.stored[d]
    BY <2>2 DEF CatalogueInv, NothingLeft
  <2> QED BY <1>1, <2>2, <2>3 DEF Aside, Later
<1> QED BY <1>2, <1>3, <1>4 DEF Aside, Present

(* What remains when a handler that is not of the demo reads, writes or    *)
(* answers.                                                                *)
NotDemo(c, q) ==
  /\ call' = [call EXCEPT ![c] = q] /\ CallOK(q)
  /\ call[c].op \notin DemoOperations /\ q.op \notin DemoOperations
Typed == Types' /\ Numbered'

LEMMA NotDemoKeeps ==
  ASSUME CatalogueInv, Aside, Typed, UNCHANGED <<lock, ranOut>>,
         call' = call \/ \E c \in Calls : \E q : NotDemo(c, q)
  PROVE  CatalogueInv'
<1>1. Whole' /\ NothingLeft' /\ Present' \subseteq Present
  BY AsideKeeps
<1>2. Single => Single'
  BY <1>1 DEF Single
<1>3. \A c \in Calls : call[c].op \in DemoOperations \/ call'[c].op \in DemoOperations
        => call'[c] = call[c]
  BY DEF NotDemo, CatalogueInv, Types
<1>4. Read'
  <2>1. SUFFICES ASSUME NEW c \in Calls, call'[c].op = "remove",
                        NEW d \in call'[c].with \ (Brought \cup byHand')
                 PROVE  db'.endpoint[d] # "never" /\ (db'.monitor[d] = "gone" \/ d \in call'[c].also)
    BY DEF Read
  <2>2. call'[c] = call[c]
    BY <1>3, <2>1 DEF DemoOperations
  <2>3. d \in Runs /\ d \in call[c].with \ (Brought \cup byHand)
    BY <2>1, <2>2 DEF Aside, CatalogueInv, Types, CallOK
  <2>4. db.endpoint[d] # "never" /\ (db.monitor[d] = "gone" \/ d \in call[c].also)
    BY <2>1, <2>2, <2>3 DEF CatalogueInv, Read
  <2> QED BY <2>2, <2>3, <2>4 DEF Aside, Later
<1>5. LockHeldAtWork'
  BY <1>3 DEF CatalogueInv, LockHeldAtWork, Types
<1>6. Alone => Alone'
  BY <1>1, <1>3 DEF CatalogueInv, Alone, DemoOperations
<1>7. ranOut' \/ (Alone' /\ Single')
  BY <1>2, <1>6 DEF CatalogueInv
<1> QED BY <1>1, <1>4, <1>5, <1>7 DEF CatalogueInv, Typed

(* The reads of the handlers that are not of the demo.                     *)
Item == Scenarios \cup Endpoints \cup Monitors \cup Pages \cup {Nothing, "channel"}
Record == [op : Operations, by : People, item : Item,
           with : SUBSET (Runs \cup Scenarios \cup Monitors), also : SUBSET Runs]

LEMMA SameTables ==
  ASSUME CatalogueInv, UNCHANGED <<db, byHand>>
  PROVE  Aside
BY DEF CatalogueInv, Types, Aside, Later

LEMMA AskKeeps ==
  ASSUME CatalogueInv, CatalogueAssumption, NEW c \in Calls, NEW op \in Operations \ DemoOperations,
         NEW item \in Item, NEW with \in SUBSET (Runs \cup Scenarios \cup Monitors),
         Ask(c, op, item, with),
         CallOK(CallFor(op, Owner, item, with))
  PROVE  CatalogueInv'
<1> DEFINE q == CallFor(op, Owner, item, with)
<1>1. call' = [call EXCEPT ![c] = q] /\ call[c].op = "none"
  BY DEF Ask
<1>2. q \in Record /\ q.op = op
  BY DEF Record, People, CallFor
<1>3. used' \in [calls : Nat, channels : 0 .. MaxChannels, faults : Nat] /\ used'.channels = used.channels
  BY DEF Ask, Request, CatalogueInv, Types
<1>4. Typed
  <2>1. call' \in [Calls -> Record] /\ \A x \in Calls : CallOK(call'[x])
    BY <1>1, <1>2 DEF CatalogueInv, Types, Record, Item
  <2>2. Types'
    BY <1>3, <2>1 DEF Ask, CatalogueInv, Types, Record, Item
  <2>3. Numbered'
    BY <1>3 DEF Ask, CatalogueInv, Numbered
  <2> QED BY <2>2, <2>3 DEF Typed
<1>5. NotDemo(c, q)
  BY <1>1, <1>2 DEF NotDemo, DemoOperations
<1>6. Aside /\ UNCHANGED <<lock, ranOut>>
  BY SameTables DEF Ask
<1> QED BY <1>4, <1>5, <1>6, NotDemoKeeps

LEMMA NoCallOK == CatalogueAssumption => CallOK(NoCall) /\ NoCall \in Record
BY DEF CallOK, NoCall, CallFor, Record, Item, People, Operations

(* A call that has looked for what it is to remove.                        *)
LEMMA RemoveCall ==
  ASSUME NEW q \in Record, NEW w \in SUBSET Runs, NEW a \in SUBSET Runs, NEW n
  PROVE  n = [op |-> "remove", by |-> q.by, item |-> q.item, with |-> w, also |-> a] =>
           n.op = "remove" /\ n.by = q.by /\ n.with = w /\ n.also = a /\ n \in Record
<1>1. "remove" \in Operations /\ q.by \in People /\ q.item \in Item
  BY DEF Record, Operations
<1> HIDE DEF Item
<1> QED BY <1>1 DEF Record

(* A handler that is not of the demo writes and answers.                   *)
LEMMA WriteKeeps ==
  ASSUME CatalogueInv, CatalogueAssumption, NEW c \in Calls, NEW op \in Operations \ DemoOperations,
         NEW after, Write(c, op, after), Aside, byHand' \subseteq Runs,
         db'.channel.id = db.channel.id
  PROVE  CatalogueInv'
<1>1. call' = [call EXCEPT ![c] = NoCall] /\ call[c].op = op /\ UNCHANGED <<lock, used, ranOut>>
  BY DEF Write, Answer
<1>2. NotDemo(c, NoCall)
  BY <1>1, NoCallOK DEF NotDemo, NoCall, CallFor, DemoOperations
<1>3. Typed
  BY <1>1, NoCallOK DEF Typed, CatalogueInv, Types, Numbered, Aside, Record, Item
<1> QED BY <1>1, <1>2, <1>3, NotDemoKeeps

LEMMA AtOnceKeeps ==
  ASSUME CatalogueInv, CatalogueAssumption, NEW after, AtOnce(after), Aside, byHand' \subseteq Runs,
         db'.channel.id \in {0, db.channel.id}
  PROVE  CatalogueInv'
<1>1. used' \in [calls : Nat, channels : 0 .. MaxChannels, faults : Nat] /\ used'.channels = used.channels
  BY DEF AtOnce, Request, CatalogueInv, Types
<1>2. Typed
  BY <1>1 DEF Typed, AtOnce, CatalogueInv, Types, Numbered, Aside
<1> QED BY <1>2, NotDemoKeeps DEF AtOnce

LEMMA ReadsKeep ==
  ASSUME CatalogueInv, CatalogueAssumption, NEW c \in Calls,
         \/ \E s \in Scenarios : AskEndpoint(c, s) \/ AskDelete(c, s)
                                \/ \E e \in Endpoints : AskPatch(c, e, s)
         \/ AskMonitor(c) \/ AskChannel(c)
         \/ \E m \in Monitors : AskUpdate(c, m)
         \/ \E p \in Pages, ms \in SUBSET Monitors : AskPage(c, p, ms)
  PROVE  CatalogueInv'
<1> {"endpoint", "patch", "scenario", "monitor", "update", "page", "channel"}
      \subseteq Operations \ DemoOperations
  BY DEF Operations, DemoOperations
<1>1. CASE \E s \in Scenarios : AskEndpoint(c, s) \/ AskDelete(c, s)
  <2>1. PICK s \in Scenarios, op \in {"endpoint", "scenario"} : Ask(c, op, s, {})
    BY <1>1 DEF AskEndpoint, AskDelete
  <2>2. CallOK(CallFor(op, Owner, s, {})) /\ s \in Item
    BY <2>1 DEF CallOK, CallFor, People, Operations, Item
  <2> QED BY <2>1, <2>2, AskKeeps
<1>2. CASE \E s \in Scenarios, e \in Endpoints : AskPatch(c, e, s)
  <2>1. PICK s \in Scenarios, e \in Endpoints : Ask(c, "patch", e, {s})
    BY <1>2 DEF AskPatch
  <2>2. CallOK(CallFor("patch", Owner, e, {s})) /\ e \in Item
    BY <2>1 DEF CallOK, CallFor, People, Operations, Item
  <2> QED BY <2>1, <2>2, AskKeeps
<1>3. CASE AskMonitor(c) \/ AskChannel(c)
  <2>1. PICK op \in {"monitor", "channel"} : Ask(c, op, Nothing, {})
    BY <1>3 DEF AskMonitor, AskChannel
  <2>2. CallOK(CallFor(op, Owner, Nothing, {})) /\ Nothing \in Item
    BY <2>1 DEF CallOK, CallFor, People, Operations, Item
  <2> QED BY <2>1, <2>2, AskKeeps
<1>4. CASE \E m \in Monitors : AskUpdate(c, m)
  <2>1. PICK m \in Monitors : Ask(c, "update", m, {})
    BY <1>4 DEF AskUpdate
  <2>2. CallOK(CallFor("update", Owner, m, {})) /\ m \in Item
    BY <2>1 DEF CallOK, CallFor, People, Operations, Item
  <2> QED BY <2>1, <2>2, AskKeeps
<1>5. CASE \E p \in Pages, ms \in SUBSET Monitors : AskPage(c, p, ms)
  <2>1. PICK p \in Pages, ms \in SUBSET Monitors : Ask(c, "page", p, ms)
    BY <1>5 DEF AskPage
  <2>2. CallOK(CallFor("page", Owner, p, ms)) /\ p \in Item
    BY <2>1 DEF CallOK, CallFor, People, Operations, Item
  <2> QED BY <2>1, <2>2, AskKeeps
<1> QED BY <1>1, <1>2, <1>3, <1>4, <1>5

(* What they write leaves the runs as whole as they were.                  *)
LEMMA EndpointsAside ==
  ASSUME CatalogueInv, NEW c \in Calls,
         \/ \E e \in Endpoints : CreateEndpoint(c, e) \/ DeleteEndpoint(e)
         \/ PatchEndpoint(c)
  PROVE  Aside /\ byHand' \subseteq Runs /\ db'.channel.id = db.channel.id
<1>1. db \in Tables /\ byHand \subseteq Runs /\ CallOK(call[c])
  BY DEF CatalogueInv, Types
<1>2. CASE db' = db /\ byHand' = byHand
  BY <1>1, <1>2, SameTables
<1>3. CASE \E e \in Endpoints : CreateEndpoint(c, e) /\ db' # db
  <2>1. PICK e \in Endpoints : /\ CreateEndpoint(c, e) /\ byHand' = byHand
                               /\ db' = [db EXCEPT !.endpoint[e] = "here", !.uses[e] = call[c].item]
    BY <1>3 DEF CreateEndpoint, Write
  <2>2. call[c].item \in Scenarios /\ e \notin Runs
    BY <1>1, <2>1, Rows DEF CreateEndpoint, Write, CallOK
  <2>3. db' \in Tables
    BY <1>1, <2>1, <2>2, Fields DEF Tables, Status
  <2>4. /\ db'.endpoint = [db.endpoint EXCEPT ![e] = "here"]
        /\ db'.scenario = db.scenario /\ db'.monitor = db.monitor /\ db'.page = db.page
        /\ db'.tagged = db.tagged /\ db'.stored = db.stored /\ db'.channel = db.channel
    BY <1>1, <2>1 DEF Tables
  <2>5. \A d \in Runs : db'.endpoint[d] = db.endpoint[d]
    BY <1>1, <2>2, <2>4, Fields DEF Endpoints
  <2> QED BY <1>1, <2>1, <2>3, <2>4, <2>5 DEF Aside, Later
<1>4. CASE PatchEndpoint(c) /\ db' # db
  <2> DEFINE e == call[c].item
             s == CHOOSE s \in call[c].with : TRUE
  <2>1. db' = [db EXCEPT !.uses[e] = s] /\ call[c].op = "patch" /\ byHand' = byHand
    BY <1>4 DEF PatchEndpoint, Write
  <2>2. e \in Endpoints /\ s \in Scenarios
    BY <1>1, <2>1 DEF CallOK
  <2> HIDE DEF e, s
  <2>3. db' \in Tables
    BY <1>1, <2>1, <2>2, Fields DEF Tables
  <2>4. /\ db'.endpoint = db.endpoint
        /\ db'.scenario = db.scenario /\ db'.monitor = db.monitor /\ db'.page = db.page
        /\ db'.tagged = db.tagged /\ db'.stored = db.stored /\ db'.channel = db.channel
    BY <1>1, <2>1 DEF Tables
  <2> QED BY <1>1, <2>1, <2>3, <2>4 DEF Aside, Later
<1>5. CASE \E e \in Endpoints : DeleteEndpoint(e)
  <2>1. PICK e \in Endpoints : /\ DeleteEndpoint(e) /\ byHand' = byHand \cup ({e} \cap Runs)
                               /\ db' = [db EXCEPT !.endpoint[e] = "gone", !.uses[e] = Nothing]
    BY <1>5 DEF DeleteEndpoint, AtOnce
  <2>2. db.endpoint[e] = "here"
    BY <1>1, <2>1, Rows DEF DeleteEndpoint
  <2>3. db' \in Tables
    BY <1>1, <2>1, <2>2, Fields DEF Tables, Status
  <2>4. /\ db'.endpoint = [db.endpoint EXCEPT ![e] = "gone"]
        /\ db'.scenario = db.scenario /\ db'.monitor = db.monitor /\ db'.page = db.page
        /\ db'.tagged = db.tagged /\ db'.stored = db.stored /\ db'.channel = db.channel
    BY <1>1, <2>1 DEF Tables
  <2>5. \A d \in Runs : \/ d # e /\ db'.endpoint[d] = db.endpoint[d]
                        \/ d = e /\ db'.endpoint[d] = "gone" /\ db.endpoint[d] = "here"
    BY <1>1, <2>2, <2>4, Fields DEF Endpoints
  <2> QED BY <1>1, <2>1, <2>3, <2>4, <2>5 DEF Aside, Later
<1> QED BY <1>2, <1>3, <1>4, <1>5
        DEF CreateEndpoint, PatchEndpoint, DeleteEndpoint, Write, AtOnce

LEMMA ScenariosAside ==
  ASSUME CatalogueInv, CatalogueAssumption, NEW c \in Calls,
         DeleteScenario(c) \/ \E s \in Scenarios : CreateScenario(s)
  PROVE  Aside /\ byHand' = byHand /\ db'.channel.id = db.channel.id
<1>1. db \in Tables /\ byHand \subseteq Runs /\ CallOK(call[c])
  BY DEF CatalogueInv, Types
<1>2. CASE DeleteScenario(c)
  <2> DEFINE a == Mark(db.scenario, {call[c].item}, "gone")
             u == SetNull({call[c].item})
  <2>1. db' = [db EXCEPT !.scenario = a, !.uses = u] /\ byHand' = byHand
    BY <1>2 DEF DeleteScenario, Write
  <2>2. /\ a \in [Scenarios -> Status] /\ u \in [Endpoints -> Scenarios \cup {Nothing}]
        /\ \A d \in Scenarios : a[d] = db.scenario[d] \/ a[d] = "gone"
    BY <1>1, Fields, MarkTable DEF SetNull, Status
  <2> HIDE DEF a, u
  <2>3. db' \in Tables
    BY <1>1, <2>1, <2>2, Fields DEF Tables
  <2>4. /\ db'.scenario = a
        /\ db'.endpoint = db.endpoint /\ db'.monitor = db.monitor /\ db'.page = db.page
        /\ db'.tagged = db.tagged /\ db'.stored = db.stored /\ db'.channel = db.channel
    BY <1>1, <2>1 DEF Tables
  <2> QED BY <1>1, <2>1, <2>2, <2>3, <2>4 DEF Aside, Later, Scenarios
<1>3. CASE \E s \in Scenarios : CreateScenario(s)
  <2>1. PICK s \in Scenarios : /\ db' = [db EXCEPT !.scenario[s] = "here"] /\ byHand' = byHand
                               /\ s \in New(db.scenario)
    BY <1>3 DEF CreateScenario, AtOnce
  <2>2. s \notin Runs
    BY <1>1, <2>1, Fields, HereIs
  <2>3. db' \in Tables
    BY <1>1, <2>1, Fields DEF Tables, Status
  <2>4. /\ db'.scenario = [db.scenario EXCEPT ![s] = "here"]
        /\ db'.endpoint = db.endpoint /\ db'.monitor = db.monitor /\ db'.page = db.page
        /\ db'.tagged = db.tagged /\ db'.stored = db.stored /\ db'.channel = db.channel
    BY <1>1, <2>1 DEF Tables
  <2>5. \A d \in Runs : db'.scenario[d] = db.scenario[d]
    BY <1>1, <2>2, <2>4, Fields DEF Scenarios
  <2> QED BY <1>1, <2>1, <2>3, <2>4, <2>5 DEF Aside, Later
<1> QED BY <1>2, <1>3

LEMMA MonitorsAside ==
  ASSUME CatalogueInv, CatalogueAssumption, NEW c \in Calls,
         UpdateMonitor(c) \/ \E m \in Monitors : CreateMonitor(c, m) \/ DeleteMonitor(m)
  PROVE  Aside /\ byHand' \subseteq Runs /\ db'.channel.id = db.channel.id
<1>1. db \in Tables /\ byHand \subseteq Runs /\ CallOK(call[c])
  BY DEF CatalogueInv, Types
<1>2. CASE UpdateMonitor(c)
  <2> DEFINE m == call[c].item
             t == db.tagged \ {m}
  <2>1. db' = [db EXCEPT !.tagged = t] /\ byHand' = byHand \cup ({m} \cap Runs)
    BY <1>2 DEF UpdateMonitor, Write
  <2>2. db.tagged \subseteq Runs /\ t \subseteq Runs
    BY <1>1, Fields
  <2>3. db' \in Tables /\ db'.tagged = t
    BY <1>1, <2>1, <2>2 DEF Tables
  <2>4. /\ db'.scenario = db.scenario
        /\ db'.endpoint = db.endpoint /\ db'.monitor = db.monitor /\ db'.page = db.page
        /\ db'.stored = db.stored /\ db'.channel = db.channel
    BY <1>1, <2>1 DEF Tables
  <2> QED BY <1>1, <2>1, <2>2, <2>3, <2>4 DEF Aside, Later
<1>3. CASE \E m \in Monitors : CreateMonitor(c, m)
  <2>1. PICK m \in Monitors : /\ db' = [db EXCEPT !.monitor[m] = "here"] /\ byHand' = byHand
                              /\ m \in New(db.monitor)
    BY <1>3 DEF CreateMonitor, Write
  <2>2. m \notin Runs
    BY <1>1, <2>1, Rows
  <2>3. db' \in Tables
    BY <1>1, <2>1, Fields DEF Tables, Status
  <2>4. /\ db'.monitor = [db.monitor EXCEPT ![m] = "here"]
        /\ db'.endpoint = db.endpoint /\ db'.scenario = db.scenario /\ db'.page = db.page
        /\ db'.tagged = db.tagged /\ db'.stored = db.stored /\ db'.channel = db.channel
    BY <1>1, <2>1 DEF Tables
  <2>5. \A d \in Runs : db'.monitor[d] = db.monitor[d]
    BY <1>1, <2>2, <2>4, Fields DEF Monitors
  <2> QED BY <1>1, <2>1, <2>3, <2>4, <2>5 DEF Aside, Later
<1>4. CASE \E m \in Monitors : DeleteMonitor(m)
  <2>1. PICK m \in Monitors :
          /\ byHand' = byHand
          /\ db' = [db EXCEPT !.monitor[m] = "gone", !.tagged = db.tagged \ {m},
                              !.shows = [p \in Pages |-> db.shows[p] \ {m}]]
    BY <1>4 DEF DeleteMonitor, AtOnce
  <2> DEFINE t == db.tagged \ {m}
             h == [p \in Pages |-> db.shows[p] \ {m}]
             n == [db.monitor EXCEPT ![m] = "gone"]
  <2>2. /\ db.tagged \subseteq Runs /\ t \subseteq Runs /\ h \in [Pages -> SUBSET Monitors]
        /\ n \in [Monitors -> Status]
        /\ \A d \in Monitors : d # m => n[d] = db.monitor[d]
        /\ n[m] = "gone"
    BY <1>1, <2>1, Fields DEF Status
  <2>3. db' = [db EXCEPT !.monitor = n, !.tagged = t, !.shows = h]
    BY <2>1
  <2> HIDE DEF h, n
  <2>4. db' \in Tables
    BY <1>1, <2>2, <2>3 DEF Tables
  <2>5. /\ db'.scenario = db.scenario /\ db'.monitor = n
        /\ db'.endpoint = db.endpoint /\ db'.page = db.page /\ db'.tagged = t
        /\ db'.stored = db.stored /\ db'.channel = db.channel
    BY <1>1, <2>3 DEF Tables
  <2> QED BY <1>1, <2>1, <2>2, <2>4, <2>5 DEF Aside, Later, Monitors
<1> QED BY <1>2, <1>3, <1>4

LEMMA PagesAside ==
  ASSUME CatalogueInv, CatalogueAssumption, NEW c \in Calls,
         WritePage(c) \/ DeleteChannel \/ \E p \in Pages : DeletePage(p)
  PROVE  Aside /\ byHand' = byHand /\ db'.channel.id \in {0, db.channel.id}
         /\ (WritePage(c) => db'.channel.id = db.channel.id)
<1>1. db \in Tables /\ byHand \subseteq Runs /\ CallOK(call[c])
  BY DEF CatalogueInv, Types
<1>2. CASE db' = db /\ byHand' = byHand
  BY <1>1, <1>2, SameTables
<1>3. CASE WritePage(c) /\ db' # db
  <2> DEFINE p == call[c].item
             ms == call[c].with
  <2>1. /\ db' = [db EXCEPT !.page[p] = "here", !.shows[p] = ms]
        /\ call[c].op = "page" /\ byHand' = byHand /\ db.page[p] # "gone"
    BY <1>3 DEF WritePage, Write
  <2>2. p \in Pages /\ ms \subseteq Monitors
    BY <1>1, <2>1 DEF CallOK
  <2> HIDE DEF p, ms
  <2>3. db' \in Tables
    BY <1>1, <2>1, <2>2, Fields DEF Tables, Status
  <2>4. /\ db'.page = [db.page EXCEPT ![p] = "here"]
        /\ db'.endpoint = db.endpoint /\ db'.scenario = db.scenario /\ db'.monitor = db.monitor
        /\ db'.tagged = db.tagged /\ db'.stored = db.stored /\ db'.channel = db.channel
    BY <1>1, <2>1 DEF Tables
  <2>5. \A d \in Runs : db'.page[d] = db.page[d] \/ (db'.page[d] = "here" /\ db.page[d] # "gone")
    BY <1>1, <2>1, <2>2, <2>4, Fields DEF Pages
  <2> QED BY <1>1, <2>1, <2>3, <2>4, <2>5 DEF Aside, Later
<1>4. CASE \E p \in Pages : DeletePage(p)
  <2>1. PICK p \in Pages : /\ db' = [db EXCEPT !.page[p] = "gone", !.shows[p] = {}]
                           /\ byHand' = byHand
    BY <1>4 DEF DeletePage, AtOnce
  <2>2. db' \in Tables
    BY <1>1, <2>1, Fields DEF Tables, Status
  <2>3. /\ db'.page = [db.page EXCEPT ![p] = "gone"]
        /\ db'.endpoint = db.endpoint /\ db'.scenario = db.scenario /\ db'.monitor = db.monitor
        /\ db'.tagged = db.tagged /\ db'.stored = db.stored /\ db'.channel = db.channel
    BY <1>1, <2>1 DEF Tables
  <2>4. \A d \in Runs : db'.page[d] = db.page[d] \/ db'.page[d] = "gone"
    BY <1>1, <2>3, Fields DEF Pages
  <2> QED BY <1>1, <2>1, <2>2, <2>3, <2>4 DEF Aside, Later
<1>5. CASE DeleteChannel
  <2>1. db' = [db EXCEPT !.channel = NoChannel] /\ byHand' = byHand
    BY <1>5 DEF DeleteChannel, AtOnce
  <2>2. NoChannel \in Channel /\ NoChannel.id = 0
    BY DEF NoChannel, Channel, CatalogueAssumption
  <2>3. db' \in Tables /\ db'.channel = NoChannel
    BY <1>1, <2>1, <2>2 DEF Tables
  <2>4. /\ db'.endpoint = db.endpoint /\ db'.scenario = db.scenario /\ db'.monitor = db.monitor
        /\ db'.tagged = db.tagged /\ db'.stored = db.stored /\ db'.page = db.page
    BY <1>1, <2>1 DEF Tables
  <2>5. Aside
    BY <1>1, <2>1, <2>2, <2>3, <2>4 DEF Aside, Later
  <2>6. ~WritePage(c)
    BY <1>5 DEF DeleteChannel, AtOnce, WritePage, Write, Answer, Request, CatalogueInv, Types
  <2> QED BY <2>1, <2>2, <2>3, <2>5, <2>6
<1> QED BY <1>2, <1>3, <1>4, <1>5 DEF WritePage, Write

LEMMA ChannelKeeps ==
  ASSUME CatalogueInv, CatalogueAssumption, NEW c \in Calls, NEW active \in BOOLEAN,
         PutChannel(c, active)
  PROVE  CatalogueInv'
<1>1. /\ db \in Tables /\ db.channel \in Channel /\ db.channel.id <= used.channels
      /\ used \in [calls : Nat, channels : 0 .. MaxChannels, faults : Nat]
  BY Fields DEF CatalogueInv, Types, Numbered
<1>2. /\ call' = [call EXCEPT ![c] = NoCall] /\ call[c].op = "channel"
      /\ UNCHANGED <<lock, byHand, ranOut>>
  BY DEF PutChannel, Answer
<1>3. PICK n \in Channel : db' = [db EXCEPT !.channel = n]
                           /\ \/ used' = used /\ n.id = db.channel.id
                              \/ /\ used' = [used EXCEPT !.channels = used.channels + 1]
                                 /\ used.channels < MaxChannels /\ n.id = used.channels + 1
  <2>1. CASE db.channel.id = 0
    <3> DEFINE n == [id |-> used.channels + 1, by |-> "user", active |-> active]
    <3>1. /\ used.channels < MaxChannels
          /\ used' = [used EXCEPT !.channels = used.channels + 1]
          /\ db' = [db EXCEPT !.channel = n]
      BY <2>1 DEF PutChannel, CanAddChannel, NextChannel
    <3>2. n \in Channel
      BY <1>1, <3>1, CatalogueAssumption DEF CatalogueAssumption, Channel
    <3> QED BY <3>1, <3>2
  <2>2. CASE db.channel.id # 0
    <3> DEFINE n == [db.channel EXCEPT !.by = "user", !.active = active]
    <3>1. used' = used /\ db' = [db EXCEPT !.channel.by = "user", !.channel.active = active]
      BY <2>2 DEF PutChannel
    <3>2. db' = [db EXCEPT !.channel = n]
      BY <1>1, <3>1 DEF Tables
    <3>3. n \in Channel /\ n.id = db.channel.id
      BY <1>1 DEF Channel
    <3> HIDE DEF n
    <3> QED BY <3>1, <3>2, <3>3
  <2> QED BY <2>1, <2>2
<1>4. db' \in Tables /\ db'.channel = n
  BY <1>1, <1>3 DEF Tables
<1>5. /\ db'.endpoint = db.endpoint /\ db'.scenario = db.scenario /\ db'.monitor = db.monitor
      /\ db'.tagged = db.tagged /\ db'.stored = db.stored /\ db'.page = db.page
  BY <1>1, <1>3 DEF Tables
<1>6. Aside
  BY <1>1, <1>2, <1>3, <1>4, <1>5 DEF Aside, Later
<1>7. used' \in [calls : Nat, channels : 0 .. MaxChannels, faults : Nat]
      /\ used.channels <= used'.channels /\ n.id <= used'.channels
  BY <1>1, <1>3, CatalogueAssumption DEF CatalogueAssumption
<1>8. Typed
  <2>1. Numbered'
    <3>1. \A d \in Runs : db.stored[d] \in Nat /\ db.stored[d] <= used.channels
      BY <1>1, Fields DEF CatalogueInv, Numbered
    <3>2. used.channels \in Nat /\ used'.channels \in Nat
      BY <1>1, <1>7
    <3> QED BY <1>4, <1>5, <1>7, <3>1, <3>2 DEF Numbered
  <2>2. call' \in [Calls -> Record] /\ \A x \in Calls : CallOK(call'[x])
    BY <1>2, NoCallOK DEF CatalogueInv, Types, Record, Item
  <2> QED BY <1>2, <1>4, <1>7, <2>1, <2>2 DEF Typed, CatalogueInv, Types, Record, Item
<1>9. NotDemo(c, NoCall)
  BY <1>2, NoCallOK DEF NotDemo, NoCall, CallFor, DemoOperations
<1> QED BY <1>2, <1>6, <1>8, <1>9, NotDemoKeeps

(* The handlers that are not of the demo.                                  *)
LEMMA OthersKeep ==
  ASSUME CatalogueInv, CatalogueAssumption, NEW c \in Calls,
         \/ \E e \in Endpoints : CreateEndpoint(c, e)
         \/ \E m \in Monitors : CreateMonitor(c, m)
         \/ PatchEndpoint(c) \/ DeleteScenario(c) \/ UpdateMonitor(c) \/ WritePage(c)
  PROVE  CatalogueInv'
<1> {"endpoint", "patch", "scenario", "monitor", "update", "page"} \subseteq Operations \ DemoOperations
  BY DEF Operations, DemoOperations
<1>1. byHand \subseteq Runs
  BY DEF CatalogueInv, Types
<1>2. Aside /\ byHand' \subseteq Runs /\ db'.channel.id = db.channel.id
  BY <1>1, EndpointsAside, MonitorsAside, ScenariosAside, PagesAside
<1>3. PICK op \in {"endpoint", "patch", "scenario", "monitor", "update", "page"} :
        \E after : Write(c, op, after)
  BY DEF CreateEndpoint, CreateMonitor, PatchEndpoint, DeleteScenario, UpdateMonitor, WritePage
<1> QED BY <1>2, <1>3, WriteKeeps

LEMMA OneStepKeeps ==
  ASSUME CatalogueInv, CatalogueAssumption, OneStep
  PROVE  CatalogueInv'
<1> PICK c : c \in Calls
  BY DEF CatalogueAssumption
<1>1. byHand \subseteq Runs
  BY DEF CatalogueInv, Types
<1>2. Aside /\ byHand' \subseteq Runs /\ db'.channel.id \in {0, db.channel.id}
  BY <1>1, EndpointsAside, MonitorsAside, ScenariosAside, PagesAside DEF OneStep
<1>3. PICK after : AtOnce(after)
  BY DEF OneStep, DeleteEndpoint, CreateScenario, DeleteMonitor, DeletePage, DeleteChannel
<1> QED BY <1>2, <1>3, AtOnceKeeps

-----------------------------------------------------------------------------
(* The demo.                                                               *)

(* A call of the demo that holds or takes its lock and leaves the runs.    *)
LEMMA AskDemoKeeps ==
  ASSUME CatalogueInv, CatalogueAssumption, NEW c \in Calls, NEW u \in People,
         NEW op \in {"setup", "cleanup", "reset"}, AskDemo(c, op, u)
  PROVE  CatalogueInv'
<1> DEFINE q == CallFor(op, u, Nothing, {})
           w == LockOf(op, u)
<1>1. /\ call' = [call EXCEPT ![c] = q] /\ call[c].op = "none"
      /\ lock' = [lock EXCEPT ![w] = c] /\ lock[w] = Free
      /\ UNCHANGED <<db, byHand, ranOut>>
  BY DEF AskDemo
<1>2. q \in Record /\ q.op = op /\ CallOK(q) /\ w \in People /\ (op = "setup" => w = Owner)
  BY DEF Record, Item, People, CallFor, CallOK, Operations, LockOf
<1>3. used' \in [calls : Nat, channels : 0 .. MaxChannels, faults : Nat] /\ used'.channels = used.channels
  BY DEF AskDemo, Request, CatalogueInv, Types
<1> HIDE DEF q, w
<1>4. Typed
  <2>1. call' \in [Calls -> Record] /\ \A x \in Calls : CallOK(call'[x])
    BY <1>1, <1>2 DEF CatalogueInv, Types, Record, Item
  <2>2. Types'
    BY <1>1, <1>2, <1>3, <2>1 DEF CatalogueInv, Types, Record, Item
  <2>3. Numbered'
    BY <1>1, <1>3 DEF CatalogueInv, Numbered
  <2> QED BY <2>2, <2>3 DEF Typed
<1>5. Whole' /\ NothingLeft' /\ Present' = Present
  BY <1>1 DEF CatalogueInv, Whole, NothingLeft, Present, Found
<1>6. \A x \in Calls : x # c => call'[x] = call[x]
  BY <1>1 DEF CatalogueInv, Types
<1>7. call'[c] = q
  BY <1>1 DEF CatalogueInv, Types
<1>8. Read'
  BY <1>1, <1>2, <1>6, <1>7 DEF CatalogueInv, Read
<1>9. LockHeldAtWork'
  BY <1>1, <1>2, <1>6, <1>7 DEF CatalogueInv, LockHeldAtWork, Types, DemoOperations
<1>10. Alone => Alone'
  <2>1. Free \notin Calls
    BY DEF CatalogueAssumption
  <2>2. \A v \in People : v # w => lock'[v] = lock[v]
    BY <1>1 DEF CatalogueInv, Types
  <2>3. lock'[w] = c
    BY <1>1, <1>2 DEF CatalogueInv, Types
  <2>4. Owner \in People
    BY DEF People
  <2> QED BY <1>1, <1>2, <1>5, <1>6, <1>7, <2>1, <2>2, <2>3, <2>4 DEF Alone
<1> QED BY <1>1, <1>4, <1>5, <1>8, <1>9, <1>10 DEF CatalogueInv, Typed, Single

(* A call that ends and releases its lock, and leaves the runs.            *)
LEMMA FinishLocks ==
  ASSUME CatalogueInv, CatalogueAssumption, NEW c \in Calls, Finish(c)
  PROVE  /\ call' = [call EXCEPT ![c] = NoCall]
         /\ call'[c] = NoCall /\ \A x \in Calls : x # c => call'[x] = call[x]
         /\ lock' \in [People -> Calls \cup {Free, Dead}]
         /\ LockHeldAtWork'
         /\ \A x \in Calls : x # c /\ lock[Owner] = x => lock'[Owner] = x
<1>1. /\ call' = [call EXCEPT ![c] = NoCall]
      /\ lock' = [u \in People |-> IF lock[u] = c THEN Free ELSE lock[u]]
  BY DEF Finish, Answer, Release
<1>2. call'[c] = NoCall /\ \A x \in Calls : x # c => call'[x] = call[x]
  BY <1>1 DEF CatalogueInv, Types
<1>3. lock' \in [People -> Calls \cup {Free, Dead}]
  BY <1>1 DEF CatalogueInv, Types
<1>4. LockHeldAtWork'
  BY <1>1, <1>2 DEF CatalogueInv, LockHeldAtWork, CatalogueAssumption
<1> QED BY <1>1, <1>2, <1>3, <1>4 DEF People

LEMMA EndsKeep ==
  ASSUME CatalogueInv, CatalogueAssumption, NEW c \in Calls,
         Finish(c), UNCHANGED <<db, used, byHand, ranOut>>
  PROVE  CatalogueInv'
<1>1. Whole' /\ NothingLeft' /\ Present' = Present /\ Numbered'
  BY DEF CatalogueInv, Whole, NothingLeft, Present, Found, Numbered
<1>2. Types'
  <2>1. call' \in [Calls -> Record] /\ \A x \in Calls : CallOK(call'[x])
    BY FinishLocks, NoCallOK DEF CatalogueInv, Types, Record, Item
  <2> QED BY FinishLocks, <2>1 DEF CatalogueInv, Types, Record, Item
<1>3. NoCall.op = "none"
  BY DEF NoCall, CallFor
<1>4. Read'
  BY <1>3, FinishLocks DEF CatalogueInv, Read
<1>5. Alone => Alone'
  BY <1>1, <1>3, FinishLocks DEF Alone
<1> QED BY <1>1, <1>2, <1>4, <1>5, FinishLocks DEF CatalogueInv, Single

LEMMA LooksKeep ==
  ASSUME CatalogueInv, CatalogueAssumption, NEW c \in Calls,
         (SetupLooks(c) /\ Found = {}) \/ RemoveLooks(c)
  PROVE  CatalogueInv'
<1>1. /\ UNCHANGED <<db, lock, used, byHand, ranOut>>
      /\ db \in Tables /\ call[c] \in Record /\ CallOK(call[c])
      /\ call \in [Calls -> Record]
  BY DEF SetupLooks, RemoveLooks, CatalogueInv, Types, Record, Item
<1>2. Whole' /\ NothingLeft' /\ Present' = Present /\ Numbered'
  BY <1>1 DEF CatalogueInv, Whole, NothingLeft, Present, Found, Numbered
<1>3. CASE SetupLooks(c) /\ Found = {}
  <2>1. PICK i \in {Nothing, "channel"} : call' = [call EXCEPT ![c].op = "create", ![c].item = i]
    BY <1>3 DEF SetupLooks
  <2>2. /\ call'[c] = [call[c] EXCEPT !.op = "create", !.item = i]
        /\ \A x \in Calls : x # c => call'[x] = call[x]
        /\ call[c].op = "setup"
    BY <1>1, <1>3, <2>1 DEF SetupLooks
  <2>3. call'[c].op = "create" /\ call'[c].by = call[c].by /\ call'[c] \in Record
    BY <1>1, <2>2 DEF Record, Item, Operations
  <2>4. CallOK(call'[c])
    BY <1>1, <2>3 DEF CallOK, Operations
  <2>5. Types'
    <3>1. call' \in [Calls -> Record] /\ \A x \in Calls : CallOK(call'[x])
      BY <1>1, <2>1, <2>2, <2>3, <2>4 DEF CatalogueInv, Types
    <3> QED BY <1>1, <3>1 DEF CatalogueInv, Types, Record, Item
  <2>6. Read'
    BY <1>1, <2>2, <2>3 DEF CatalogueInv, Read
  <2>7. LockHeldAtWork'
    BY <1>1, <2>2, <2>3 DEF CatalogueInv, LockHeldAtWork, DemoOperations
  <2>8. Present = {}
    BY <1>3 DEF Present
  <2>9. Alone => Alone'
    BY <1>1, <1>2, <2>2, <2>3, <2>8 DEF Alone
  <2> QED BY <1>1, <1>2, <2>5, <2>6, <2>7, <2>9 DEF CatalogueInv, Single
<1>4. CASE RemoveLooks(c)
  <2>1. PICK ds \in SUBSET Runs :
          call' = [call EXCEPT ![c].op = "remove", ![c].with = ds \cap Here(db.endpoint),
                               ![c].also = ds \cap Here(db.monitor) \cap db.tagged]
    <3>1. PICK ds \in IF call[c].op = "reset" THEN {Runs} ELSE {{d} : d \in Runs} :
            call' = [call EXCEPT ![c].op = "remove", ![c].with = ds \cap Here(db.endpoint),
                                 ![c].also = ds \cap Here(db.monitor) \cap db.tagged]
      BY <1>4, Zenon DEF RemoveLooks
    <3>2. ds \in SUBSET Runs
      <4>1. CASE call[c].op = "reset"
        BY <3>1, <4>1
      <4>2. CASE call[c].op # "reset"
        BY <3>1, <4>2
      <4> QED BY <4>1, <4>2
    <3> QED BY <3>1, <3>2
  <2> DEFINE w == ds \cap Here(db.endpoint)
             a == ds \cap Here(db.monitor) \cap db.tagged
  <2>2. /\ call'[c] = [call[c] EXCEPT !.op = "remove", !.with = w, !.also = a]
        /\ \A x \in Calls : x # c => call'[x] = call[x]
        /\ call[c].op \in {"cleanup", "reset"}
    BY <1>1, <1>4, <2>1 DEF RemoveLooks
  <2>3. /\ w \subseteq Runs /\ a \subseteq Runs
        /\ \A d \in w : db.endpoint[d] = "here"
        /\ \A d \in ds : d \in a <=> db.monitor[d] = "here" /\ d \in db.tagged
    BY <1>1, Rows DEF Endpoints, Monitors
  <2> HIDE DEF w, a
  <2>4. /\ call'[c].op = "remove" /\ call'[c].by = call[c].by /\ call'[c].with = w
        /\ call'[c].also = a /\ call'[c] \in Record
    <3>1. PICK q \in Record, x \in SUBSET Runs, y \in SUBSET Runs :
            q = call[c] /\ x = w /\ y = a
      BY <1>1, <2>3
    <3>2. PICK n : n = call'[c]
      OBVIOUS
    <3>3. n = [op |-> "remove", by |-> q.by, item |-> q.item, with |-> x, also |-> y]
      <4>1. n = [q EXCEPT !.op = "remove", !.with = x, !.also = y]
        BY <2>2, <3>1, <3>2
      <4> QED BY <4>1 DEF Record
    <3>4. n.op = "remove" /\ n.by = q.by /\ n.with = x /\ n.also = y /\ n \in Record
      BY <3>3, RemoveCall
    <3> QED BY <3>1, <3>2, <3>4
  <2>5. CallOK(call'[c])
    BY <1>1, <2>3, <2>4 DEF CallOK, Operations
  <2>6. Types'
    <3>1. call' \in [Calls -> Record] /\ \A x \in Calls : CallOK(call'[x])
      BY <1>1, <2>1, <2>2, <2>4, <2>5 DEF CatalogueInv, Types
    <3> QED BY <1>1, <3>1 DEF CatalogueInv, Types, Record, Item
  <2>7. Read'
    <3>1. ASSUME NEW d \in w \ (Brought \cup byHand)
          PROVE  db.endpoint[d] # "never" /\ (db.monitor[d] = "gone" \/ d \in a)
      <4>1. d \in Runs /\ d \in ds /\ db.endpoint[d] = "here"
        BY <2>3 DEF w
      <4>2. db.monitor[d] # "never" /\ (db.monitor[d] = "here" => d \in db.tagged)
        BY <3>1, <4>1 DEF CatalogueInv, Whole
      <4>3. db.monitor[d] \in Status
        BY <1>1, <4>1, Fields DEF Monitors
      <4> QED BY <2>3, <4>1, <4>2, <4>3 DEF Status
    <3> QED BY <1>1, <2>2, <2>4, <3>1 DEF CatalogueInv, Read
  <2>8. LockHeldAtWork'
    BY <1>1, <2>2, <2>4 DEF CatalogueInv, LockHeldAtWork, DemoOperations
  <2>9. Alone => Alone'
    BY <1>1, <1>2, <2>2, <2>4 DEF Alone
  <2> QED BY <1>1, <1>2, <2>6, <2>7, <2>8, <2>9 DEF CatalogueInv, Single
<1> QED BY <1>3, <1>4

LEMMA CreatesKeep ==
  ASSUME CatalogueInv, CatalogueAssumption, NEW c \in Calls, NEW d \in Runs, SetupCreates(c, d)
  PROVE  CatalogueInv'
<1> DEFINE adds == call[c].item = "channel"
           id == IF adds THEN NextChannel ELSE 0
<1>1. /\ call[c].op = "create" /\ d \in Runs \ Brought /\ db.endpoint[d] = "never"
      /\ Finish(c) /\ UNCHANGED <<byHand, ranOut>>
  BY DEF SetupCreates
<1>2. CASE adds /\ db.channel.id # 0
  BY <1>1, <1>2, EndsKeep DEF SetupCreates
<1>3. CASE ~(adds /\ db.channel.id # 0)
  <2>1. /\ db \in Tables /\ used.channels \in Nat /\ db.channel.id \in Nat
        /\ used \in [calls : Nat, channels : 0 .. MaxChannels, faults : Nat]
        /\ MaxChannels \in Nat
        /\ \A e \in Runs : db.stored[e] \in Nat /\ db.stored[e] <= used.channels
        /\ db.channel.id <= used.channels
    BY Fields DEF CatalogueInv, Types, Numbered, Channel, CatalogueAssumption
  <2>2. PICK n \in Channel :
          /\ n = IF adds THEN [id |-> id, by |-> "demo", active |-> TRUE] ELSE db.channel
          /\ id \in 0 .. MaxChannels
    <3>1. adds => used.channels < MaxChannels
      BY <1>3 DEF SetupCreates, CanAddChannel
    <3>2. id \in 0 .. MaxChannels
      BY <2>1, <3>1 DEF NextChannel
    <3>3. [id |-> id, by |-> "demo", active |-> TRUE] \in Channel /\ db.channel \in Channel
      BY <2>1, <3>2, Fields DEF Channel
    <3> QED BY <3>2, <3>3
  <2> DEFINE sc == [db.scenario EXCEPT ![d] = "here"]
             en == [db.endpoint EXCEPT ![d] = "here"]
             mo == [db.monitor EXCEPT ![d] = "here"]
             pa == [db.page EXCEPT ![d] = "here"]
             us == [db.uses EXCEPT ![d] = d]
             sh == [db.shows EXCEPT ![d] = {d}]
             st == [db.stored EXCEPT ![d] = id]
             ta == db.tagged \cup {d}
  <2>3. db' = [db EXCEPT !.scenario = sc, !.endpoint = en, !.monitor = mo, !.page = pa,
                         !.uses = us, !.shows = sh, !.tagged = ta, !.stored = st, !.channel = n]
    BY <1>3, <2>1, <2>2 DEF SetupCreates, Tables
  <2>4. /\ sc \in [Scenarios -> Status] /\ en \in [Endpoints -> Status]
        /\ mo \in [Monitors -> Status] /\ pa \in [Pages -> Status]
        /\ us \in [Endpoints -> Scenarios \cup {Nothing}] /\ sh \in [Pages -> SUBSET Monitors]
        /\ ta \subseteq Runs /\ st \in [Runs -> 0 .. MaxChannels]
    BY <2>1, <2>2, Fields DEF Scenarios, Endpoints, Monitors, Pages, Status
  <2>5. /\ sc[d] = "here" /\ en[d] = "here" /\ mo[d] = "here" /\ pa[d] = "here" /\ st[d] = id
        /\ \A e \in Runs : e # d => /\ sc[e] = db.scenario[e] /\ en[e] = db.endpoint[e]
                                    /\ mo[e] = db.monitor[e] /\ pa[e] = db.page[e]
                                    /\ st[e] = db.stored[e]
    BY <2>1, Fields DEF Scenarios, Endpoints, Monitors, Pages
  <2>6. /\ used' \in [calls : Nat, channels : 0 .. MaxChannels, faults : Nat]
        /\ used'.channels \in Nat /\ used.channels <= used'.channels /\ id <= used'.channels
        /\ n.id <= used'.channels
        /\ n.id = db.channel.id \/ n.id > used.channels
    <3>1. CASE adds
      <4>1. used' = [used EXCEPT !.channels = used.channels + 1] /\ used.channels < MaxChannels
        BY <1>3, <3>1 DEF SetupCreates, CanAddChannel
      <4>2. n.id = used.channels + 1 /\ id = used.channels + 1
        BY <2>2, <3>1 DEF NextChannel
      <4> QED BY <2>1, <4>1, <4>2
    <3>2. CASE ~adds
      <4>1. used' = used
        BY <1>3, <2>1, <3>2 DEF SetupCreates
      <4>2. n = db.channel /\ id = 0
        BY <2>2, <3>2
      <4> QED BY <2>1, <4>1, <4>2
    <3> QED BY <3>1, <3>2
  <2> HIDE DEF adds, id, sc, en, mo, pa, us, sh, st
  <2>7. /\ db' \in Tables /\ db'.scenario = sc /\ db'.endpoint = en /\ db'.monitor = mo
        /\ db'.page = pa /\ db'.tagged = ta /\ db'.stored = st /\ db'.channel = n
    BY <2>1, <2>3, <2>4 DEF Tables
  <2>8. Types'
    <3>1. call' \in [Calls -> Record] /\ \A x \in Calls : CallOK(call'[x])
      BY <1>1, FinishLocks, NoCallOK DEF CatalogueInv, Types, Record, Item
    <3> QED BY <1>1, <2>6, <2>7, <3>1, FinishLocks DEF CatalogueInv, Types, Record, Item
  <2>9. Numbered'
    BY <2>1, <2>5, <2>6, <2>7 DEF Numbered
  <2>10. Whole'
    BY <1>1, <2>5, <2>7 DEF CatalogueInv, Whole
  <2>11. NothingLeft'
    BY <1>1, <2>1, <2>5, <2>6, <2>7 DEF CatalogueInv, NothingLeft
  <2>12. NoCall.op = "none"
    BY DEF NoCall, CallFor
  <2>13. Read'
    <3>1. SUFFICES ASSUME NEW x \in Calls, call'[x].op = "remove",
                          NEW e \in call'[x].with \ (Brought \cup byHand')
                   PROVE  db'.endpoint[e] # "never" /\ (db'.monitor[e] = "gone" \/ e \in call'[x].also)
      BY DEF Read
    <3>2. call'[x] = call[x] /\ x # c
      BY <1>1, <2>12, <3>1, FinishLocks
    <3>3. e \in Runs /\ db.endpoint[e] # "never" /\ (db.monitor[e] = "gone" \/ e \in call[x].also)
      BY <1>1, <3>1, <3>2 DEF CatalogueInv, Types, CallOK, Read
    <3> QED BY <1>1, <2>5, <2>7, <3>2, <3>3
  <2>14. Present' \subseteq Present \cup {d}
    BY <1>1, <2>1, <2>5, <2>7, FoundIs DEF Present
  <2>15. Alone => Alone' /\ Single'
    <3>1. SUFFICES ASSUME Alone
                   PROVE  Alone' /\ Single'
      OBVIOUS
    <3>2. Present = {} /\ lock[Owner] = c
      BY <1>1, <3>1 DEF Alone
    <3>3. Single'
      BY <2>14, <3>2 DEF Single
    <3>4. \A x \in Calls : call'[x].op \notin {"setup", "create"}
      BY <1>1, <2>12, <3>1, <3>2, FinishLocks DEF Alone
    <3> QED BY <3>3, <3>4 DEF Alone
  <2>16. ranOut' \/ (Alone' /\ Single')
    BY <1>1, <2>15 DEF CatalogueInv
  <2> QED BY <1>1, <2>8, <2>9, <2>10, <2>11, <2>13, <2>16, FinishLocks DEF CatalogueInv
<1> QED BY <1>2, <1>3

LEMMA RemovesKeep ==
  ASSUME CatalogueInv, CatalogueAssumption, NEW c \in Calls, Remove(c)
  PROVE  CatalogueInv'
<1> DEFINE trials == call[c].with \ Brought
           mons == call[c].also \ Brought
           sc == Mark(db.scenario, trials, "gone")
           en == Mark(db.endpoint, trials, "gone")
           mo == Mark(db.monitor, mons, "gone")
           pa == Mark(db.page, trials, "gone")
           us == [e \in Endpoints |-> IF e \in trials THEN Nothing ELSE SetNull(trials)[e]]
           sh == [p \in Pages |-> IF p \in trials THEN {} ELSE db.shows[p] \ mons]
           ta == db.tagged \ mons
           n == IF db.channel.id \in {db.stored[d] : d \in trials} THEN NoChannel ELSE db.channel
<1>1. /\ db \in Tables /\ CallOK(call[c]) /\ used.channels \in Nat
      /\ \A e \in Runs : db.stored[e] \in Nat /\ db.stored[e] <= used.channels
      /\ db.channel.id \in Nat /\ db.channel.id <= used.channels
  BY Fields DEF CatalogueInv, Types, Numbered, Channel
<1>2. /\ call[c].op = "remove" /\ Finish(c) /\ UNCHANGED <<used, byHand, ranOut>>
      /\ db' = [db EXCEPT !.endpoint = en, !.monitor = mo, !.page = pa, !.scenario = sc,
                          !.tagged = ta, !.uses = us, !.shows = sh, !.channel = n]
  BY <1>1 DEF Remove, OfOwner, Tables
<1>3. trials \subseteq Runs /\ mons \subseteq Runs
  BY <1>1, <1>2 DEF CallOK
<1>4. /\ sc \in [Scenarios -> Status] /\ en \in [Endpoints -> Status]
      /\ mo \in [Monitors -> Status] /\ pa \in [Pages -> Status]
      /\ \A e \in Runs : /\ sc[e] = IF e \in trials THEN "gone" ELSE db.scenario[e]
                         /\ en[e] = IF e \in trials THEN "gone" ELSE db.endpoint[e]
                         /\ mo[e] = IF e \in mons THEN "gone" ELSE db.monitor[e]
                         /\ pa[e] = IF e \in trials THEN "gone" ELSE db.page[e]
  <2>1. "gone" \in Status
    BY DEF Status
  <2> HIDE DEF trials, mons
  <2>2. /\ sc \in [Scenarios -> Status]
        /\ \A x \in Scenarios : sc[x] = IF x \in trials THEN "gone" ELSE db.scenario[x]
    BY <1>1, <2>1, Fields, MarkTable
  <2>3. /\ en \in [Endpoints -> Status]
        /\ \A x \in Endpoints : en[x] = IF x \in trials THEN "gone" ELSE db.endpoint[x]
    BY <1>1, <2>1, Fields, MarkTable
  <2>4. /\ mo \in [Monitors -> Status]
        /\ \A x \in Monitors : mo[x] = IF x \in mons THEN "gone" ELSE db.monitor[x]
    BY <1>1, <2>1, Fields, MarkTable
  <2>5. /\ pa \in [Pages -> Status]
        /\ \A x \in Pages : pa[x] = IF x \in trials THEN "gone" ELSE db.page[x]
    BY <1>1, <2>1, Fields, MarkTable
  <2> HIDE DEF sc, en, mo, pa
  <2> QED BY <2>2, <2>3, <2>4, <2>5 DEF Scenarios, Endpoints, Monitors, Pages
<1>5. /\ us \in [Endpoints -> Scenarios \cup {Nothing}] /\ sh \in [Pages -> SUBSET Monitors]
      /\ ta \subseteq Runs /\ ta \subseteq db.tagged
      /\ \A e \in db.tagged : e \in mons \/ e \in ta
  BY <1>1, Fields DEF SetNull
<1>6. /\ n \in Channel /\ n.id \in {0, db.channel.id} /\ n.id \in Nat
      /\ \A e \in trials : db.stored[e] = 0 \/ n.id # db.stored[e]
  <2>1. NoChannel \in Channel /\ NoChannel.id = 0 /\ db.channel \in Channel
    BY <1>1, Fields DEF NoChannel, Channel, CatalogueAssumption
  <2> QED BY <1>1, <2>1
<1> HIDE DEF trials, mons, sc, en, mo, pa, us, sh, ta, n
<1>7. /\ db' \in Tables /\ db'.scenario = sc /\ db'.endpoint = en /\ db'.monitor = mo
      /\ db'.page = pa /\ db'.tagged = ta /\ db'.stored = db.stored /\ db'.channel = n
  BY <1>1, <1>2, <1>4, <1>5, <1>6 DEF Tables
<1>8. \A e \in Runs : db.endpoint[e] \in Status /\ db.monitor[e] \in Status
  BY <1>1, Fields DEF Endpoints, Monitors
<1>9. Types'
  <2>1. call' \in [Calls -> Record] /\ \A x \in Calls : CallOK(call'[x])
    BY <1>2, FinishLocks, NoCallOK DEF CatalogueInv, Types, Record, Item
  <2> QED BY <1>2, <1>7, <2>1, FinishLocks DEF CatalogueInv, Types, Record, Item
<1>10. Numbered'
  BY <1>1, <1>2, <1>6, <1>7 DEF Numbered
<1>11. \A e \in trials \ byHand : /\ db.endpoint[e] # "never"
                                  /\ db.monitor[e] = "gone" \/ e \in mons
  BY <1>2 DEF CatalogueInv, Read, trials, mons
<1>12. Whole'
  <2>1. SUFFICES ASSUME NEW e \in Runs \ byHand
                 PROVE  /\ db'.endpoint[e] # "never" =>
                             /\ db'.monitor[e] # "never" /\ db'.scenario[e] # "never"
                             /\ db'.page[e] # "never"
                        /\ db'.monitor[e] = "here" => e \in db'.tagged
    BY <1>2 DEF Whole
  <2>2. /\ db.endpoint[e] # "never" =>
             db.monitor[e] # "never" /\ db.scenario[e] # "never" /\ db.page[e] # "never"
        /\ db.monitor[e] = "here" => e \in db.tagged
    BY DEF CatalogueInv, Whole
  <2>3. e \in trials => db'.monitor[e] # "never"
    BY <1>4, <1>7, <1>11, <2>2
  <2> QED BY <1>2, <1>4, <1>5, <1>7, <2>2, <2>3
<1>13. NothingLeft'
  <2>1. SUFFICES ASSUME NEW e \in Runs \ byHand, db'.endpoint[e] = "gone"
                 PROVE  /\ db'.monitor[e] = "gone" /\ db'.scenario[e] = "gone"
                        /\ db'.page[e] = "gone"
                        /\ db'.stored[e] = 0 \/ db'.channel.id # db'.stored[e]
    BY <1>2 DEF NothingLeft
  <2>2. CASE e \in trials
    BY <1>4, <1>6, <1>7, <1>11, <2>2
  <2>3. CASE e \notin trials
    <3>1. /\ db.monitor[e] = "gone" /\ db.scenario[e] = "gone" /\ db.page[e] = "gone"
          /\ db.stored[e] = 0 \/ db.channel.id # db.stored[e]
      BY <1>4, <1>7, <2>1, <2>3 DEF CatalogueInv, NothingLeft
    <3> QED BY <1>4, <1>6, <1>7, <2>3, <3>1
  <2> QED BY <2>2, <2>3
<1>14. NoCall.op = "none"
  BY DEF NoCall, CallFor
<1>15. Read'
  <2>1. SUFFICES ASSUME NEW x \in Calls, call'[x].op = "remove",
                        NEW e \in call'[x].with \ (Brought \cup byHand)
                 PROVE  db'.endpoint[e] # "never" /\ (db'.monitor[e] = "gone" \/ e \in call'[x].also)
    BY <1>2 DEF Read
  <2>2. call'[x] = call[x] /\ x # c
    BY <1>2, <1>14, <2>1, FinishLocks
  <2>3. e \in Runs /\ db.endpoint[e] # "never" /\ (db.monitor[e] = "gone" \/ e \in call[x].also)
    BY <1>2, <2>1, <2>2 DEF CatalogueInv, Types, CallOK, Read
  <2> QED BY <1>4, <1>7, <2>2, <2>3
<1>16. Present' \subseteq Present
  BY <1>1, <1>2, <1>4, <1>5, <1>7, FoundIs DEF Present
<1>17. Alone /\ Single => Alone' /\ Single'
  BY <1>2, <1>14, <1>16, FinishLocks DEF Alone, Single
<1>18. ranOut' \/ (Alone' /\ Single')
  BY <1>2, <1>17 DEF CatalogueInv
<1> QED BY <1>2, <1>9, <1>10, <1>12, <1>13, <1>15, <1>18, FinishLocks DEF CatalogueInv
LEMMA DiesKeeps ==
  ASSUME CatalogueInv, CatalogueAssumption, NEW c \in Calls, CallDies(c)
  PROVE  CatalogueInv'
<1>1. /\ call' = [call EXCEPT ![c] = NoCall]
      /\ lock' = [u \in People |-> IF lock[u] = c THEN Dead ELSE lock[u]]
      /\ UNCHANGED <<db, byHand, ranOut>>
  BY DEF CallDies, Answer
<1>2. used' \in [calls : Nat, channels : 0 .. MaxChannels, faults : Nat] /\ used'.channels = used.channels
  BY DEF CallDies, Fault, CatalogueInv, Types
<1>3. NoCall.op = "none" /\ call'[c] = NoCall /\ \A x \in Calls : x # c => call'[x] = call[x]
  BY <1>1 DEF CatalogueInv, Types, NoCall, CallFor
<1>4. Whole' /\ NothingLeft' /\ Present' = Present /\ Numbered'
  BY <1>1, <1>2 DEF CatalogueInv, Whole, NothingLeft, Present, Found, Numbered
<1>5. Types'
  <2>1. call' \in [Calls -> Record] /\ \A x \in Calls : CallOK(call'[x])
    BY <1>1, NoCallOK DEF CatalogueInv, Types, Record, Item
  <2> QED BY <1>1, <1>2, <2>1 DEF CatalogueInv, Types, Record, Item
<1>6. Read'
  BY <1>1, <1>3 DEF CatalogueInv, Read
<1>7. LockHeldAtWork'
  BY <1>1, <1>3 DEF CatalogueInv, LockHeldAtWork, CatalogueAssumption
<1>8. Alone => Alone'
  BY <1>1, <1>3, <1>4 DEF Alone, People
<1> QED BY <1>1, <1>4, <1>5, <1>6, <1>7, <1>8 DEF CatalogueInv, Single

(* Only a lock that a live call holds matters: when it runs out, ranOut.   *)
LEMMA RunsOutKeeps ==
  ASSUME CatalogueInv, CatalogueAssumption, NEW u \in People, LockRunsOut(u)
  PROVE  CatalogueInv'
<1>1. lock' = [lock EXCEPT ![u] = Free] /\ UNCHANGED <<db, call, byHand>>
  BY DEF LockRunsOut
<1>2. /\ used' \in [calls : Nat, channels : 0 .. MaxChannels, faults : Nat]
      /\ used'.channels = used.channels
  BY DEF LockRunsOut, Fault, CatalogueInv, Types
<1>3. ranOut' \in BOOLEAN
  BY DEF LockRunsOut, CatalogueInv, Types
<1>4. ranOut' = TRUE \/ (ranOut' = ranOut /\ lock[u] = Dead)
  BY DEF LockRunsOut
<1>5. Whole' /\ NothingLeft' /\ Present' = Present /\ Numbered' /\ Read'
  BY <1>1, <1>2 DEF CatalogueInv, Whole, NothingLeft, Present, Found, Numbered, Read
<1>6. Types'
  BY <1>1, <1>2, <1>3 DEF CatalogueInv, Types
<1>7. LockHeldAtWork'
  BY <1>1 DEF CatalogueInv, LockHeldAtWork, Types, CatalogueAssumption
<1>8. lock[u] = Dead => (Alone => Alone')
  BY <1>1, <1>5 DEF Alone, CatalogueInv, Types, CatalogueAssumption
<1>9. ranOut' \/ (Alone' /\ Single')
  BY <1>4, <1>5, <1>8 DEF CatalogueInv, Single
<1> QED BY <1>5, <1>6, <1>7, <1>9 DEF CatalogueInv

-----------------------------------------------------------------------------
(* The theorems.                                                           *)

LEMMA CatalogueStarts == CatalogueAssumption /\ CatalogueInit => CatalogueInv
<1> SUFFICES ASSUME CatalogueAssumption, CatalogueInit PROVE CatalogueInv
  OBVIOUS
<1>1. PICK brought \in SUBSET Brought :
        db = [scenario |-> Made(Scenarios, brought), endpoint |-> Made(Endpoints, brought),
              monitor |-> Made(Monitors, brought), page |-> Made(Pages, brought),
              uses |-> [e \in Endpoints |-> IF e \in brought THEN e ELSE Nothing],
              shows |-> [p \in Pages |-> IF p \in brought THEN {p} ELSE {}],
              tagged |-> brought, channel |-> NoChannel, stored |-> [d \in Runs |-> 0]]
  BY DEF CatalogueInit
<1>2. brought \subseteq Runs /\ brought \subseteq Brought
  BY DEF CatalogueAssumption
<1>3. ASSUME NEW S
      PROVE  /\ Made(S, brought) \in [S -> Status]
             /\ \A x \in S : Made(S, brought)[x] = IF x \in brought THEN "here" ELSE "never"
  <2>1. [x \in S |-> "never"] \in [S -> Status] /\ "here" \in Status
    BY DEF Status
  <2> QED BY <2>1, MarkTable DEF Made
<1>4. NoChannel \in Channel /\ NoChannel.id = 0
  BY DEF NoChannel, Channel, CatalogueAssumption
<1>5. /\ [e \in Endpoints |-> IF e \in brought THEN e ELSE Nothing] \in [Endpoints -> Scenarios \cup {Nothing}]
      /\ [p \in Pages |-> IF p \in brought THEN {p} ELSE {}] \in [Pages -> SUBSET Monitors]
      /\ [d \in Runs |-> 0] \in [Runs -> 0 .. MaxChannels]
  BY <1>2 DEF Scenarios, Monitors, CatalogueAssumption
<1>6. db \in Tables
  BY <1>1, <1>2, <1>3, <1>4, <1>5 DEF Tables
<1>7. \A d \in Runs :
        /\ db.scenario[d] = IF d \in brought THEN "here" ELSE "never"
        /\ db.endpoint[d] = IF d \in brought THEN "here" ELSE "never"
        /\ db.monitor[d] = IF d \in brought THEN "here" ELSE "never"
        /\ db.page[d] = IF d \in brought THEN "here" ELSE "never"
        /\ db.stored[d] = 0
  BY <1>1, <1>3 DEF Scenarios, Endpoints, Monitors, Pages
<1>8. /\ lock = [u \in People |-> Free] /\ call = [c \in Calls |-> NoCall]
      /\ used = [calls |-> 0, channels |-> 0, faults |-> 0]
      /\ byHand = {} /\ ranOut = FALSE
  BY DEF CatalogueInit
<1>9. NoCall.op = "none"
  BY DEF NoCall, CallFor
<1>10. Types
  <2>1. call \in [Calls -> Record] /\ \A x \in Calls : CallOK(call[x])
    BY <1>8, NoCallOK
  <2>2. used \in [calls : Nat, channels : 0 .. MaxChannels, faults : Nat]
    BY <1>8 DEF CatalogueAssumption
  <2> QED BY <1>6, <1>8, <2>1, <2>2 DEF Types, Record, Item
<1>11. Numbered
  BY <1>1, <1>4, <1>7, <1>8 DEF Numbered
<1>12. Whole /\ NothingLeft
  BY <1>1, <1>7 DEF Whole, NothingLeft
<1>13. Read
  BY <1>8, <1>9 DEF Read
<1>14. LockHeldAtWork
  BY <1>8 DEF LockHeldAtWork, CatalogueAssumption
<1>15. Alone
  BY <1>8, <1>9 DEF Alone
<1>16. Single
  <2>1. Found \subseteq brought
    BY <1>1, <1>6, <1>7, FoundIs
  <2> QED BY <1>2, <2>1 DEF Single, Present
<1> QED BY <1>10, <1>11, <1>12, <1>13, <1>14, <1>15, <1>16 DEF CatalogueInv

LEMMA CatalogueKeeps ==
  CatalogueAssumption /\ CatalogueInv /\ [CatalogueNext]_catalogueVars => CatalogueInv'
<1> SUFFICES ASSUME CatalogueAssumption, CatalogueInv, [CatalogueNext]_catalogueVars
             PROVE  CatalogueInv'
  OBVIOUS
<1>1. ASSUME NEW c \in Calls, Asks(c) PROVE CatalogueInv'
  <2>1. CASE \E u \in People, op \in {"setup", "cleanup", "reset"} : AskDemo(c, op, u)
    BY <2>1, AskDemoKeeps
  <2> QED BY <1>1, <2>1, ReadsKeep DEF Asks
<1>2. ASSUME NEW c \in Calls, Answers(c) PROVE CatalogueInv'
  <2>1. CASE \E active \in BOOLEAN : PutChannel(c, active)
    BY <2>1, ChannelKeeps
  <2>2. CASE SetupLooks(c)
    <3>1. CASE Found = {}
      BY <2>2, <3>1, LooksKeep
    <3>2. CASE Found # {}
      BY <2>2, <3>2, EndsKeep DEF SetupLooks
    <3> QED BY <3>1, <3>2
  <2>3. CASE \E d \in Runs : SetupCreates(c, d)
    BY <2>3, CreatesKeep
  <2>4. CASE RemoveLooks(c)
    BY <2>4, LooksKeep
  <2>5. CASE Remove(c)
    BY <2>5, RemovesKeep
  <2>6. CASE Throws(c)
    BY <2>6, EndsKeep DEF Throws
  <2> QED BY <1>2, <2>1, <2>2, <2>3, <2>4, <2>5, <2>6, OthersKeep DEF Answers
<1>3. CASE UNCHANGED catalogueVars
  <2>1. UNCHANGED <<db, lock, call, used, byHand, ranOut>>
    BY <1>3 DEF catalogueVars
  <2>2. Whole' /\ NothingLeft' /\ Present' = Present /\ Numbered' /\ Read'
    BY <2>1 DEF CatalogueInv, Whole, NothingLeft, Present, Found, Numbered, Read
  <2>3. Types' /\ LockHeldAtWork'
    BY <2>1 DEF CatalogueInv, Types, LockHeldAtWork
  <2>4. Alone => Alone'
    BY <2>1, <2>2 DEF Alone
  <2> QED BY <2>1, <2>2, <2>3, <2>4 DEF CatalogueInv, Single
<1> QED BY <1>1, <1>2, <1>3, DiesKeeps, RunsOutKeeps, OneStepKeeps DEF CatalogueNext

(* A demo lock is never held by a call that was answered.                  *)
THEOREM LockHeldAtWorkHolds == CatalogueSpec => []LockHeldAtWork
<1>1. CatalogueInv => LockHeldAtWork
  BY DEF CatalogueInv
<1> QED BY <1>1, CatalogueStarts, CatalogueKeeps, CatalogueAssumption, PTL DEF CatalogueSpec

(* A demo run that was removed left no monitor, scenario, page or channel, *)
(* unless a user took it apart.                                            *)
THEOREM NothingLeftHolds == CatalogueSpec => []NothingLeft
<1>1. CatalogueInv => NothingLeft
  BY DEF CatalogueInv
<1> QED BY <1>1, CatalogueStarts, CatalogueKeeps, CatalogueAssumption, PTL DEF CatalogueSpec

(* Unless a lock ran out under a slow setup, a workspace has one demo run  *)
(* of its own at most.                                                     *)
THEOREM OneRunHolds == CatalogueSpec => []OneRun
<1>1. CatalogueInv => OneRun
  <2>1. SUFFICES ASSUME CatalogueInv, ~ranOut
                 PROVE  Cardinality(Present) <= 1
    BY DEF OneRun, Present
  <2>2. Single
    BY <2>1 DEF CatalogueInv
  <2>3. CASE Present = {}
    BY <2>3, FS_EmptySet
  <2>4. CASE Present # {}
    <3>1. PICK d : Present = {d}
      BY <2>2, <2>4 DEF Single
    <3> QED BY <3>1, FS_Singleton
  <2> QED BY <2>3, <2>4
<1> QED BY <1>1, CatalogueStarts, CatalogueKeeps, CatalogueAssumption, PTL DEF CatalogueSpec
=============================================================================
