----------------------------- MODULE Pages_proofs -----------------------------
(***************************************************************************)
(* Proofs about what people see, set and send, for any routes, members,    *)
(* requests at once and bounds: one section for each of Console,           *)
(* RouteSettings, IncidentCenter, Outbound, Sharing, History, MonitorPage, *)
(* Reliability, Automation, Import and Health.                             *)
(***************************************************************************)
EXTENDS Automation, Console, Health, History, Import, IncidentCenter, MonitorPage, Outbound,
        Reliability, RouteSettings, Sharing, Sums, FiniteSetTheorems, SequenceTheorems,
        WellFoundedInduction, TLAPS

-----------------------------------------------------------------------------
(* The console.                                                             *)

Load == [state : {"idle", "sent", "answered"}, route : Routes \cup {"none"}, read : Nat]

Types ==
  /\ attempts \in [Routes -> Nat] /\ selected \in Routes
  /\ load \in [Loads -> Load] /\ \A l \in Loads : load[l].state # "idle" => load[l].route \in Routes
  /\ stream \in Stream /\ seen \in Seen

LEMMA LoadIs ==
  ASSUME Types, NEW l \in Loads
  PROVE  /\ load[l] \in Load /\ load[l].read \in Nat
         /\ load[l].state # "idle" => load[l].route \in Routes /\ attempts[load[l].route] \in Nat
BY DEF Types, Load

(* What an answer under way has read is of the past of its route; what it  *)
(* has not read yet, and what it read last, is all there is.               *)
Past ==
  /\ \A l \in Loads : load[l].state = "answered" => load[l].read <= attempts[load[l].route]
  /\ seen.newest <= attempts[selected]
Fresh(l) ==
  /\ load[l].state # "idle" /\ load[l].route = selected
  /\ load[l].state = "answered" => load[l].read = attempts[selected]
Current ==
  /\ seen.newest = attempts[selected]
  /\ ~seen.stale => shown = [route |-> selected, upTo |-> attempts[selected]]
Told == stream.message \/ stream.timer \/ \E l \in Loads : Fresh(l)
Kept == seen.missed \/ Told \/ Current

OverviewInv == Types /\ Past /\ Kept

(* The form shows a check that is in the history.                          *)
FormInv ==
  /\ check \in Urls \cup {NoUrl} /\ form.url \in Urls \cup {NoUrl}
  /\ form \in [url : Urls \cup {NoUrl}, checked : Urls \cup {NoUrl}, reachable : BOOLEAN]
  /\ form.reachable => form.checked \in seen.reached
  /\ DestinationChecked

-----------------------------------------------------------------------------
(* The records.                                                            *)

LEMMA BegunLoad ==
  ASSUME Types, NEW l \in Loads, NEW r \in Routes, Begin(l, r)
  PROVE  /\ load' \in [Loads -> Load] /\ load[l].state = "idle" /\ load'[l] = Sent(r)
         /\ \A x \in Loads : x # l => load'[x] = load[x]
<1>1. Sent(r) \in Load
  BY DEF Sent, Load
<1> QED BY <1>1 DEF Begin, Types

LEMMA SentIs ==
  ASSUME NEW r PROVE Sent(r).state = "sent" /\ Sent(r).route = r
BY DEF Sent

LEMMA StreamIs ==
  ASSUME NEW s \in Stream, NEW b \in BOOLEAN
  PROVE  /\ [s EXCEPT !.message = b] \in Stream /\ [s EXCEPT !.message = b].message = b
         /\ [s EXCEPT !.message = b].timer = s.timer
         /\ [s EXCEPT !.timer = b] \in Stream /\ [s EXCEPT !.timer = b].timer = b
         /\ [s EXCEPT !.timer = b].message = s.message
BY DEF Stream

LEMMA StreamState ==
  ASSUME NEW s \in Stream, NEW q \in {"connecting", "ready", "subscribed", "broken"}
  PROVE  /\ [s EXCEPT !.state = q] \in Stream /\ [s EXCEPT !.state = q].timer = s.timer
         /\ [s EXCEPT !.state = q].message = s.message
BY DEF Stream

LEMMA SeenMissed ==
  ASSUME NEW s \in Seen, NEW b \in BOOLEAN
  PROVE  /\ [s EXCEPT !.missed = b] \in Seen /\ [s EXCEPT !.missed = b].missed = b
         /\ [s EXCEPT !.missed = b].newest = s.newest /\ [s EXCEPT !.missed = b].stale = s.stale
         /\ [s EXCEPT !.missed = b].reached = s.reached /\ [s EXCEPT !.missed = b].created = s.created
BY DEF Seen

LEMMA SeenNewest ==
  ASSUME NEW s \in Seen, NEW n \in Nat
  PROVE  /\ [s EXCEPT !.newest = n] \in Seen /\ [s EXCEPT !.newest = n].newest = n
         /\ [s EXCEPT !.newest = n].missed = s.missed /\ [s EXCEPT !.newest = n].stale = s.stale
         /\ [s EXCEPT !.newest = n].reached = s.reached /\ [s EXCEPT !.newest = n].created = s.created
BY DEF Seen

LEMMA SeenStale ==
  ASSUME NEW s \in Seen, NEW b \in BOOLEAN
  PROVE  /\ [s EXCEPT !.stale = b] \in Seen /\ [s EXCEPT !.stale = b].stale = b
         /\ [s EXCEPT !.stale = b].missed = s.missed /\ [s EXCEPT !.stale = b].newest = s.newest
         /\ [s EXCEPT !.stale = b].reached = s.reached /\ [s EXCEPT !.stale = b].created = s.created
BY DEF Seen

LEMMA SeenReached ==
  ASSUME NEW s \in Seen, NEW x \in SUBSET Urls
  PROVE  /\ [s EXCEPT !.reached = x] \in Seen /\ [s EXCEPT !.reached = x].reached = x
         /\ [s EXCEPT !.reached = x].missed = s.missed /\ [s EXCEPT !.reached = x].newest = s.newest
         /\ [s EXCEPT !.reached = x].stale = s.stale /\ [s EXCEPT !.reached = x].created = s.created
BY DEF Seen

LEMMA SeenCreated ==
  ASSUME NEW s \in Seen, NEW x \in SUBSET Urls
  PROVE  /\ [s EXCEPT !.created = x] \in Seen /\ [s EXCEPT !.created = x].created = x
         /\ [s EXCEPT !.created = x].missed = s.missed /\ [s EXCEPT !.created = x].newest = s.newest
         /\ [s EXCEPT !.created = x].stale = s.stale /\ [s EXCEPT !.created = x].reached = s.reached
BY DEF Seen

(* The effect of a step on the history.                                    *)
SeenGoes(unheard, newest, stale) ==
  /\ seen' \in Seen /\ seen'.missed = unheard /\ seen'.newest = newest /\ seen'.stale = stale
  /\ seen'.reached = seen.reached /\ seen'.created = seen.created

LEMMA SeenAfter ==
  ASSUME seen \in Seen, NEW b \in BOOLEAN, NEW n \in Nat, NEW t \in BOOLEAN
  PROVE  /\ seen' = seen => SeenGoes(seen.missed, seen.newest, seen.stale)
         /\ seen' = [seen EXCEPT !.missed = b] => SeenGoes(b, seen.newest, seen.stale)
         /\ seen' = [seen EXCEPT !.missed = b, !.newest = n, !.stale = t] => SeenGoes(b, n, t)
         /\ seen' = [seen EXCEPT !.stale = t, !.newest = n, !.missed = b] => SeenGoes(b, n, t)
<1>1. PICK s \in Seen : s = seen
  OBVIOUS
<1>2. seen' = seen => SeenGoes(seen.missed, seen.newest, seen.stale)
  BY DEF SeenGoes
<1>3. seen' = [seen EXCEPT !.missed = b] => SeenGoes(b, seen.newest, seen.stale)
  <2> DEFINE q == [s EXCEPT !.missed = b]
  <2>1. /\ q \in Seen /\ q.missed = b /\ q.newest = s.newest /\ q.stale = s.stale
        /\ q.reached = s.reached /\ q.created = s.created
    BY SeenMissed
  <2>2. seen' = [seen EXCEPT !.missed = b] => seen' = q
    BY <1>1
  <2> HIDE DEF q
  <2> QED BY <1>1, <2>1, <2>2 DEF SeenGoes
<1>4. seen' = [seen EXCEPT !.missed = b, !.newest = n, !.stale = t] => SeenGoes(b, n, t)
  <2> DEFINE q1 == [s EXCEPT !.missed = b]
             q2 == [q1 EXCEPT !.newest = n]
             q3 == [q2 EXCEPT !.stale = t]
  <2>1. seen' = [seen EXCEPT !.missed = b, !.newest = n, !.stale = t] => seen' = q3
    BY <1>1
  <2>2. q1 \in Seen /\ q1.missed = b /\ q1.reached = s.reached /\ q1.created = s.created
    BY SeenMissed
  <2> HIDE DEF q1
  <2>3. /\ q2 \in Seen /\ q2.missed = b /\ q2.newest = n
        /\ q2.reached = s.reached /\ q2.created = s.created
    BY <2>2, SeenNewest
  <2> HIDE DEF q2
  <2>4. /\ q3 \in Seen /\ q3.missed = b /\ q3.newest = n /\ q3.stale = t
        /\ q3.reached = s.reached /\ q3.created = s.created
    BY <2>3, SeenStale
  <2> HIDE DEF q3
  <2> QED BY <1>1, <2>1, <2>4 DEF SeenGoes
<1>5. seen' = [seen EXCEPT !.stale = t, !.newest = n, !.missed = b] => SeenGoes(b, n, t)
  <2> DEFINE q1 == [s EXCEPT !.stale = t]
             q2 == [q1 EXCEPT !.newest = n]
             q3 == [q2 EXCEPT !.missed = b]
  <2>1. seen' = [seen EXCEPT !.stale = t, !.newest = n, !.missed = b] => seen' = q3
    BY <1>1
  <2>2. q1 \in Seen /\ q1.stale = t /\ q1.reached = s.reached /\ q1.created = s.created
    BY SeenStale
  <2> HIDE DEF q1
  <2>3. /\ q2 \in Seen /\ q2.stale = t /\ q2.newest = n
        /\ q2.reached = s.reached /\ q2.created = s.created
    BY <2>2, SeenNewest
  <2> HIDE DEF q2
  <2>4. /\ q3 \in Seen /\ q3.missed = b /\ q3.newest = n /\ q3.stale = t
        /\ q3.reached = s.reached /\ q3.created = s.created
    BY <2>3, SeenMissed
  <2> HIDE DEF q3
  <2> QED BY <1>1, <2>1, <2>4 DEF SeenGoes
<1> QED BY <1>2, <1>3, <1>4, <1>5

-----------------------------------------------------------------------------
(* The overview.                                                           *)

LEMMA SelectKeeps ==
  ASSUME OverviewInv, NEW l \in Loads, NEW r \in Routes, Select(l, r)
  PROVE  OverviewInv'
<1>1. /\ attempts' = attempts /\ selected' = r /\ stream' = Connecting
      /\ seen \in Seen /\ attempts \in [Routes -> Nat]
      /\ seen' = [seen EXCEPT !.missed = FALSE, !.newest = 0, !.stale = FALSE]
  BY DEF Select, OverviewInv, Types
<1>2. SeenGoes(FALSE, 0, FALSE)
  BY <1>1, SeenAfter
<1>3. /\ load' \in [Loads -> Load] /\ load'[l] = Sent(r)
      /\ \A x \in Loads : x # l => load'[x] = load[x]
  BY BegunLoad DEF Select, OverviewInv
<1>4. Connecting \in Stream
  BY DEF Connecting, Stream
<1>5. Types'
  BY <1>1, <1>2, <1>3, <1>4, SentIs DEF OverviewInv, Types, SeenGoes
<1>6. Past'
  BY <1>1, <1>2, <1>3, SentIs DEF OverviewInv, Past, SeenGoes
<1>7. Kept'
  BY <1>1, <1>3, SentIs DEF Kept, Told, Fresh
<1> QED BY <1>5, <1>6, <1>7 DEF OverviewInv

LEMMA LoadsAgain ==
  ASSUME OverviewInv, NEW l \in Loads, Begin(l, selected), stream' \in Stream,
         UNCHANGED <<attempts, selected, shown, seen>>
  PROVE  OverviewInv'
<1>1. /\ load' \in [Loads -> Load] /\ load'[l] = Sent(selected)
      /\ \A x \in Loads : x # l => load'[x] = load[x]
  BY BegunLoad DEF OverviewInv, Types
<1>2. Types'
  BY <1>1, SentIs DEF OverviewInv, Types
<1>3. Past'
  BY <1>1, SentIs DEF OverviewInv, Past
<1>4. Kept'
  BY <1>1, SentIs DEF Kept, Told, Fresh
<1> QED BY <1>2, <1>3, <1>4 DEF OverviewInv

LEMMA ReadKeeps ==
  ASSUME OverviewInv, NEW l \in Loads, Read(l)
  PROVE  OverviewInv'
<1>1. PICK q \in Load : q = load[l]
  BY LoadIs DEF OverviewInv
<1>2. q.state = "sent" /\ q.route \in Routes /\ attempts[q.route] \in Nat
  BY <1>1, LoadIs DEF OverviewInv, Read
<1> DEFINE z == [[q EXCEPT !.state = "answered"] EXCEPT !.read = attempts[q.route]]
<1>3. load' = [load EXCEPT ![l] = z] /\ UNCHANGED <<attempts, selected, shown, stream, seen>>
  BY <1>1 DEF Read, OverviewInv, Types
<1>4. z \in Load /\ z.state = "answered" /\ z.route = q.route /\ z.read = attempts[q.route]
  BY <1>2 DEF Load
<1> HIDE DEF z
<1>5. load'[l] = z /\ \A x \in Loads : x # l => load'[x] = load[x]
  BY <1>3 DEF OverviewInv, Types
<1>6. Types'
  BY <1>2, <1>3, <1>4, <1>5 DEF OverviewInv, Types
<1>7. Past'
  <2>1. ASSUME NEW x \in Loads, load'[x].state = "answered"
        PROVE  load'[x].read <= attempts[load'[x].route]
    <3>1. CASE x = l
      BY <1>2, <1>4, <1>5, <3>1
    <3>2. CASE x # l
      BY <1>5, <2>1, <3>2 DEF OverviewInv, Past
    <3> QED BY <3>1, <3>2
  <2> QED BY <1>3, <2>1 DEF OverviewInv, Past
<1>8. Kept'
  <2>1. ASSUME NEW x \in Loads, Fresh(x) PROVE Fresh(x)'
    <3>1. CASE x = l
      BY <1>1, <1>3, <1>4, <1>5, <2>1, <3>1 DEF Fresh
    <3>2. CASE x # l
      BY <1>3, <1>5, <2>1, <3>2 DEF Fresh
    <3> QED BY <3>1, <3>2
  <2> QED BY <1>3, <2>1 DEF OverviewInv, Kept, Told, Current
<1> QED BY <1>6, <1>7, <1>8 DEF OverviewInv

LEMMA ShowKeeps ==
  ASSUME OverviewInv, NEW l \in Loads, Show(l)
  PROVE  OverviewInv'
<1> USE DEF OverviewInv
<1>1. /\ load[l] \in Load /\ load[l].read \in Nat /\ load[l].state = "answered"
      /\ load[l].route \in Routes /\ load[l].read <= attempts[load[l].route]
      /\ attempts[selected] \in Nat /\ seen.newest \in Nat /\ seen \in Seen
  BY LoadIs DEF Show, Types, Past, Seen
<1>2. PICK n \in Nat : n = IF Older(l) THEN seen.newest ELSE load[l].read
  BY <1>1
<1>3. PICK t \in BOOLEAN : t = Older(l)
  BY DEF Older
<1>4. PICK b \in BOOLEAN : b = (seen.missed /\ (Older(l) \/ load[l].read < attempts[selected]))
  BY <1>1 DEF Seen
<1>5. seen' = [seen EXCEPT !.stale = t, !.newest = n, !.missed = b]
  BY <1>2, <1>3, <1>4 DEF Show
<1>6. SeenGoes(b, n, t)
  BY <1>1, <1>5, SeenAfter
<1>7. Idle \in Load /\ Idle.state = "idle"
  BY DEF Idle, Load
<1>8. /\ UNCHANGED <<attempts, selected, stream>> /\ load' = [load EXCEPT ![l] = Idle]
      /\ shown' = [route |-> load[l].route, upTo |-> load[l].read]
  BY DEF Show
<1>9. load'[l] = Idle /\ \A x \in Loads : x # l => load'[x] = load[x]
  BY <1>8 DEF Types
<1>10. Types'
  BY <1>6, <1>7, <1>8, <1>9 DEF Types, SeenGoes
<1>11. Past'
  BY <1>1, <1>2, <1>6, <1>7, <1>8, <1>9 DEF Past, SeenGoes, Older
<1>12. Kept'
  <2>1. CASE Older(l)
    <3>1. seen.missed => b
      BY <1>4, <2>1
    <3>2. Current => Current'
      BY <1>2, <1>3, <1>6, <1>8, <2>1 DEF Current, SeenGoes
    <3>3. ~Fresh(l)
      BY <1>1, <2>1 DEF Fresh, Older, Past
    <3>4. \A x \in Loads : Fresh(x) => Fresh(x)'
      BY <1>8, <1>9, <3>3 DEF Fresh
    <3> QED BY <1>6, <1>8, <3>1, <3>2, <3>4 DEF Kept, Told, SeenGoes
  <2>2. CASE ~Older(l) /\ load[l].read = attempts[selected]
    <3>1. seen'.newest = attempts'[selected'] /\ shown' = [route |-> selected', upTo |-> attempts'[selected']]
      BY <1>2, <1>6, <1>8, <2>2 DEF SeenGoes, Older
    <3> QED BY <3>1 DEF Kept, Current
  <2>3. CASE ~Older(l) /\ load[l].read # attempts[selected]
    <3>1. load[l].route = selected /\ load[l].read < attempts[selected] /\ seen.newest <= load[l].read
      BY <1>1, <2>3 DEF Older
    <3>2. seen.missed => b
      BY <1>4, <3>1
    <3>3. ~Current /\ ~Fresh(l)
      BY <1>1, <3>1 DEF Current, Fresh
    <3>4. \A x \in Loads : Fresh(x) => Fresh(x)'
      BY <1>8, <1>9, <3>3 DEF Fresh
    <3> QED BY <1>6, <1>8, <3>2, <3>3, <3>4 DEF Kept, Told, SeenGoes
  <2> QED BY <2>1, <2>2, <2>3
<1> QED BY <1>10, <1>11, <1>12

LEMMA LoadFailsKeeps ==
  ASSUME OverviewInv, NEW l \in Loads, LoadFails(l)
  PROVE  OverviewInv'
<1>1. /\ UNCHANGED <<attempts, selected, stream>> /\ load' = [load EXCEPT ![l] = Idle]
      /\ seen' = [seen EXCEPT !.missed = TRUE] /\ seen \in Seen
  BY DEF LoadFails, OverviewInv, Types
<1>2. SeenGoes(TRUE, seen.newest, seen.stale)
  BY <1>1, SeenAfter
<1>3. Idle \in Load /\ Idle.state = "idle"
  BY DEF Idle, Load
<1>4. load'[l] = Idle /\ \A x \in Loads : x # l => load'[x] = load[x]
  BY <1>1 DEF OverviewInv, Types
<1>5. Types'
  BY <1>1, <1>2, <1>3, <1>4 DEF OverviewInv, Types, SeenGoes
<1>6. Past'
  BY <1>1, <1>2, <1>3, <1>4 DEF OverviewInv, Past, SeenGoes
<1>7. Kept'
  BY <1>2 DEF Kept, SeenGoes
<1> QED BY <1>5, <1>6, <1>7 DEF OverviewInv

LEMMA AttemptKeeps ==
  ASSUME OverviewInv, NEW r \in Routes, NEW announced \in BOOLEAN, Attempt(r, announced)
  PROVE  OverviewInv'
<1> USE DEF OverviewInv
<1>1. PICK heard \in BOOLEAN : heard = (announced /\ r = selected /\ stream.state = "subscribed")
  OBVIOUS
<1>2. PICK b \in BOOLEAN : b = (seen.missed \/ (r = selected /\ ~heard))
  BY DEF Types, Seen
<1>3. /\ UNCHANGED <<selected, shown, load>> /\ attempts' = [attempts EXCEPT ![r] = @ + 1]
      /\ stream' = (IF heard THEN [stream EXCEPT !.message = TRUE] ELSE stream)
      /\ seen' = [seen EXCEPT !.missed = b]
  BY <1>1, <1>2 DEF Attempt
<1>4. SeenGoes(b, seen.newest, seen.stale)
  BY <1>3, SeenAfter DEF Types
<1>5. /\ stream' \in Stream /\ (heard => stream'.message) /\ stream'.timer = stream.timer
      /\ (stream.message => stream'.message)
  BY <1>3, StreamIs DEF Types
<1>6. /\ attempts' \in [Routes -> Nat] /\ \A x \in Routes : attempts[x] <= attempts'[x]
      /\ \A x \in Routes : x # r => attempts'[x] = attempts[x]
  BY <1>3 DEF Types
<1>7. Types'
  BY <1>3, <1>4, <1>5, <1>6 DEF Types, SeenGoes
<1>8. Past'
  <2>1. ASSUME NEW x \in Loads, load'[x].state = "answered"
        PROVE  load'[x].read <= attempts'[load'[x].route]
    <3>1. load[x].read \in Nat /\ load[x].route \in Routes /\ attempts[load[x].route] \in Nat
          /\ load[x].read <= attempts[load[x].route]
      BY <1>3, <2>1, LoadIs DEF Past
    <3> QED BY <1>3, <1>6, <3>1
  <2>2. seen'.newest <= attempts'[selected']
    <3>1. seen.newest \in Nat /\ selected \in Routes /\ attempts[selected] \in Nat
      BY DEF Types, Seen
    <3> QED BY <1>3, <1>4, <1>6, <3>1 DEF Past, SeenGoes
  <2> QED BY <2>1, <2>2 DEF Past
<1>9. Kept'
  <2>1. CASE heard
    BY <1>5, <2>1 DEF Kept, Told
  <2>2. CASE r = selected /\ ~heard
    BY <1>2, <1>4, <2>2 DEF Kept, SeenGoes
  <2>3. CASE r # selected
    <3>1. attempts'[selected'] = attempts[selected]
      BY <1>3, <1>6, <2>3 DEF Types
    <3>2. \A x \in Loads : Fresh(x) => Fresh(x)'
      BY <1>3, <3>1 DEF Fresh
    <3>3. Current => Current'
      BY <1>3, <1>4, <3>1 DEF Current, SeenGoes
    <3>4. seen.missed => seen'.missed
      BY <1>2, <1>4 DEF SeenGoes
    <3> QED BY <1>5, <3>2, <3>3, <3>4 DEF Kept, Told
  <2> QED BY <2>1, <2>2, <2>3
<1> QED BY <1>7, <1>8, <1>9

LEMMA StreamKeeps ==
  ASSUME OverviewInv, Opens \/ Subscribes \/ Breaks \/ Hears
  PROVE  OverviewInv'
<1> USE DEF OverviewInv
<1>1. UNCHANGED <<attempts, selected, shown, load>>
  BY DEF Opens, Subscribes, Breaks, Hears
<1>2. PICK s \in Stream : s = stream
  BY DEF Types
<1>3. CASE Opens \/ Subscribes
  <2>1. UNCHANGED seen /\ \E q \in {"ready", "subscribed"} : stream' = [s EXCEPT !.state = q]
    BY <1>2, <1>3 DEF Opens, Subscribes
  <2>2. PICK q \in {"ready", "subscribed"} : stream' = [s EXCEPT !.state = q]
    BY <2>1
  <2>3. q \in {"connecting", "ready", "subscribed", "broken"}
    OBVIOUS
  <2>4. stream' \in Stream /\ stream'.message = s.message /\ stream'.timer = s.timer
    BY <2>2, <2>3, StreamState
  <2>5. stream' \in Stream /\ stream'.message = stream.message /\ stream'.timer = stream.timer
    BY <1>2, <2>4
  <2> QED BY <1>1, <2>1, <2>5 DEF Types, Past, Kept, Told, Current, Fresh
<1>4. CASE Hears
  <2> DEFINE q1 == [s EXCEPT !.message = FALSE]
             q2 == [q1 EXCEPT !.timer = TRUE]
  <2>1. UNCHANGED seen /\ stream' = q2
    BY <1>2, <1>4 DEF Hears
  <2>2. q1 \in Stream
    BY StreamIs
  <2> HIDE DEF q1
  <2>3. q2 \in Stream /\ q2.timer = TRUE
    BY <2>2, StreamIs
  <2> HIDE DEF q2
  <2> QED BY <1>1, <2>1, <2>3 DEF Types, Past, Kept, Told
<1>5. CASE Breaks
  <2>1. PICK b \in BOOLEAN : b = (seen.missed \/ stream.message)
    BY DEF Types, Seen, Stream
  <2> DEFINE q1 == [s EXCEPT !.state = "broken"]
             q2 == [q1 EXCEPT !.message = FALSE]
  <2>2. seen' = [seen EXCEPT !.missed = b] /\ stream' = q2
    BY <1>2, <1>5, <2>1 DEF Breaks
  <2>3. q1 \in Stream /\ q1.timer = s.timer
    BY StreamState
  <2> HIDE DEF q1
  <2>4. q2 \in Stream /\ q2.timer = s.timer
    BY <2>3, StreamIs
  <2> HIDE DEF q2
  <2>5. SeenGoes(b, seen.newest, seen.stale)
    BY <2>2, SeenAfter DEF Types
  <2>6. Types' /\ Past'
    BY <1>1, <2>2, <2>4, <2>5 DEF Types, Past, SeenGoes
  <2>7. Current => Current'
    BY <1>1, <2>5 DEF Current, SeenGoes
  <2>8. seen.missed \/ stream.message => seen'.missed
    BY <2>1, <2>5 DEF SeenGoes
  <2>9. (stream.timer \/ \E l \in Loads : Fresh(l)) => Told'
    BY <1>1, <1>2, <2>2, <2>4 DEF Told, Fresh
  <2>10. Kept'
    BY <2>7, <2>8, <2>9 DEF Kept, Told
  <2> QED BY <2>6, <2>10
<1> QED BY <1>3, <1>4, <1>5

LEMMA OverviewKeeps ==
  ASSUME OverviewInv, OverviewNext
  PROVE  OverviewInv'
<1>1. ASSUME NEW l \in Loads, Reload(l) PROVE OverviewInv'
  BY <1>1, LoadsAgain DEF Reload, OverviewInv, Types
<1>2. ASSUME NEW l \in Loads, TimerFires(l) PROVE OverviewInv'
  <2>1. stream' = [stream EXCEPT !.timer = FALSE] /\ stream \in Stream
    BY <1>2 DEF TimerFires, OverviewInv, Types
  <2>2. stream' \in Stream
    BY <2>1, StreamIs
  <2>3. Begin(l, selected) /\ UNCHANGED <<attempts, selected, shown, seen>>
    BY <1>2 DEF TimerFires
  <2> QED BY <2>2, <2>3, LoadsAgain
<1> QED BY <1>1, <1>2, SelectKeeps, ReadKeeps, ShowKeeps, LoadFailsKeeps, AttemptKeeps, StreamKeeps
        DEF OverviewNext

LEMMA FormLeavesOverview ==
  ASSUME OverviewInv, UNCHANGED <<attempts, selected, shown, load, stream>>, seen' \in Seen,
         seen'.missed = seen.missed, seen'.newest = seen.newest, seen'.stale = seen.stale
  PROVE  OverviewInv'
BY DEF OverviewInv, Types, Past, Kept, Told, Fresh, Current

(* A page at rest shows what there is: every attempt that was announced is *)
(* read by a request that begins later, and answers that come too late do  *)
(* not count as newest.                                                    *)
LEMMA RestIsCurrent ==
  ASSUME OverviewInv
  PROVE  ShownIsCurrent
BY DEF OverviewInv, Kept, Told, Fresh, Current, ShownIsCurrent, Quiet

-----------------------------------------------------------------------------
(* The form.                                                               *)

LEMMA OverviewLeavesForm ==
  ASSUME OverviewInv, FormInv, OverviewNext
  PROVE  FormInv'
<1>1. seen \in Seen
  BY DEF OverviewInv, Types
<1>2. seen'.reached = seen.reached /\ seen'.created = seen.created
  BY <1>1 DEF OverviewNext, Select, Reload, Read, Show, LoadFails, Attempt, TimerFires, Opens,
              Subscribes, Breaks, Hears, Seen
<1>3. UNCHANGED <<form, check>>
  BY DEF OverviewNext, Select, Reload, Read, Show, LoadFails, Attempt, TimerFires, Opens,
         Subscribes, Breaks, Hears, formVars
<1> QED BY <1>2, <1>3 DEF FormInv, DestinationChecked

LEMMA FormKeeps ==
  ASSUME OverviewInv, FormInv, FormNext
  PROVE  OverviewInv' /\ FormInv'
<1> DEFINE F == [url : Urls \cup {NoUrl}, checked : Urls \cup {NoUrl}, reachable : BOOLEAN]
<1>1. UNCHANGED <<attempts, selected, shown, load, stream>> /\ seen \in Seen
  BY DEF FormNext, Edit, EditOther, Check, CheckAnswers, CheckFails, Submit, overviewVars,
         OverviewInv, Types
<1>2. PICK f \in F : f = form
  BY DEF FormInv
<1>3. ASSUME \/ \E url \in Urls : Edit(url)
             \/ EditOther \/ Check \/ CheckFails
      PROVE  OverviewInv' /\ FormInv'
  <2>1. UNCHANGED seen
    BY <1>3 DEF Edit, EditOther, Check, CheckFails
  <2>2. /\ check' \in Urls \cup {NoUrl} /\ form' \in F
        /\ form'.reachable => form' = form
    <3>1. ASSUME NEW url \in Urls, Edit(url)
          PROVE  check' \in Urls \cup {NoUrl} /\ form' \in F /\ ~form'.reachable
      BY <3>1 DEF FormInv, Edit
    <3>2. CASE EditOther \/ Check
      <4>1. form' = [f EXCEPT !.checked = NoUrl, !.reachable = FALSE]
        BY <1>2, <3>2 DEF EditOther, Check
      <4>2. form' \in F /\ ~form'.reachable
        BY <4>1
      <4>3. check' \in Urls \cup {NoUrl}
        BY <1>2, <3>2 DEF FormInv, EditOther, Check
      <4> QED BY <4>2, <4>3
    <3>3. CASE CheckFails
      BY <1>2, <3>3 DEF CheckFails
    <3> QED BY <1>3, <3>1, <3>2, <3>3
  <2>3. OverviewInv'
    BY <1>1, <2>1, FormLeavesOverview
  <2> QED BY <2>1, <2>2, <2>3 DEF FormInv, DestinationChecked
<1>4. ASSUME NEW reachable \in BOOLEAN, CheckAnswers(reachable)
      PROVE  OverviewInv' /\ FormInv'
  <2>1. check \in Urls /\ check' = NoUrl
    BY <1>4 DEF CheckAnswers, FormInv
  <2>2. PICK x \in SUBSET Urls : x = IF reachable THEN seen.reached \cup {check} ELSE seen.reached
    BY <1>1, <2>1 DEF Seen
  <2>3. seen' = [seen EXCEPT !.reached = x]
    BY <1>4, <2>2 DEF CheckAnswers
  <2>4. /\ seen' \in Seen /\ seen'.reached = x /\ seen'.missed = seen.missed
        /\ seen'.newest = seen.newest /\ seen'.stale = seen.stale /\ seen'.created = seen.created
    BY <1>1, <2>3, SeenReached
  <2>5. form' \in F /\ form'.checked = check /\ form'.reachable = reachable
    BY <1>2, <1>4, <2>1 DEF CheckAnswers
  <2>6. OverviewInv'
    BY <1>1, <2>4, FormLeavesOverview
  <2>7. FormInv'
    BY <2>1, <2>2, <2>4, <2>5 DEF FormInv, DestinationChecked
  <2> QED BY <2>6, <2>7
<1>5. ASSUME Submit
      PROVE  OverviewInv' /\ FormInv'
  <2>1. form.url \in Urls /\ form.url \in seen.reached /\ check' = check
    BY <1>1, <1>5 DEF Submit, destinationChecked, FormInv, Seen
  <2>2. PICK x \in SUBSET Urls : x = seen.created \cup {form.url}
    BY <1>1, <2>1 DEF Seen
  <2>3. seen' = [seen EXCEPT !.created = x]
    BY <1>5, <2>2 DEF Submit
  <2>4. /\ seen' \in Seen /\ seen'.created = x /\ seen'.missed = seen.missed
        /\ seen'.newest = seen.newest /\ seen'.stale = seen.stale /\ seen'.reached = seen.reached
    BY <1>1, <2>3, SeenCreated
  <2>5. form' \in F /\ ~form'.reachable
    BY <1>5 DEF Submit
  <2>6. OverviewInv'
    BY <1>1, <2>4, FormLeavesOverview
  <2>7. FormInv'
    BY <2>1, <2>2, <2>4, <2>5 DEF FormInv, DestinationChecked
  <2> QED BY <2>6, <2>7
<1> QED BY <1>3, <1>4, <1>5 DEF FormNext

-----------------------------------------------------------------------------
ConsoleInv == OverviewInv /\ FormInv

LEMMA ConsoleAlways == ConsoleSpec => []ConsoleInv
<1>1. ConsoleInit => ConsoleInv
  <2> SUFFICES ASSUME ConsoleInit PROVE ConsoleInv
    OBVIOUS
  <2>1. Idle \in Load /\ Idle.state = "idle" /\ Connecting \in Stream
    BY DEF Idle, Load, Connecting, Stream
  <2>2. /\ seen \in Seen /\ seen.newest = 0 /\ ~seen.stale
        /\ seen.reached = {} /\ seen.created = {}
    BY DEF ConsoleInit, Seen
  <2>3. Types
    BY <2>1, <2>2 DEF ConsoleInit, Types
  <2>4. Past /\ Kept
    BY <2>1, <2>2 DEF ConsoleInit, Past, Kept, Current
  <2>5. FormInv
    BY <2>2 DEF ConsoleInit, FormInv, DestinationChecked
  <2> QED BY <2>3, <2>4, <2>5 DEF ConsoleInv, OverviewInv
<1>2. ConsoleInv /\ [ConsoleNext]_consoleVars => ConsoleInv'
  <2> SUFFICES ASSUME ConsoleInv, [ConsoleNext]_consoleVars PROVE ConsoleInv'
    OBVIOUS
  <2>1. CASE OverviewNext
    BY <2>1, OverviewKeeps, OverviewLeavesForm DEF ConsoleInv
  <2>2. CASE FormNext
    BY <2>2, FormKeeps DEF ConsoleInv
  <2>3. CASE UNCHANGED consoleVars
    BY <2>3 DEF ConsoleInv, OverviewInv, FormInv, Types, Past, Kept, Told, Fresh, Current,
                DestinationChecked, consoleVars
  <2> QED BY <2>1, <2>2, <2>3 DEF ConsoleNext
<1> QED BY <1>1, <1>2, PTL DEF ConsoleSpec

(* The overview at rest shows all attempts of the selected route, however  *)
(* many requests for events are under way at once and in whatever order    *)
(* they are answered, unless it was not told or a late answer came last.   *)
THEOREM ShownIsCurrentHolds == ConsoleSpec => []ShownIsCurrent
<1>1. ConsoleInv => ShownIsCurrent
  BY RestIsCurrent DEF ConsoleInv
<1> QED BY <1>1, ConsoleAlways, PTL

(* A live route is created only with a destination that was found          *)
(* reachable, whatever is edited while a check is under way.               *)
THEOREM DestinationCheckedHolds == ConsoleSpec => []DestinationChecked
<1>1. ConsoleInv => DestinationChecked
  BY DEF ConsoleInv, FormInv
<1> QED BY <1>1, ConsoleAlways, PTL

-----------------------------------------------------------------------------
(* The settings of a route.                                                 *)

SettingNames ==
  {"active", "paused", "mode", "environment", "destination", "timeout", "policy", "strategy",
   "provider", "secret", "confirmed"}

RouteInv == \A r \in DOMAIN row \ overlapped : DOMAIN row[r] = SettingNames /\ Ready(row[r])

LEMMA DestinationSuffices ==
  ASSUME NEW s, s.policy # NoPolicy \/ s.destination # NoHost
  PROVE  PolicyInForce(s) # NoPolicy
<1>1. CASE s.policy # NoPolicy
  BY <1>1 DEF PolicyInForce
<1>2. CASE s.policy = NoPolicy
  <2>1. PolicyInForce(s) = Legacy(s) /\ s.destination # NoHost
    BY <1>2 DEF PolicyInForce
  <2>2. Legacy(s).strategy = "single"
    BY <2>1 DEF Legacy
  <2>3. NoPolicy.strategy = "none"
    BY DEF NoPolicy
  <2> QED  BY <2>1, <2>2, <2>3
<1> QED  BY <1>1, <1>2

LEMMA CreatedReady ==
  ASSUME NEW input \in Creations, CreationAllowed(input)
  PROVE  DOMAIN Created(input) = SettingNames /\ Ready(Created(input))
<1> DEFINE given == Created(input)
<1>1. DOMAIN given = SettingNames
  BY DEF Created, SettingNames
<1>2. /\ given.mode = input.mode /\ given.environment = input.environment
      /\ given.provider = input.provider /\ given.secret = input.secret
      /\ given.confirmed = Confirmable(input)
      /\ given.policy = GivenOr(input, "policy", NoPolicy)
      /\ input.destination # NoHost => given.destination = input.destination
  BY DEF Created
<1> HIDE DEF given
<1>3. given.policy # NoPolicy \/ given.destination # NoHost \/ ~Live(given)
  <2>1. CASE Given(input, "policy")
    BY <2>1, <1>2, RouteSettingsAssumption DEF Given, GivenOr
  <2>2. CASE ~Given(input, "policy")
    BY <2>2, <1>2 DEF CreationAllowed, Live
  <2> QED  BY <2>1, <2>2
<1>4. Live(given) => PolicyInForce(given) # NoPolicy
  BY <1>3, DestinationSuffices
<1>5. given.provider # "none" => given.secret
  BY <1>2 DEF CreationAllowed
<1>6. Confirmable(given) => given.confirmed
  BY <1>2 DEF Confirmable, Live
<1> QED  BY <1>1, <1>4, <1>5, <1>6 DEF Ready, given

LEMMA WrittenFields ==
  ASSUME NEW s, NEW input, DOMAIN s = SettingNames
  PROVE  LET after == Written(s, s, input)
         IN  /\ DOMAIN after = SettingNames
             /\ \A setting \in AsGiven : after[setting] = GivenOr(input, setting, s[setting])
             /\ after.destination = IF Given(input, "destination") \/ Given(input, "policy")
                                    THEN DestinationAfter(s, input) ELSE s.destination
             /\ after.policy = IF Given(input, "policy") THEN Prepared(s, input) ELSE s.policy
             /\ after.confirmed = (\/ s.confirmed
                                   \/ /\ Confirmable(Over(input, s))
                                      /\ GivenOr(input, "confirm", FALSE))
<1> DEFINE after == Written(s, s, input)
<1>1. DOMAIN after = SettingNames
  BY DEF Written
<1>2. \A setting \in AsGiven : after[setting] = GivenOr(input, setting, s[setting])
  BY DEF Written, AsGiven, SettingNames
<1>3. after.destination = IF Given(input, "destination") \/ Given(input, "policy")
                          THEN DestinationAfter(s, input) ELSE s.destination
  BY DEF Written, AsGiven, SettingNames, Given
<1>4. after.policy = IF Given(input, "policy") THEN Prepared(s, input) ELSE s.policy
  BY DEF Written, AsGiven, SettingNames, Given
<1>5. after.confirmed = (\/ s.confirmed
                         \/ /\ Confirmable(Over(input, s))
                            /\ GivenOr(input, "confirm", FALSE))
  BY DEF Written, AsGiven, SettingNames, Given
<1> QED  BY <1>1, <1>2, <1>3, <1>4, <1>5

LEMMA NowhereStaysNowhere ==
  ASSUME NEW s, NEW input, s.policy = NoPolicy, s.destination = NoHost,
         ~Given(input, "destination"), ~Given(input, "policy")
  PROVE  DestinationAfter(s, input) = NoHost
<1>1. Prepared(s, input) = NoPolicy
  BY DEF Prepared, CurrentPolicy, PolicyInForce, Legacy, GivenOr
<1>2. Primary(Prepared(s, input)) = NoTarget
  BY <1>1 DEF Primary
<1> QED  BY <1>2 DEF DestinationAfter, GivenOr

LEMMA WrittenReady ==
  ASSUME NEW s, NEW input, DOMAIN s = SettingNames, Ready(s), ~Refusal(s, input)
  PROVE  DOMAIN Written(s, s, input) = SettingNames /\ Ready(Written(s, s, input))
<1> DEFINE after == Written(s, s, input)
           planned == [mode |-> GivenOr(input, "mode", s.mode),
                       environment |-> GivenOr(input, "environment", s.environment)]
           over == Over(input, s)
<1>1. /\ DOMAIN after = SettingNames
      /\ \A setting \in AsGiven : after[setting] = GivenOr(input, setting, s[setting])
      /\ after.destination = IF Given(input, "destination") \/ Given(input, "policy")
                             THEN DestinationAfter(s, input) ELSE s.destination
      /\ after.policy = IF Given(input, "policy") THEN Prepared(s, input) ELSE s.policy
      /\ after.confirmed = (\/ s.confirmed
                            \/ Confirmable(Over(input, s)) /\ GivenOr(input, "confirm", FALSE))
  BY WrittenFields
<1>2. /\ ~(Live(planned) /\ DestinationAfter(s, input) = NoHost)
      /\ ~(GivenOr(input, "provider", s.provider) # "none" /\ ~SecretAfter(s, input))
      /\ ~(Confirmable(planned) /\ ~s.confirmed /\ ~GivenOr(input, "confirm", FALSE))
  BY DEF Refusal
<1>3. /\ after.mode = planned.mode /\ after.environment = planned.environment
      /\ after.provider = GivenOr(input, "provider", s.provider)
      /\ after.secret = GivenOr(input, "secret", s.secret)
  BY <1>1 DEF AsGiven
<1>4. over.mode = planned.mode /\ over.environment = planned.environment
  <2>1. over.mode = IF "mode" \in DOMAIN input THEN input.mode ELSE s.mode
    BY DEF Over, SettingNames
  <2>2. over.environment = IF "environment" \in DOMAIN input
                           THEN input.environment ELSE s.environment
    BY DEF Over, SettingNames
  <2> QED  BY <2>1, <2>2 DEF GivenOr, Given
<1> HIDE DEF after, planned, over
<1>5. /\ Live(after) <=> Live(planned)
      /\ Confirmable(after) <=> Confirmable(planned)
      /\ Confirmable(over) <=> Confirmable(planned)
  BY <1>3, <1>4 DEF Live, Confirmable
<1>6. ASSUME Live(after)
      PROVE  PolicyInForce(after) # NoPolicy
  <2>1. DestinationAfter(s, input) # NoHost
    BY <1>2, <1>5, <1>6
  <2>2. CASE Given(input, "destination") \/ Given(input, "policy")
    BY <2>1, <2>2, <1>1, DestinationSuffices DEF after
  <2>3. CASE ~Given(input, "destination") /\ ~Given(input, "policy")
    <3>1. s.policy # NoPolicy \/ s.destination # NoHost
      BY <2>1, <2>3, NowhereStaysNowhere
    <3>2. after.policy = s.policy /\ after.destination = s.destination
      BY <2>3, <1>1 DEF after
    <3> QED  BY <3>1, <3>2, DestinationSuffices
  <2> QED  BY <2>2, <2>3
<1>7. after.provider # "none" => after.secret
  BY <1>2, <1>3, Zenon DEF SecretAfter
<1>8. Confirmable(after) => after.confirmed
  <2>1. after.confirmed = (s.confirmed \/ (Confirmable(over) /\ GivenOr(input, "confirm", FALSE)))
    BY <1>1 DEF after, over
  <2> QED  BY <2>1, <1>2, <1>5, Zenon
<1>9. Ready(after)
  BY <1>6, <1>7, <1>8 DEF Ready
<1> QED  BY <1>1, <1>9 DEF after

LEMMA RouteKeeps ==
  ASSUME RouteInv, [RouteSettingsNext]_routeSettingsVars
  PROVE  RouteInv'
<1>1. ASSUME UNCHANGED <<row, overlapped>>
      PROVE  RouteInv'
  BY <1>1 DEF RouteInv
<1>2. ASSUME NEW r \in Configured, NEW input \in Creations, CreateRoute(r, input)
      PROVE  RouteInv'
  <2>1. /\ row' = Over([q \in {r} |-> Created(input)], row) /\ overlapped' = overlapped
        /\ CreationAllowed(input)
    BY <1>2 DEF CreateRoute
  <2>2. /\ DOMAIN row' = {r} \cup DOMAIN row /\ row'[r] = Created(input)
        /\ \A q \in DOMAIN row \ {r} : row'[q] = row[q]
    <3> DEFINE new == [q \in {r} |-> Created(input)]
    <3>1. DOMAIN new = {r} /\ new[r] = Created(input)
      OBVIOUS
    <3> HIDE DEF new
    <3>2. row' = Over(new, row)
      BY <2>1 DEF new
    <3>3. DOMAIN row' = {r} \cup DOMAIN row
      BY <3>1, <3>2 DEF Over
    <3>4. row'[r] = Created(input)
      BY <3>1, <3>2 DEF Over
    <3>5. \A q \in DOMAIN row \ {r} : row'[q] = row[q]
      BY <3>1, <3>2 DEF Over
    <3> QED  BY <3>3, <3>4, <3>5
  <2> QED  BY <2>1, <2>2, CreatedReady DEF RouteInv
<1>3. ASSUME NEW r \in Configured, DeleteRoute(r)
      PROVE  RouteInv'
  BY <1>3 DEF DeleteRoute, RouteInv
<1>4. ASSUME NEW c \in Changes, CommitChange(c)
      PROVE  RouteInv'
  <2> DEFINE change == changes[c]
             r == change.route
  <2>1. /\ r \in DOMAIN row /\ ~Refusal(change.current, change.input)
        /\ row' = [row EXCEPT ![r] = Written(@, change.current, change.input)]
        /\ overlapped' = IF row[r] = change.current THEN overlapped ELSE overlapped \cup {r}
    BY <1>4 DEF CommitChange
  <2> HIDE DEF change
  <2>2. /\ DOMAIN row' = DOMAIN row
        /\ row'[r] = Written(row[r], change.current, change.input)
        /\ \A q \in DOMAIN row \ {r} : row'[q] = row[q]
    BY <2>1
  <2>3. ASSUME r \notin overlapped'
        PROVE  DOMAIN row'[r] = SettingNames /\ Ready(row'[r])
    <3>1. row[r] = change.current /\ r \notin overlapped
      BY <2>1, <2>3
    <3>2. DOMAIN change.current = SettingNames /\ Ready(change.current)
      BY <3>1, <2>1 DEF RouteInv
    <3>3. row'[r] = Written(change.current, change.current, change.input)
      BY <3>1, <2>2
    <3> QED  BY <3>2, <3>3, <2>1, WrittenReady
  <2>4. overlapped \subseteq overlapped'
    BY <2>1
  <2>5. ASSUME NEW q \in DOMAIN row' \ overlapped'
        PROVE  DOMAIN row'[q] = SettingNames /\ Ready(row'[q])
    BY <2>2, <2>3, <2>4, <2>5 DEF RouteInv
  <2> QED  BY <2>5 DEF RouteInv
<1>5. ASSUME \/ \E r \in Configured : SelectRoute(r)
             \/ \E c \in Changes : \E r \in Configured :
                  \/ \E input \in PartialChanges : PartialChange(c, r, input)
                  \/ ToggleRoute(c, r)
             \/ \E c \in Changes : \/ SubmitSettings(c) \/ RefuseChange(c)
                                   \/ MissChange(c) \/ ShowChange(c)
             \/ ReadRoutes \/ ShowRoutes
             \/ \E setting \in DOMAIN FormChoices :
                  \E value \in FormChoices[setting] : EditSetting(setting, value)
             \/ \E field \in DOMAIN Blanks : \E value \in Blanks[field] : TypeInto(field, value)
             \/ UNCHANGED routeSettingsVars
      PROVE  RouteInv'
  <2>1. UNCHANGED <<row, overlapped>>
    BY <1>5 DEF SelectRoute, PartialChange, ToggleRoute, SubmitSettings, BeginChange, RefuseChange,
                MissChange, ShowChange, ReadRoutes, ShowRoutes, EditSetting, TypeInto,
                routeSettingsVars
  <2> QED  BY <2>1, <1>1
<1> QED  BY <1>2, <1>3, <1>4, <1>5 DEF RouteSettingsNext

(* PATCH /v1/endpoints/:id: after any number of partial changes a route    *)
(* that takes live traffic has what it takes to, unless one was written to *)
(* a route that had changed since it was read.                             *)
THEOREM LiveRouteReadyHolds == RouteSettingsSpec => []LiveRouteReady
<1>1. RouteSettingsInit => RouteInv
  BY DEF RouteSettingsInit, RouteInv
<1>2. RouteInv /\ [RouteSettingsNext]_routeSettingsVars => RouteInv'
  BY RouteKeeps
<1>3. RouteInv => LiveRouteReady
  BY DEF RouteInv, LiveRouteReady
<1> QED  BY <1>1, <1>2, <1>3, PTL DEF RouteSettingsSpec

-----------------------------------------------------------------------------
(* Deliveries are added, and what ended as a dead letter stays one.        *)
Delivery ==
  [aim : Aims, state : {UnderWay, "retrying", "succeeded", "dead_letter"}, after : Nat,
   kind : {"forward", "retry", "replay"}]

(* What was offered is followed by dead letters only, as far as was read.  *)
IdleAfter(data) ==
  /\ data.readAt \in Nat /\ data.readAt <= Len(followed)
  /\ data.offered \subseteq Nat
  /\ \A n \in data.offered : \A k \in n + 1..data.readAt : followed[k].state = "dead_letter"

RecoveryInv ==
  /\ followed \in Seq(Delivery)
  /\ views = [v \in Views |-> views[v]]
  /\ \A v \in Views :
       /\ views[v].stage = "records" =>
            /\ views[v].readAt \in Nat /\ views[v].readAt <= Len(followed)
            /\ views[v].dead \subseteq 1..Len(followed)
       /\ views[v].stage = "read" => IdleAfter(views[v].data)
  /\ IdleAfter(page)

(* What steps do to the deliveries.                                        *)
FollowedGrows ==
  /\ followed' \in Seq(Delivery) /\ Len(followed') >= Len(followed)
  /\ \A k \in 1..Len(followed) :
       followed[k].state = "dead_letter" => followed'[k].state = "dead_letter"

LEMMA OneMore ==
  ASSUME followed \in Seq(Delivery), NEW d \in Delivery, followed' = Append(followed, d)
  PROVE  FollowedGrows
BY DEF FollowedGrows, Delivery

LEMMA StateAfter ==
  ASSUME followed \in Seq(Delivery), NEW n \in 1..Len(followed), followed[n].state = UnderWay,
         NEW state \in {UnderWay, "retrying", "succeeded", "dead_letter"}, NEW f,
         f = [followed EXCEPT ![n].state = state]
  PROVE  /\ f \in Seq(Delivery) /\ Len(f) = Len(followed)
         /\ \A k \in 1..Len(followed) :
              followed[k].state = "dead_letter" => f[k].state = "dead_letter"
<1> DEFINE d == [followed[n] EXCEPT !.state = state]
<1>1. followed[n] \in Delivery
  OBVIOUS
<1>2. d \in Delivery
  BY <1>1 DEF Delivery
<1>3. f = [followed EXCEPT ![n] = d]
  OBVIOUS
<1> HIDE DEF d
<1>4. /\ f \in Seq(Delivery) /\ Len(f) = Len(followed)
      /\ \A k \in 1..Len(followed) : k # n => f[k] = followed[k]
  BY <1>2, <1>3
<1> QED BY <1>4 DEF UnderWay

LEMMA RequestGrows ==
  ASSUME RecoveryInv, NEW n \in 1..Len(followed), NEW kind \in {"retry", "replay"},
         Requested(n, kind)
  PROVE  FollowedGrows
<1>1. CASE UNCHANGED followed
  BY <1>1 DEF RecoveryInv, FollowedGrows
<1>2. CASE followed' = Append(followed,
               [aim |-> followed[1].aim, state |-> UnderWay, after |-> n, kind |-> kind])
  <2>1. followed \in Seq(Delivery) /\ followed[1] \in Delivery
    BY DEF RecoveryInv
  <2>2. [aim |-> followed[1].aim, state |-> UnderWay, after |-> n, kind |-> kind] \in Delivery
    BY <2>1 DEF Delivery
  <2> QED BY <1>2, <2>1, <2>2, OneMore
<1> QED BY <1>1, <1>2 DEF Requested

LEMMA DeliveryAtRest ==
  ASSUME RecoveryInv, FollowedGrows, NEW data, IdleAfter(data)
  PROVE  /\ data.readAt \in Nat /\ data.readAt <= Len(followed')
         /\ data.offered \subseteq Nat
         /\ \A n \in data.offered : \A k \in n + 1..data.readAt : followed'[k].state = "dead_letter"
<1>1. Len(followed) \in Nat /\ Len(followed') \in Nat
  BY DEF RecoveryInv, FollowedGrows
<1>2. \A n \in data.offered : \A k \in n + 1..data.readAt : k \in 1..Len(followed)
  BY <1>1 DEF IdleAfter
<1> QED BY <1>1, <1>2 DEF IdleAfter, FollowedGrows

LEMMA DeliveriesGoOn ==
  ASSUME RecoveryInv, FollowedGrows, UNCHANGED <<views, page>>
  PROVE  RecoveryInv'
<1>1. Len(followed) \in Nat /\ Len(followed') \in Nat
  BY DEF RecoveryInv, FollowedGrows
<1>2. IdleAfter(page)'
  BY DeliveryAtRest DEF IdleAfter, RecoveryInv
<1>3. ASSUME NEW v \in Views, views[v].stage = "read" PROVE IdleAfter(views[v].data)'
  BY <1>3, DeliveryAtRest DEF IdleAfter, RecoveryInv
<1>4. ASSUME NEW v \in Views, views[v].stage = "records"
      PROVE  /\ views[v].readAt \in Nat /\ views[v].readAt <= Len(followed')
             /\ views[v].dead \subseteq 1..Len(followed')
  BY <1>1, <1>4 DEF RecoveryInv, FollowedGrows
<1>5. followed' \in Seq(Delivery) /\ views' = [v \in Views |-> views'[v]]
  BY DEF RecoveryInv, FollowedGrows
<1> QED BY <1>2, <1>3, <1>4, <1>5 DEF RecoveryInv

LEMMA DeliveriesStay == ASSUME RecoveryInv, UNCHANGED followed PROVE FollowedGrows
BY DEF RecoveryInv, FollowedGrows

(* A request for the page moves on, or is there anew.                      *)
LEMMA ViewStep ==
  ASSUME RecoveryInv, FollowedGrows, NEW v \in Views, NEW view, views' = [views EXCEPT ![v] = view],
         view.stage = "records" =>
            /\ view.readAt \in Nat /\ view.readAt <= Len(followed)
            /\ view.dead \subseteq 1..Len(followed),
         view.stage = "read" => IdleAfter(view.data),
         page' = page \/ IdleAfter(page')
  PROVE  RecoveryInv'
<1>0. views' = [w \in Views |-> IF w = v THEN view ELSE views[w]]
  BY DEF RecoveryInv
<1>1. Len(followed) \in Nat /\ Len(followed') \in Nat
  BY DEF RecoveryInv, FollowedGrows
<1>2. IdleAfter(page)'
  BY DeliveryAtRest DEF IdleAfter, RecoveryInv
<1>3. ASSUME NEW w \in Views, views'[w].stage = "read" PROVE IdleAfter(views[w].data)'
  <2>1. IdleAfter(views'[w].data)
    BY <1>0, <1>3 DEF RecoveryInv
  <2> QED BY <2>1, DeliveryAtRest DEF IdleAfter
<1>4. ASSUME NEW w \in Views, views'[w].stage = "records"
      PROVE  /\ views'[w].readAt \in Nat /\ views'[w].readAt <= Len(followed')
             /\ views'[w].dead \subseteq 1..Len(followed')
  <2>1. /\ views'[w].readAt \in Nat /\ views'[w].readAt <= Len(followed)
        /\ views'[w].dead \subseteq 1..Len(followed)
    BY <1>0, <1>4 DEF RecoveryInv
  <2> QED BY <1>1, <2>1 DEF FollowedGrows
<1>5. followed' \in Seq(Delivery) /\ views' = [w \in Views |-> views'[w]]
  BY <1>0 DEF RecoveryInv, FollowedGrows
<1> QED BY <1>2, <1>3, <1>4, <1>5 DEF RecoveryInv

LEMMA ViewBegins ==
  ASSUME RecoveryInv, FollowedGrows, NEW v \in Views, NEW for, BeginView(v, for), page' = page
  PROVE  RecoveryInv'
BY ViewStep DEF BeginView

(* Nothing later had succeeded or was pending: it was dead.                *)
LEMMA OfferedIdle ==
  ASSUME RecoveryInv, NEW v \in Views, ReadFollowUps(v)
  PROVE  RecoveryInv'
<1> DEFINE view == views[v]
           resolved == {n \in view.dead : Later(n, {"succeeded"})}
           offered == {n \in view.dead \ resolved : ~Later(n, Pending)}
           data == [cases |-> view.cases, dead |-> view.dead, resolved |-> resolved,
                    offered |-> offered, alerts |-> view.alerts, readAt |-> view.readAt,
                    turn |-> view.turn]
           new == [stage |-> "read", for |-> view.for, data |-> data]
<1>1. /\ view.readAt \in Nat /\ view.readAt <= Len(followed) /\ view.dead \subseteq 1..Len(followed)
      /\ Len(followed) \in Nat
  BY DEF ReadFollowUps, RecoveryInv
<1>2. ASSUME NEW n \in offered, NEW k \in n + 1..view.readAt PROVE followed[k].state = "dead_letter"
  <2>1. n \in 1..Len(followed) /\ k \in 1..Len(followed) /\ k > n
    BY <1>1
  <2>2. followed[k] \in Delivery
    BY <2>1 DEF RecoveryInv
  <2>3. followed[k].state \notin {"succeeded"} /\ followed[k].state \notin Pending
    BY <2>1 DEF Later, FollowUpOf
  <2> QED BY <2>2, <2>3 DEF Delivery, Pending
<1>3. offered \subseteq Nat
  BY <1>1
<1>4. IdleAfter(data)
  <2>1. data.offered = offered /\ data.readAt = view.readAt
    OBVIOUS
  <2> HIDE DEF data, offered
  <2> QED BY <1>1, <1>2, <1>3, <2>1 DEF IdleAfter
<1>5. views' = [views EXCEPT ![v] = new]
  BY DEF ReadFollowUps
<1>6. new.stage = "read" /\ new.data = data
  OBVIOUS
<1>7. page' = page /\ followed' = followed
  BY DEF ReadFollowUps, recordVars
<1> HIDE DEF new, data
<1> QED BY <1>4, <1>5, <1>6, <1>7, DeliveriesStay, ViewStep

LEMMA RecoveryKeeps ==
  ASSUME RecoveryInv, [IncidentCenterNext]_incidentCenterVars
  PROVE  RecoveryInv'
<1>1. ASSUME NEW n \in 1..Len(followed), NEW state \in {"succeeded", "dead_letter"},
             DeliveryEnds(n, state)
      PROVE  RecoveryInv'
  <2>1. FollowedGrows
    <3>1. Len(followed) \in Nat /\ followed \in Seq(Delivery)
      BY DEF RecoveryInv
    <3>2. /\ followed[n].state = UnderWay /\ followed' = [followed EXCEPT ![n].state = state]
          /\ state \in {UnderWay, "retrying", "succeeded", "dead_letter"}
      BY <1>1 DEF DeliveryEnds
    <3>3. /\ followed' \in Seq(Delivery) /\ Len(followed') = Len(followed)
          /\ \A k \in 1..Len(followed) :
               followed[k].state = "dead_letter" => followed'[k].state = "dead_letter"
      BY <3>1, <3>2, StateAfter
    <3> QED BY <3>1, <3>3 DEF FollowedGrows
  <2> QED BY <1>1, <2>1, DeliveriesGoOn DEF DeliveryEnds, lookingVars
<1>2. ASSUME NEW n \in 1..Len(followed), DeliveryRetries(n) PROVE RecoveryInv'
  <2> DEFINE f == [followed EXCEPT ![n].state = "retrying"]
             d == [followed[n] EXCEPT !.after = n, !.kind = "retry"]
  <2>0. followed \in Seq(Delivery) /\ Len(followed) \in Nat
    BY DEF RecoveryInv
  <2>1. /\ f \in Seq(Delivery) /\ Len(f) = Len(followed)
        /\ \A k \in 1..Len(followed) : followed[k].state = "dead_letter" => f[k].state = "dead_letter"
    BY <1>2, <2>0, StateAfter DEF DeliveryRetries
  <2>2. d \in Delivery
    <3>1. followed[n] \in Delivery /\ n \in Nat
      BY <2>0
    <3> QED BY <3>1 DEF Delivery
  <2>3. followed' = Append(f, d)
    BY <1>2 DEF DeliveryRetries
  <2> HIDE DEF f, d
  <2>4. FollowedGrows
    BY <2>0, <2>1, <2>2, <2>3 DEF FollowedGrows
  <2> QED BY <1>2, <2>4, DeliveriesGoOn DEF DeliveryRetries, lookingVars
<1>3. ASSUME NEW n \in 1..Len(followed), NEW kind \in {"retry", "replay"}, RecoverElsewhere(n, kind)
      PROVE  RecoveryInv'
  BY <1>3, RequestGrows, DeliveriesGoOn DEF RecoverElsewhere, lookingVars
<1>4. ASSUME NEW n \in 1..Len(followed), NEW kind \in {"retry", "replay"}, NEW v \in Views,
             RecoverDeadLetter(n, kind, v)
      PROVE  RecoveryInv'
  BY <1>4, RequestGrows, ViewBegins DEF RecoverDeadLetter
<1>5. ASSUME NEW v \in Views, Poll(v) \/ \E t \in Triages : AfterTriage(t, v) PROVE RecoveryInv'
  BY <1>5, DeliveriesStay, ViewBegins DEF Poll, AfterTriage, recordVars
<1>6. ASSUME NEW v \in Views, ReadRecords(v) PROVE RecoveryInv'
  <2> DEFINE view == [stage |-> "records", for |-> views[v].for, turn |-> views[v].turn, cases |-> cases,
                      dead |-> DeadLetters, alerts |-> Audit, readAt |-> Len(followed)]
  <2>1. views' = [views EXCEPT ![v] = view] /\ page' = page /\ followed' = followed
    BY <1>6 DEF ReadRecords, recordVars
  <2>2. /\ view.stage = "records" /\ view.readAt \in Nat /\ view.readAt <= Len(followed)
        /\ view.dead \subseteq 1..Len(followed)
    BY DEF RecoveryInv, DeadLetters
  <2> HIDE DEF view
  <2> QED BY <2>1, <2>2, DeliveriesStay, ViewStep
<1>7. ASSUME NEW v \in Views, ReadFollowUps(v) PROVE RecoveryInv'
  BY <1>7, OfferedIdle
<1>8. ASSUME NEW v \in Views, ShowView(v) PROVE RecoveryInv'
  <2>1. /\ views' = [views EXCEPT ![v] = NoView] /\ page' = views[v].data /\ followed' = followed
        /\ views[v].stage = "read"
    BY <1>8 DEF ShowView, recordVars
  <2>2. NoView.stage \notin {"records", "read"}
    BY DEF NoView
  <2>3. IdleAfter(page')
    BY <2>1 DEF RecoveryInv
  <2> QED BY <2>1, <2>2, <2>3, DeliveriesStay, ViewStep
<1>9. ASSUME NEW v \in Views, FailView(v) PROVE RecoveryInv'
  <2>1. /\ views' = [views EXCEPT ![v] = NoView] /\ page' = page /\ followed' = followed
        /\ NoView.stage = "none"
    BY <1>9 DEF FailView, recordVars, NoView
  <2> QED BY <2>1, DeliveriesStay, ViewStep
<1>10. ASSUME UNCHANGED <<followed, views, page>> PROVE RecoveryInv'
  BY <1>10, DeliveriesStay, DeliveriesGoOn
<1>11. ASSUME TriageNext, ~ViewNext, ~\E t \in Triages, v \in Views : AfterTriage(t, v)
       PROVE  UNCHANGED <<followed, views, page>>
  BY <1>11 DEF TriageNext, CaseRecovers, AlertIsSent, Draft, Triage, TriageElsewhere, CommitTriage,
     LeaveTeam, lookingVars, recordVars
<1>12. CASE UNCHANGED incidentCenterVars
  BY <1>10, <1>12 DEF incidentCenterVars, recordVars, lookingVars
<1> QED BY <1>1, <1>2, <1>3, <1>4, <1>5, <1>6, <1>7, <1>8, <1>9, <1>10, <1>11, <1>12
        DEF IncidentCenterNext, RecoveryNext, ViewNext

LEMMA SequenceOfAims == SetToSeq(Aims) \in [1..Cardinality(Aims) -> Aims]
<1>1. ExistsBijection(1..Cardinality(Aims), Aims)
  BY IncidentCenterAssumption, FS_CardinalityType
<1>2. \E f \in [1..Cardinality(Aims) -> Aims] : IsInjective(f)
  BY <1>1 DEF ExistsBijection, Bijection, Injection
<1> QED BY <1>2 DEF SetToSeq

(* Recovery is offered only of a dead letter after which, when it was      *)
(* read, there was nothing but dead letters.                               *)
THEOREM OfferedAreIdleHolds == IncidentCenterSpec => []OfferedAreIdle
<1>1. IncidentCenterInit => RecoveryInv
  <2> SUFFICES ASSUME IncidentCenterInit PROVE RecoveryInv
    OBVIOUS
  <2>1. Cardinality(Aims) \in Nat
    BY IncidentCenterAssumption, FS_CardinalityType
  <2>2. \A n \in 1..Cardinality(Aims) :
          [aim |-> SetToSeq(Aims)[n], state |-> UnderWay, after |-> 0, kind |-> "forward"] \in Delivery
    BY SequenceOfAims DEF Delivery
  <2>3. followed \in Seq(Delivery)
    BY <2>1, <2>2 DEF IncidentCenterInit
  <2>4. IdleAfter(page)
    <3>1. page.readAt = 0 /\ page.offered = {} /\ Len(followed) \in Nat
      <4>1. page = [cases |-> <<>>, dead |-> {}, offered |-> {}, resolved |-> {}, alerts |-> {},
                    readAt |-> 0, turn |-> 0]
        BY DEF IncidentCenterInit
      <4> QED BY <2>3, <4>1
    <3> QED BY <3>1 DEF IdleAfter
  <2>5. views = [v \in Views |-> views[v]] /\ \A v \in Views : views[v].stage = "none"
    BY DEF IncidentCenterInit, NoView
  <2> QED BY <2>3, <2>4, <2>5 DEF RecoveryInv
<1>2. RecoveryInv /\ [IncidentCenterNext]_incidentCenterVars => RecoveryInv'
  BY RecoveryKeeps
<1>3. RecoveryInv => OfferedAreIdle
  BY DEF RecoveryInv, IdleAfter, OfferedAreIdle
<1> QED BY <1>1, <1>2, <1>3, PTL DEF IncidentCenterSpec
-----------------------------------------------------------------------------
(* A member's own changes.                                                 *)

SettingsOf == {"acknowledged", "assignee", "note"}

(* What the viewer set last, and no one else since, is what is stored.     *)
OwnStored ==
  /\ cases = [i \in Cases |-> cases[i]] /\ own = [i \in Cases |-> own[i]]
  /\ triages = [t \in Triages |-> triages[t]]
  /\ \A t \in Triages : triages[t].stage = "checked" =>
       triages[t].incident \in Cases /\ DOMAIN triages[t].values \subseteq SettingsOf
  /\ \A i \in Cases :
       /\ cases[i] = [f \in DOMAIN cases[i] |-> cases[i][f]]
       /\ DOMAIN own[i] \subseteq DOMAIN cases[i] \cap SettingsOf
       /\ \A f \in DOMAIN own[i] : cases[i][f] = own[i][f]

(* Requests for the page have the order in which they began.               *)
TurnOf(view) == IF view.stage = "read" THEN view.data.turn ELSE view.turn
CasesOf(view) == IF view.stage = "read" THEN view.data.cases ELSE view.cases
TurnsInv ==
  /\ triageBudget \in [changes : Nat, views : Nat]
  /\ views = [v \in Views |-> views[v]]
  /\ page.turn \in 0..triageBudget.views
  /\ \A v \in Views :
       \/ views[v] = NoView
       \/ views[v].stage \in {"asked", "records", "read"} /\ TurnOf(views[v]) \in 0..triageBudget.views

(* All answers from some turn on have a value, and one of them is shown or *)
(* still to come.                                                          *)
From(turn, i, f) ==
  /\ \A v \in Views : views[v].stage \in {"records", "read"} /\ TurnOf(views[v]) >= turn =>
       CasesOf(views[v])[i][f] = own[i][f]
  /\ page.turn >= turn => page.cases[i][f] = own[i][f]
  /\ page.turn >= turn \/ \E v \in Views : views[v] # NoView /\ TurnOf(views[v]) >= turn
ToBeShown == \E t \in Triages : triages[t].stage = "done" /\ triages[t].by = viewer
Caught ==
  ~crossed /\ ~missed /\ ~ToBeShown =>
    \A i \in Cases : \A f \in DOMAIN own[i] : \E turn \in Nat : From(turn, i, f)

ViewerInv == OwnStored /\ TurnsInv /\ Caught

LEMMA BudgetAfter ==
  ASSUME TurnsInv, NEW bound, Spends("views", bound) \/ Spends("changes", bound) \/ UNCHANGED triageBudget
  PROVE  /\ triageBudget' \in [changes : Nat, views : Nat]
         /\ triageBudget'.views >= triageBudget.views
         /\ Spends("views", bound) => triageBudget'.views = triageBudget.views + 1
BY DEF TurnsInv, Spends

(* A step that shows nothing, begins no request and adds nothing to what   *)
(* the viewer set.                                                         *)
LEMMA NothingShown ==
  ASSUME ViewerInv, OwnStored', UNCHANGED <<viewer, views, page, crossed, missed>>,
         triageBudget' \in [changes : Nat, views : Nat], triageBudget'.views >= triageBudget.views,
         ToBeShown => ToBeShown',
         \A i \in Cases : /\ DOMAIN own'[i] \subseteq DOMAIN own[i]
                          /\ \A f \in DOMAIN own'[i] : own'[i][f] = own[i][f]
  PROVE  ViewerInv'
<1>1. TurnsInv'
  <2>1. triageBudget.views \in Nat /\ triageBudget'.views \in Nat
    BY DEF ViewerInv, TurnsInv
  <2>2. \A n \in 0..triageBudget.views : n \in 0..triageBudget'.views
    BY <2>1
  <2> QED BY <2>2 DEF ViewerInv, TurnsInv, TurnOf
<1>2. Caught'
  <2> SUFFICES ASSUME ~crossed, ~missed, ~ToBeShown, NEW i \in Cases, NEW f \in DOMAIN own'[i]
               PROVE  \E turn \in Nat : From(turn, i, f)'
    BY DEF Caught
  <2>1. PICK turn \in Nat : From(turn, i, f)
    BY DEF ViewerInv, Caught
  <2>2. From(turn, i, f)'
    BY <2>1 DEF From, TurnOf, CasesOf
  <2> QED BY <2>2
<1> QED BY <1>1, <1>2 DEF ViewerInv

(* A request for the page begins: its turn is later than any other.        *)
LEMMA TurnBegins ==
  ASSUME ViewerInv, NEW v \in Views, NEW for, BeginView(v, for), OwnStored',
         UNCHANGED <<viewer, page, crossed, missed, own>>
  PROVE  /\ TurnsInv'
         /\ \A i \in Cases : \A f \in DOMAIN own[i] :
              /\ \E turn \in Nat : From(turn, i, f)'
              /\ \A turn \in Nat : From(turn, i, f) => From(turn, i, f)'
<1>0. PICK new \in Nat : new = 1 + triageBudget.views
  BY DEF ViewerInv, TurnsInv
<1> DEFINE view == [stage |-> "asked", for |-> for, turn |-> new]
<1>1. views' = [w \in Views |-> IF w = v THEN view ELSE views[w]] /\ views[v] = NoView
  BY <1>0 DEF BeginView, ViewerInv, TurnsInv, Turn
<1>2. /\ triageBudget' \in [changes : Nat, views : Nat] /\ triageBudget.views \in Nat
      /\ triageBudget'.views = new /\ new = triageBudget.views + 1
  BY <1>0, BudgetAfter DEF BeginView, ViewerInv, TurnsInv
<1>3. /\ view.stage = "asked" /\ TurnOf(view) = new /\ view # NoView
  BY DEF TurnOf, NoView
<1> HIDE DEF view
<1>4. TurnsInv'
  <2>1. \A n \in 0..triageBudget.views : n \in 0..triageBudget'.views
    BY <1>2
  <2>2. new \in 0..triageBudget'.views
    BY <1>2
  <2> QED BY <1>1, <1>2, <1>3, <2>1, <2>2 DEF ViewerInv, TurnsInv, TurnOf
<1>5. ASSUME NEW i \in Cases, NEW f \in DOMAIN own[i], NEW turn \in Nat, From(turn, i, f)
      PROVE  From(turn, i, f)'
  <2>1. \A w \in Views : views'[w].stage \in {"records", "read"} => w # v
    BY <1>1, <1>3
  <2>2. \A w \in Views : w # v => views'[w] = views[w]
    BY <1>1
  <2> QED BY <1>1, <1>5, <2>1, <2>2 DEF From, TurnOf, CasesOf
<1>6. ASSUME NEW i \in Cases, NEW f \in DOMAIN own[i] PROVE From(new, i, f)'
  <2>1. ASSUME NEW w \in Views, w # v, views'[w] # NoView PROVE ~(TurnOf(views'[w]) >= new)
    <3>1. views'[w] = views[w]
      BY <1>1, <2>1
    <3>2. TurnOf(views[w]) \in 0..triageBudget.views
      BY <2>1, <3>1 DEF ViewerInv, TurnsInv
    <3> QED BY <1>2, <3>1, <3>2
  <2>2. ASSUME NEW w \in Views, views'[w].stage \in {"records", "read"}
        PROVE  ~(TurnOf(views'[w]) >= new)
    <3>1. w # v /\ views'[w] # NoView
      BY <1>1, <1>3, <2>2 DEF NoView
    <3> QED BY <2>1, <3>1
  <2>3. ~(page'.turn >= new)
    BY <1>2 DEF ViewerInv, TurnsInv
  <2>4. views'[v] # NoView /\ TurnOf(views'[v]) >= new
    <3>1. views'[v] = view
      BY <1>1
    <3> QED BY <1>2, <1>3, <3>1
  <2> QED BY <2>2, <2>3, <2>4 DEF From, TurnOf, CasesOf
<1>7. ASSUME NEW i \in Cases, NEW f \in DOMAIN own[i] PROVE \E turn \in Nat : From(turn, i, f)'
  BY <1>6
<1> QED BY <1>4, <1>5, <1>7

LEMMA PageAsked ==
  ASSUME ViewerInv, NEW v \in Views, NEW for, BeginView(v, for), OwnStored',
         UNCHANGED <<viewer, page, crossed, missed, own>>
  PROVE  ViewerInv'
<1>1. Caught'
  <2> SUFFICES ASSUME NEW i \in Cases, NEW f \in DOMAIN own[i]
               PROVE  \E turn \in Nat : From(turn, i, f)'
    BY DEF Caught
  <2> QED BY TurnBegins
<1> QED BY <1>1, TurnBegins DEF ViewerInv

(* A request for the page moves on: it keeps its turn, and what it has     *)
(* read, or reads what is stored.                                          *)
LEMMA ViewMoves ==
  ASSUME ViewerInv, NEW v \in Views, NEW view, views' = [views EXCEPT ![v] = view],
         views[v].stage \in {"asked", "records"}, view.stage \in {"records", "read"},
         TurnOf(view) = TurnOf(views[v]),
         CasesOf(view) = IF views[v].stage = "asked" THEN cases ELSE CasesOf(views[v]),
         UNCHANGED <<cases, own, triages, viewer, page, crossed, missed, triageBudget>>
  PROVE  ViewerInv'
<1>1. views' = [w \in Views |-> IF w = v THEN view ELSE views[w]]
  BY DEF ViewerInv, TurnsInv
<1>2. OwnStored'
  BY DEF ViewerInv, OwnStored
<1>3. TurnsInv'
  BY <1>1 DEF ViewerInv, TurnsInv, TurnOf, NoView
<1>4. ASSUME NEW i \in Cases, NEW f \in DOMAIN own[i], NEW turn \in Nat, From(turn, i, f)
      PROVE  From(turn, i, f)'
  <2>1. CasesOf(view)[i][f] = own[i][f] \/ ~(TurnOf(view) >= turn)
    <3>1. CASE views[v].stage = "asked"
      BY <3>1 DEF ViewerInv, OwnStored
    <3>2. CASE views[v].stage = "records"
      BY <1>4, <3>2 DEF From
    <3> QED BY <3>1, <3>2
  <2>2. view # NoView /\ views[v] # NoView
    BY DEF NoView
  <2>3. \A w \in Views : views'[w].stage \in {"records", "read"} /\ TurnOf(views'[w]) >= turn =>
          CasesOf(views'[w])[i][f] = own[i][f]
    BY <1>1, <1>4, <2>1 DEF From
  <2>4. page.turn >= turn \/ \E w \in Views : views'[w] # NoView /\ TurnOf(views'[w]) >= turn
    BY <1>1, <1>4, <2>2 DEF From
  <2> QED BY <1>4, <2>3, <2>4 DEF From, TurnOf, CasesOf
<1>5. Caught'
  <2> SUFFICES ASSUME ~crossed, ~missed, ~ToBeShown', NEW i \in Cases, NEW f \in DOMAIN own[i]
               PROVE  \E turn \in Nat : From(turn, i, f)'
    BY DEF Caught
  <2>1. PICK turn \in Nat : From(turn, i, f)
    BY DEF ViewerInv, Caught, ToBeShown
  <2> QED BY <1>4, <2>1
<1> QED BY <1>2, <1>3, <1>5 DEF ViewerInv

(* An answer is shown: in order, it has the value if any before it had it. *)
LEMMA AnswerShown ==
  ASSUME ViewerInv, NEW v \in Views, ShowView(v)
  PROVE  ViewerInv'
<1>1. /\ views' = [w \in Views |-> IF w = v THEN NoView ELSE views[w]]
      /\ page' = views[v].data /\ views[v].stage = "read" /\ missed' = missed
      /\ crossed' = (crossed \/ views[v].data.turn < page.turn)
      /\ UNCHANGED <<cases, own, triages, viewer, triageBudget>>
  BY DEF ViewerInv, TurnsInv, ShowView, recordVars
<1>2. OwnStored'
  BY <1>1 DEF ViewerInv, OwnStored
<1>3. /\ TurnOf(views[v]) = page'.turn /\ CasesOf(views[v]) = page'.cases
      /\ page'.turn \in Nat /\ page.turn \in Nat
  BY <1>1 DEF ViewerInv, TurnsInv, TurnOf, CasesOf, NoView
<1>4. TurnsInv'
  BY <1>1, <1>3 DEF ViewerInv, TurnsInv, TurnOf, NoView
<1>5. ASSUME NEW i \in Cases, NEW f \in DOMAIN own[i], NEW turn \in Nat, From(turn, i, f),
             ~(page'.turn < page.turn)
      PROVE  From(turn, i, f)'
  <2>1. page'.turn >= turn => page'.cases[i][f] = own[i][f]
    BY <1>1, <1>3, <1>5 DEF From
  <2>2. page'.turn >= turn \/ \E w \in Views : views'[w] # NoView /\ TurnOf(views'[w]) >= turn
    <3>1. CASE page.turn >= turn
      BY <1>3, <1>5, <3>1
    <3>2. CASE \E w \in Views : views[w] # NoView /\ TurnOf(views[w]) >= turn
      BY <1>1, <1>3, <3>2
    <3> QED BY <1>5, <3>1, <3>2 DEF From
  <2>3. \A w \in Views : views'[w].stage \in {"records", "read"} =>
          w # v /\ views'[w] = views[w]
    BY <1>1 DEF NoView
  <2> QED BY <1>1, <1>5, <2>1, <2>2, <2>3 DEF From, TurnOf, CasesOf
<1>6. Caught'
  <2> SUFFICES ASSUME ~crossed', ~missed, ~ToBeShown', NEW i \in Cases, NEW f \in DOMAIN own[i]
               PROVE  \E turn \in Nat : From(turn, i, f)'
    BY <1>1 DEF Caught
  <2>1. PICK turn \in Nat : From(turn, i, f)
    BY <1>1 DEF ViewerInv, Caught, ToBeShown
  <2> QED BY <1>1, <1>5, <2>1
<1> QED BY <1>2, <1>4, <1>6 DEF ViewerInv

(* The writes.                                                             *)
LEMMA ChangeStored ==
  ASSUME ViewerInv, NEW t \in Triages, CommitTriage(t)
  PROVE  /\ OwnStored'
         /\ triages[t].by # viewer => \A i \in Cases :
              /\ DOMAIN own'[i] \subseteq DOMAIN own[i]
              /\ \A f \in DOMAIN own'[i] : own'[i][f] = own[i][f]
<1> DEFINE triage == triages[t]
           i == triage.incident
           values == triage.values
<1>1. i \in Cases /\ DOMAIN values \subseteq SettingsOf
  BY DEF CommitTriage, ViewerInv, OwnStored
<1>2. /\ cases' = [j \in Cases |-> IF j = i THEN Over(values, cases[i]) ELSE cases[j]]
      /\ own' = [j \in Cases |-> IF j # i THEN own[j]
                   ELSE IF triage.by = viewer THEN Over(values, own[i])
                   ELSE [f \in DOMAIN own[i] \ DOMAIN values |-> own[i][f]]]
      /\ triages' = [q \in Triages |-> IF q # t THEN triages[q]
                       ELSE IF triage.by = viewer THEN [triage EXCEPT !.stage = "done"] ELSE NoTriage]
  BY DEF CommitTriage, ViewerInv, OwnStored, Triaged
<1> HIDE DEF values
<1>3. ASSUME NEW j \in Cases
      PROVE  /\ cases'[j] = [f \in DOMAIN cases'[j] |-> cases'[j][f]]
             /\ DOMAIN own'[j] \subseteq DOMAIN cases'[j] \cap SettingsOf
             /\ \A f \in DOMAIN own'[j] : cases'[j][f] = own'[j][f]
  <2>0. /\ cases[j] = [f \in DOMAIN cases[j] |-> cases[j][f]]
        /\ DOMAIN own[j] \subseteq DOMAIN cases[j] \cap SettingsOf
        /\ \A f \in DOMAIN own[j] : cases[j][f] = own[j][f]
    BY DEF ViewerInv, OwnStored
  <2>1. CASE j # i
    BY <1>2, <2>0, <2>1
  <2>2. CASE j = i /\ triage.by = viewer
    <3>1. cases'[j] = Over(values, cases[j]) /\ own'[j] = Over(values, own[j])
      BY <1>2, <2>2
    <3> QED BY <1>1, <2>0, <3>1 DEF Over
  <2>3. CASE j = i /\ triage.by # viewer
    <3>1. /\ cases'[j] = Over(values, cases[j])
          /\ own'[j] = [f \in DOMAIN own[j] \ DOMAIN values |-> own[j][f]]
      BY <1>2, <2>3
    <3> QED BY <1>1, <2>0, <3>1 DEF Over
  <2> QED BY <2>1, <2>2, <2>3
<1>4. ASSUME NEW q \in Triages, triages'[q].stage = "checked"
      PROVE  triages'[q].incident \in Cases /\ DOMAIN triages'[q].values \subseteq SettingsOf
  <2>1. CASE q # t
    BY <1>2, <1>4, <2>1 DEF ViewerInv, OwnStored
  <2>2. CASE q = t
    <3>1. triages'[q].stage # "checked"
      BY <1>2, <2>2 DEF NoTriage
    <3> QED BY <1>4, <3>1
  <2> QED BY <2>1, <2>2
<1>5. OwnStored'
  <2>1. /\ cases' = [j \in Cases |-> cases'[j]] /\ own' = [j \in Cases |-> own'[j]]
        /\ triages' = [q \in Triages |-> triages'[q]]
    BY <1>2
  <2> QED BY <1>3, <1>4, <2>1 DEF OwnStored
<1>6. ASSUME triage.by # viewer, NEW j \in Cases
      PROVE  /\ DOMAIN own'[j] \subseteq DOMAIN own[j]
             /\ \A f \in DOMAIN own'[j] : own'[j][f] = own[j][f]
  BY <1>2, <1>6
<1> QED BY <1>5, <1>6

LEMMA CommitKeeps ==
  ASSUME ViewerInv, NEW t \in Triages, CommitTriage(t)
  PROVE  ViewerInv'
<1>0. /\ UNCHANGED <<viewer, views, page, crossed, missed, triageBudget>>
      /\ triages = [q \in Triages |-> triages[q]] /\ triages[t].stage = "checked"
      /\ triageBudget' \in [changes : Nat, views : Nat] /\ triageBudget'.views >= triageBudget.views
  BY DEF CommitTriage, lookingVars, ViewerInv, OwnStored, TurnsInv
<1>1. CASE triages[t].by = viewer
  <2>1. triages'[t] = [triages[t] EXCEPT !.stage = "done"]
    BY <1>0, <1>1 DEF CommitTriage
  <2>2. triages'[t].stage = "done" /\ triages'[t].by = viewer
    <3> QED BY <1>0, <1>1, <2>1
  <2>3. ToBeShown'
    BY <1>0, <2>2 DEF ToBeShown
  <2>4. TurnsInv' /\ Caught'
    BY <1>0, <2>3 DEF ViewerInv, TurnsInv, Caught, TurnOf
  <2> QED BY <2>4, ChangeStored DEF ViewerInv
<1>2. CASE triages[t].by # viewer
  <2>1. ToBeShown => ToBeShown'
    <3>1. \A q \in Triages : q # t => triages'[q] = triages[q]
      BY <1>0 DEF CommitTriage
    <3> QED BY <1>0, <3>1 DEF ToBeShown
  <2> QED BY <1>0, <1>2, <2>1, ChangeStored, NothingShown
<1> QED BY <1>1, <1>2

LEMMA Values ==
  ASSUME NEW m, NEW patch \in Patches
  PROVE  DOMAIN Settled(m, patch) \subseteq SettingsOf
<1>1. CASE patch \in [acknowledged : BOOLEAN]
  BY <1>1 DEF Settled, SettingsOf
<1>2. CASE patch \in [assignee : People \cup {NoOne}]
  BY <1>2 DEF Settled, SettingsOf
<1>3. CASE patch \in [note : Notes \cup {NoNote}]
  BY <1>3 DEF Settled, SettingsOf
<1> QED BY <1>1, <1>2, <1>3 DEF Patches

LEMMA TriageBegun ==
  ASSUME ViewerInv, NEW t \in Triages, NEW m, NEW i \in Cases, NEW patch \in Patches,
         BeginTriage(t, m, i, patch), UNCHANGED <<cases, own, viewer>>
  PROVE  OwnStored' /\ (ToBeShown => ToBeShown')
<1> DEFINE new == [stage |-> "checked", by |-> m, incident |-> i, values |-> Settled(m, patch),
                   found |-> cases[i]]
<1>1. triages' = [q \in Triages |-> IF q = t THEN new ELSE triages[q]] /\ triages[t] = NoTriage
  BY DEF BeginTriage, ViewerInv, OwnStored
<1>2. new.incident \in Cases /\ DOMAIN new.values \subseteq SettingsOf
  BY Values
<1> HIDE DEF new
<1>3. OwnStored'
  BY <1>1, <1>2 DEF ViewerInv, OwnStored
<1>4. ToBeShown => ToBeShown'
  BY <1>1 DEF ToBeShown, NoTriage
<1> QED BY <1>3, <1>4

LEMMA ViewerKeeps ==
  ASSUME ViewerInv, [IncidentCenterNext]_incidentCenterVars
  PROVE  ViewerInv'
<1>0. /\ triageBudget' \in [changes : Nat, views : Nat]
      /\ triageBudget'.views >= triageBudget.views
  <2> DEFINE BudgetMoves == \/ \E bound : Spends("views", bound) \/ Spends("changes", bound)
                            \/ UNCHANGED triageBudget
  <2>1. ASSUME ViewNext PROVE BudgetMoves
    BY <2>1 DEF ViewNext, BeginView, Poll, ReadRecords, ReadFollowUps, ShowView, FailView
  <2>2. ASSUME RecoveryNext PROVE BudgetMoves
    BY <2>1, <2>2 DEF RecoveryNext, DeliveryEnds, DeliveryRetries, RecoverElsewhere,
       RecoverDeadLetter, BeginView
  <2>3. ASSUME TriageNext PROVE BudgetMoves
    <3>1. ASSUME NEW i, NEW event, NEW note, NEW m,
                 CaseRecovers(i) \/ AlertIsSent(i, event) \/ Draft(i, note) \/ LeaveTeam(m)
          PROVE  BudgetMoves
      BY <3>1 DEF CaseRecovers, AlertIsSent, Draft, LeaveTeam
    <3>2. ASSUME NEW i, NEW t, NEW patch, NEW m, Triage(t, i, patch) \/ TriageElsewhere(t, m, i, patch)
          PROVE  BudgetMoves
      BY <3>2 DEF Triage, TriageElsewhere, BeginTriage
    <3>3. ASSUME NEW t, NEW v, CommitTriage(t) \/ AfterTriage(t, v)
          PROVE  BudgetMoves
      BY <3>3 DEF CommitTriage, AfterTriage, BeginView
    <3> HIDE DEF BudgetMoves
    <3> QED BY <2>1, <2>3, <3>1, <3>2, <3>3 DEF TriageNext
  <2>4. BudgetMoves
    BY <2>1, <2>2, <2>3 DEF IncidentCenterNext, incidentCenterVars
  <2> QED BY <2>4, BudgetAfter DEF ViewerInv
<1>1. ASSUME UNCHANGED <<cases, own, triages, viewer, views, page, crossed, missed>>
      PROVE  ViewerInv'
  <2>1. OwnStored' /\ (ToBeShown => ToBeShown')
    BY <1>1 DEF ViewerInv, OwnStored, ToBeShown
  <2> QED BY <1>0, <1>1, <2>1, NothingShown
<1>2. ASSUME NEW n \in 1..Len(followed), NEW state, NEW kind,
             DeliveryEnds(n, state) \/ DeliveryRetries(n) \/ RecoverElsewhere(n, kind)
      PROVE  ViewerInv'
  BY <1>1, <1>2 DEF DeliveryEnds, DeliveryRetries, RecoverElsewhere, lookingVars
<1>3. ASSUME NEW v \in Views, NEW n, NEW kind, Poll(v) \/ RecoverDeadLetter(n, kind, v)
      PROVE  ViewerInv'
  <2>1. OwnStored'
    BY <1>3 DEF Poll, RecoverDeadLetter, recordVars, ViewerInv, OwnStored
  <2>2. /\ \E for : BeginView(v, for)
        /\ UNCHANGED <<viewer, page, crossed, missed, own>>
    BY <1>3 DEF Poll, RecoverDeadLetter, recordVars
  <2>3. UNCHANGED triages
    BY <1>3 DEF Poll, RecoverDeadLetter
  <2> QED BY <2>1, <2>2, PageAsked
<1>4. ASSUME NEW v \in Views, ReadRecords(v) PROVE ViewerInv'
  <2> DEFINE view == [stage |-> "records", for |-> views[v].for, turn |-> views[v].turn, cases |-> cases,
                      dead |-> DeadLetters, alerts |-> Audit, readAt |-> Len(followed)]
  <2>1. views' = [views EXCEPT ![v] = view] /\ views[v].stage = "asked"
    BY <1>4 DEF ReadRecords
  <2>2. view.stage = "records" /\ TurnOf(view) = TurnOf(views[v]) /\ CasesOf(view) = cases
    BY <2>1 DEF TurnOf, CasesOf
  <2> HIDE DEF view
  <2>3. UNCHANGED <<cases, own, triages, viewer, page, crossed, missed, triageBudget>>
    BY <1>4 DEF ReadRecords, recordVars
  <2> QED BY <2>1, <2>2, <2>3, ViewMoves
<1>5. ASSUME NEW v \in Views, ReadFollowUps(v) PROVE ViewerInv'
  <2> DEFINE resolved == {n \in views[v].dead : Later(n, {"succeeded"})}
             data == [cases |-> views[v].cases, dead |-> views[v].dead, resolved |-> resolved,
                      offered |-> {n \in views[v].dead \ resolved : ~Later(n, Pending)},
                      alerts |-> views[v].alerts, readAt |-> views[v].readAt, turn |-> views[v].turn]
  <2>1. /\ views' = [views EXCEPT ![v] = [stage |-> "read", for |-> views[v].for, data |-> data]]
        /\ data.cases = views[v].cases /\ data.turn = views[v].turn
    BY <1>5 DEF ReadFollowUps
  <2> HIDE DEF data
  <2> DEFINE view == [stage |-> "read", for |-> views[v].for, data |-> data]
  <2>2. views[v].stage = "records" /\ view.stage = "read" /\ TurnOf(view) = TurnOf(views[v])
        /\ CasesOf(view) = CasesOf(views[v])
    BY <1>5, <2>1 DEF ReadFollowUps, TurnOf, CasesOf
  <2>3. UNCHANGED <<cases, own, triages, viewer, page, crossed, missed, triageBudget>>
    BY <1>5 DEF ReadFollowUps, recordVars
  <2>4. views' = [views EXCEPT ![v] = view]
    BY <2>1
  <2> HIDE DEF view
  <2> QED BY <2>2, <2>3, <2>4, ViewMoves
<1>6. ASSUME NEW v \in Views, ShowView(v) PROVE ViewerInv'
  BY <1>6, AnswerShown
<1>7. ASSUME NEW v \in Views, FailView(v) PROVE ViewerInv'
  <2>1. /\ views' = [w \in Views |-> IF w = v THEN NoView ELSE views[w]] /\ missed'
        /\ UNCHANGED <<cases, own, triages, page>>
    BY <1>7 DEF FailView, recordVars, ViewerInv, TurnsInv
  <2>2. OwnStored' /\ Caught'
    BY <2>1 DEF ViewerInv, OwnStored, Caught
  <2>3. TurnsInv'
    <3>1. triageBudget.views \in Nat /\ triageBudget'.views \in Nat
      BY <1>0 DEF ViewerInv, TurnsInv
    <3>2. \A n \in 0..triageBudget.views : n \in 0..triageBudget'.views
      BY <1>0, <3>1
    <3> QED BY <1>0, <2>1, <3>2 DEF ViewerInv, TurnsInv, TurnOf
  <2> QED BY <2>2, <2>3 DEF ViewerInv
<1>8. ASSUME NEW i \in Cases, CaseRecovers(i) PROVE ViewerInv'
  <2>1. /\ cases' = [cases EXCEPT ![i] = [cases[i] EXCEPT !.status = "recovered"]]
        /\ UNCHANGED <<own, triages, viewer, views, page, crossed, missed>>
    BY <1>8 DEF CaseRecovers, lookingVars
  <2>2. ASSUME NEW j \in Cases
        PROVE  /\ cases'[j] = [f \in DOMAIN cases'[j] |-> cases'[j][f]]
               /\ DOMAIN own[j] \subseteq DOMAIN cases'[j] \cap SettingsOf
               /\ \A f \in DOMAIN own[j] : cases'[j][f] = own[j][f]
    <3>0. /\ cases[j] = [f \in DOMAIN cases[j] |-> cases[j][f]]
          /\ DOMAIN own[j] \subseteq DOMAIN cases[j] \cap SettingsOf
          /\ \A f \in DOMAIN own[j] : cases[j][f] = own[j][f]
          /\ cases = [k \in Cases |-> cases[k]]
      BY DEF ViewerInv, OwnStored
    <3>1. CASE j # i
      BY <2>1, <3>0, <3>1
    <3>2. CASE j = i
      <4>1. cases'[j] = [cases[j] EXCEPT !["status"] = "recovered"]
        BY <2>1, <3>0, <3>2
      <4>2. cases'[j] = [f \in DOMAIN cases[j] |-> IF f = "status" THEN "recovered" ELSE cases[j][f]]
        BY <3>0, <4>1
      <4> QED BY <3>0, <4>2 DEF SettingsOf
    <3> QED BY <3>1, <3>2
  <2>3. OwnStored'
    <3>1. cases' = [j \in Cases |-> cases'[j]]
      BY <2>1 DEF ViewerInv, OwnStored
    <3> QED BY <2>1, <2>2, <3>1 DEF ViewerInv, OwnStored
  <2>4. ToBeShown => ToBeShown'
    BY <2>1 DEF ToBeShown
  <2> QED BY <1>0, <2>1, <2>3, <2>4, NothingShown DEF ViewerInv, OwnStored
<1>9. ASSUME NEW i \in Cases, NEW event, NEW m, NEW note,
             AlertIsSent(i, event) \/ LeaveTeam(m) \/ Draft(i, note)
      PROVE  ViewerInv'
  BY <1>1, <1>9 DEF AlertIsSent, LeaveTeam, Draft, lookingVars, recordVars
<1>10. ASSUME NEW i \in Cases, NEW t \in Triages, NEW patch \in Patches, NEW m,
              Triage(t, i, patch) \/ TriageElsewhere(t, m, i, patch)
       PROVE  ViewerInv'
  <2>1. /\ \E by : BeginTriage(t, by, i, patch)
        /\ UNCHANGED <<cases, own, viewer, views, page, crossed, missed>>
    BY <1>10 DEF Triage, TriageElsewhere, lookingVars, recordVars
  <2>2. OwnStored' /\ (ToBeShown => ToBeShown')
    BY <2>1, TriageBegun
  <2> QED BY <1>0, <2>1, <2>2, NothingShown
<1>11. ASSUME NEW t \in Triages, CommitTriage(t) PROVE ViewerInv'
  BY <1>11, CommitKeeps
<1>12. ASSUME NEW t \in Triages, NEW v \in Views, AfterTriage(t, v) PROVE ViewerInv'
  <2>1. /\ BeginView(v, "triage") /\ triages' = [triages EXCEPT ![t] = NoTriage]
        /\ UNCHANGED <<cases, own, viewer, page, crossed, missed>>
    BY <1>12 DEF AfterTriage, recordVars
  <2>2. OwnStored'
    BY <2>1 DEF ViewerInv, OwnStored, NoTriage
  <2>3. TurnsInv' /\ \A i \in Cases : \A f \in DOMAIN own[i] : \E turn \in Nat : From(turn, i, f)'
    BY <2>1, <2>2, TurnBegins
  <2>4. Caught'
    BY <2>1, <2>3 DEF Caught
  <2> QED BY <2>2, <2>3, <2>4 DEF ViewerInv
<1>13. CASE UNCHANGED incidentCenterVars
  BY <1>1, <1>13 DEF incidentCenterVars, recordVars, lookingVars
<1>14. CASE ViewNext
  BY <1>3, <1>4, <1>5, <1>6, <1>7, <1>14 DEF ViewNext
<1>15. CASE RecoveryNext
  BY <1>2, <1>3, <1>14, <1>15 DEF RecoveryNext
<1>16. CASE TriageNext
  <2>1. ASSUME NEW i \in Cases,
               \/ CaseRecovers(i) \/ \E event \in {"opened", "recovered"} : AlertIsSent(i, event)
               \/ \E note \in Notes : Draft(i, note)
        PROVE  ViewerInv'
    BY <1>8, <1>9, <2>1
  <2>2. ASSUME NEW i \in Cases, NEW t \in Triages, NEW patch \in Patches,
               Triage(t, i, patch) \/ \E m \in People : TriageElsewhere(t, m, i, patch)
        PROVE  ViewerInv'
    BY <1>10, <2>2
  <2>3. ASSUME NEW t \in Triages, CommitTriage(t) \/ \E v \in Views : AfterTriage(t, v)
        PROVE  ViewerInv'
    BY <1>11, <1>12, <2>3
  <2>4. ASSUME \E m \in People : LeaveTeam(m)
        PROVE  ViewerInv'
    BY <1>1, <2>4 DEF LeaveTeam, lookingVars
  <2> QED BY <1>14, <1>16, <2>1, <2>2, <2>3, <2>4 DEF TriageNext
<1> QED BY <1>13, <1>15, <1>16 DEF IncidentCenterNext

(* When the page is at rest it shows what its viewer set last, unless      *)
(* someone else changed it since, an answer was late or did not come.      *)
THEOREM OwnChangeShownHolds == IncidentCenterSpec => []OwnChangeShown
<1>1. IncidentCenterInit => ViewerInv
  <2> SUFFICES ASSUME IncidentCenterInit PROVE ViewerInv
    OBVIOUS
  <2>1. OwnStored
    BY DEF IncidentCenterInit, OwnStored, Case, NoTriage
  <2>2. TurnsInv /\ Caught
    <3>1. page.turn = 0
      <4>1. page = [cases |-> <<>>, dead |-> {}, offered |-> {}, resolved |-> {}, alerts |-> {},
                    readAt |-> 0, turn |-> 0]
        BY DEF IncidentCenterInit
      <4> QED BY <4>1
    <3> QED BY <3>1 DEF IncidentCenterInit, TurnsInv, Caught
  <2> QED BY <2>1, <2>2 DEF ViewerInv
<1>2. ViewerInv /\ [IncidentCenterNext]_incidentCenterVars => ViewerInv'
  BY ViewerKeeps
<1>3. ViewerInv => OwnChangeShown
  <2> SUFFICES ASSUME ViewerInv, \A v \in Views : views[v] = NoView,
                      \A t \in Triages : triages[t] # NoTriage => triages[t].by # viewer,
                      ~crossed, ~missed, NEW i \in Cases, NEW f \in DOMAIN own[i]
               PROVE  page.cases[i][f] = own[i][f]
    BY DEF OwnChangeShown
  <2>1. ~ToBeShown
    BY DEF ToBeShown, NoTriage
  <2>2. PICK turn \in Nat : From(turn, i, f)
    BY <2>1 DEF ViewerInv, Caught
  <2> QED BY <2>2 DEF From
<1> QED BY <1>1, <1>2, <1>3, PTL DEF IncidentCenterSpec

-----------------------------------------------------------------------------
(* The network policy.                                                      *)

(* The settings a call carries open private networks only where they may   *)
(* be opened, and the address it was checked for is permitted.             *)
SettingsRead == [private : BOOLEAN, allowed : SUBSET Ranges, saved : BOOLEAN]
CallsChecked ==
  /\ calls = [c \in Calls |-> calls[c]]
  /\ \A c \in Calls :
       /\ calls[c].stage \in {"read", "checked"} =>
            /\ calls[c].policy.private => deployment = "selfhost"
            /\ calls[c].policy.allowed \subseteq Ranges /\ calls[c].name \in Names
       /\ calls[c].stage = "checked" =>
            calls[c].address \in Addresses /\ Permitted(calls[c].address, calls[c].policy)

OutboundInv ==
  /\ resolves \in [Names -> Answers] /\ policyOf \in [Names -> SettingsRead]
  /\ CallsChecked
  /\ ReachesPermitted

LEMMA SomeMinimum ==
  ASSUME NEW S, S \subseteq Nat, S # {}
  PROVE  Min(S) \in S
BY LeastOf DEF Min

(* Whatever kind of request it is, it goes to an address of the answer.    *)
LEMMA ChosenIsOfAnswer ==
  ASSUME NEW answer \in Seq(Addresses), answer # <<>>, NEW kind
  PROVE  \E i \in DOMAIN answer : Chosen(kind, answer) = answer[i]
<1> DEFINE four == {i \in DOMAIN answer : Family[answer[i]] = 4}
<1>1. CASE kind = "icmp" /\ four # {}
  <2>1. Min(four) \in four
    BY <1>1, SomeMinimum
  <2> QED BY <1>1, <2>1 DEF Chosen
<1>2. CASE ~(kind = "icmp" /\ four # {})
  <2>1. 1 \in DOMAIN answer
    OBVIOUS
  <2> QED BY <1>2, <2>1 DEF Chosen
<1> QED BY <1>1, <1>2

LEMMA OthersChecked ==
  ASSUME OutboundInv, NEW d \in Calls, NEW call,
         calls' = [calls EXCEPT ![d] = call], UNCHANGED deployment,
         call.stage \in {"read", "checked"} =>
            /\ call.policy.private => deployment = "selfhost"
            /\ call.policy.allowed \subseteq Ranges /\ call.name \in Names,
         call.stage = "checked" =>
            call.address \in Addresses /\ Permitted(call.address, call.policy)
  PROVE  CallsChecked'
<1>1. calls' = [c \in Calls |-> IF c = d THEN call ELSE calls[c]]
  BY DEF OutboundInv, CallsChecked
<1>2. ASSUME NEW c \in Calls PROVE calls'[c] = IF c = d THEN call ELSE calls[c]
  BY <1>1
<1>3. calls' = [c \in Calls |-> calls'[c]]
  BY <1>1
<1>4. ASSUME NEW c \in Calls
      PROVE  /\ calls'[c].stage \in {"read", "checked"} =>
                  /\ calls'[c].policy.private => deployment' = "selfhost"
                  /\ calls'[c].policy.allowed \subseteq Ranges /\ calls'[c].name \in Names
             /\ calls'[c].stage = "checked" =>
                  calls'[c].address \in Addresses /\ Permitted(calls'[c].address, calls'[c].policy)
  <2>1. CASE c = d
    BY <1>2, <2>1
  <2>2. CASE c # d
    BY <1>2, <2>2 DEF OutboundInv, CallsChecked
  <2> QED BY <2>1, <2>2
<1> QED BY <1>3, <1>4 DEF CallsChecked, Permitted, isBlockedAddress, explicitlyAllowed

LEMMA EndedChecked ==
  ASSUME OutboundInv, NEW c \in Calls, NEW why, Ended(c, why), UNCHANGED deployment
  PROVE  CallsChecked'
BY OthersChecked DEF Ended

LEMMA OutboundKeeps ==
  ASSUME OutboundInv, [OutboundNext]_outboundVars
  PROVE  OutboundInv'
<1> USE OutboundAssumption
<1>1. ASSUME NEW n \in Names, NEW policy \in Policies, SaveTarget(n, policy) PROVE OutboundInv'
  <2>1. [private |-> policy.private, allowed |-> policy.allowed, saved |-> TRUE] \in SettingsRead
    BY DEF SettingsRead
  <2>2. policyOf' \in [Names -> SettingsRead]
    BY <1>1, <2>1 DEF SaveTarget, OutboundInv
  <2> QED BY <1>1, <2>2 DEF SaveTarget, OutboundInv, CallsChecked, ReachesPermitted, Permitted,
          isBlockedAddress, explicitlyAllowed
<1>2. ASSUME NEW n \in Names, NEW answer \in Answers, Resolves(n, answer) PROVE OutboundInv'
  BY <1>2 DEF Resolves, OutboundInv, CallsChecked, ReachesPermitted, Permitted,
          isBlockedAddress, explicitlyAllowed
<1>3. ASSUME NEW n \in Names, NEW c \in Calls, NEW kind, BeginCall(c, n, kind) PROVE OutboundInv'
  <2> DEFINE call == [stage |-> "read", name |-> n, kind |-> kind, policy |-> NetworkOptions(policyOf[n])]
  <2>1. policyOf[n] \in SettingsRead
    BY DEF OutboundInv
  <2>2. /\ NetworkOptions(policyOf[n]).private => deployment = "selfhost"
        /\ NetworkOptions(policyOf[n]).allowed \subseteq Ranges
    BY <2>1 DEF NetworkOptions, SettingsRead
  <2>3. CallsChecked'
    BY <1>3, <2>2, OthersChecked DEF BeginCall
  <2> QED BY <1>3, <2>3 DEF BeginCall, OutboundInv, ReachesPermitted
<1>4. ASSUME NEW c \in Calls, CheckTarget(c) PROVE OutboundInv'
  <2> DEFINE call == calls[c]
             answer == resolves[call.name]
             verdict == ValidateTarget(answer, call.policy)
  <2>0. /\ call.policy.private => deployment = "selfhost"
        /\ call.policy.allowed \subseteq Ranges /\ call.name \in Names
        /\ answer \in Seq(Addresses)
    BY <1>4 DEF CheckTarget, OutboundInv, CallsChecked
  <2>1. CASE verdict = "valid"
    <3>1. answer # <<>> /\ \A a \in ToSet(answer) : Permitted(a, call.policy)
      BY <2>1 DEF ValidateTarget
    <3>2. PICK i \in DOMAIN answer : Chosen(call.kind, answer) = answer[i]
      BY <2>0, <3>1, ChosenIsOfAnswer
    <3>3. Chosen(call.kind, answer) \in ToSet(answer)
      BY <3>2 DEF ToSet
    <3>4. Chosen(call.kind, answer) \in Addresses
      BY <2>0, <3>2
    <3>5. CallsChecked'
      <4> DEFINE checked == [stage |-> "checked", name |-> call.name, kind |-> call.kind,
                 policy |-> call.policy, address |-> Chosen(call.kind, answer)]
      <4>1. calls' = [calls EXCEPT ![c] = checked] /\ UNCHANGED deployment
        BY <1>4, <2>1 DEF CheckTarget
      <4>2. /\ checked.policy = call.policy /\ checked.name = call.name
            /\ checked.address = Chosen(call.kind, answer)
        OBVIOUS
      <4>3. Permitted(checked.address, checked.policy)
        BY <3>1, <3>3, <4>2
      <4> HIDE DEF checked
      <4> QED BY <2>0, <3>4, <4>1, <4>2, <4>3, OthersChecked
    <3> QED BY <1>4, <3>5 DEF CheckTarget, OutboundInv, ReachesPermitted
  <2>2. CASE verdict # "valid"
    <3>1. CallsChecked'
      BY <1>4, <2>2, EndedChecked DEF CheckTarget
    <3> QED BY <1>4, <3>1 DEF CheckTarget, OutboundInv, ReachesPermitted
  <2> QED BY <2>1, <2>2
<1>5. ASSUME NEW c \in Calls, Connect(c) PROVE OutboundInv'
  <2>1. CallsChecked'
    BY <1>5, OthersChecked DEF Connect
  <2>2. /\ calls[c].policy.private => deployment = "selfhost"
        /\ calls[c].policy.allowed \subseteq Ranges
        /\ calls[c].address \in Addresses /\ Permitted(calls[c].address, calls[c].policy)
    BY <1>5 DEF Connect, OutboundInv, CallsChecked
  <2>3. ReachesPermitted'
    <3> SUFFICES ASSUME NEW r \in reached'
                 PROVE  \/ r.address \notin Special
                        \/ /\ deployment' = "selfhost"
                           /\ r.address \in UNION {Members[range] : range \in r.policy.allowed}
      BY DEF ReachesPermitted
    <3>1. CASE r \in reached
      BY <1>5, <3>1 DEF Connect, OutboundInv, ReachesPermitted
    <3>2. CASE r = [address |-> calls[c].address, policy |-> calls[c].policy]
      BY <1>5, <2>2, <3>2 DEF Connect, Permitted, isBlockedAddress, explicitlyAllowed
    <3> QED BY <1>5, <3>1, <3>2 DEF Connect, Pinned
  <2> QED BY <1>5, <2>1, <2>3 DEF Connect, OutboundInv
<1>6. ASSUME NEW c \in Calls, NEW why, ConnectFails(c, why) \/ BreaksOff(c, why) PROVE OutboundInv'
  <2>1. CallsChecked'
    BY <1>6, EndedChecked DEF ConnectFails, BreaksOff
  <2> QED BY <1>6, <2>1 DEF ConnectFails, BreaksOff, OutboundInv, ReachesPermitted
<1>7. ASSUME NEW c \in Calls, Answers3xx(c) \/ Completes(c) PROVE OutboundInv'
  <2>1. CallsChecked'
    BY <1>7, EndedChecked DEF Answers3xx, Completes
  <2> QED BY <1>7, <2>1 DEF Answers3xx, Completes, OutboundInv, ReachesPermitted
<1>8. ASSUME NEW c \in Calls, Receives(c) PROVE OutboundInv'
  <2>1. CASE calls[c].received = MaxBody
    <3>1. CallsChecked'
      BY <1>8, <2>1, EndedChecked DEF Receives
    <3> QED BY <1>8, <3>1 DEF Receives, OutboundInv, ReachesPermitted
  <2>2. CASE calls[c].received # MaxBody
    <3>1. calls' = [calls EXCEPT ![c] = [calls[c] EXCEPT !.received = @ + 1]]
      BY <1>8, <2>2 DEF Receives
    <3>2. [calls[c] EXCEPT !.received = @ + 1].stage = "connected"
      BY <1>8 DEF Receives
    <3>3. CallsChecked'
      BY <1>8, <3>1, <3>2, OthersChecked DEF Receives
    <3> QED BY <1>8, <3>3 DEF Receives, OutboundInv, ReachesPermitted
  <2> QED BY <2>1, <2>2
<1>9. ASSUME NEW c \in Calls, Return(c) PROVE OutboundInv'
  <2>1. CallsChecked'
    BY <1>9, OthersChecked DEF Return, NoCall
  <2> QED BY <1>9, <2>1 DEF Return, OutboundInv, ReachesPermitted
<1>10. CASE UNCHANGED outboundVars
  BY <1>10 DEF outboundVars, OutboundInv, CallsChecked, ReachesPermitted, Permitted,
          isBlockedAddress, explicitlyAllowed
<1> QED BY <1>1, <1>2, <1>3, <1>4, <1>5, <1>6, <1>7, <1>8, <1>9, <1>10 DEF OutboundNext

(* The client of network-policy: however a name resolves between the check *)
(* and the connection, no request reaches an address that its target's     *)
(* policy does not allow.                                                  *)
THEOREM ReachesPermittedHolds == OutboundSpec => []ReachesPermitted
<1>1. OutboundInit => OutboundInv
  BY OutboundAssumption DEF OutboundInit, OutboundInv, CallsChecked, ReachesPermitted, SettingsRead, NoPolicyYet, NoCall
<1>2. OutboundInv /\ [OutboundNext]_outboundVars => OutboundInv'
  BY OutboundKeeps
<1>3. OutboundInv => ReachesPermitted
  BY DEF OutboundInv
<1> QED BY <1>1, <1>2, <1>3, PTL DEF OutboundSpec

-----------------------------------------------------------------------------
(* The status page.                                                        *)

PageRow == [monitor : Shown, save : Nat]
Stage == {"closed", "form", "update", "delete", "insert"}
Form == [stage : Stage, list : SUBSET Shown, seen : SUBSET PageRow]

(* Whoever is between the update of the page and the commit holds its row; *)
(* meanwhile its members only go.                                          *)
Transactions ==
  \A e \in Editors :
    /\ editor[e].stage \in {"delete", "insert"} => lockedBy = e
    /\ editor[e].stage = "insert" => pageMembers \subseteq editor[e].seen

(* The rows of the page are those of the last save, less the monitors that *)
(* were deleted since.                                                     *)
RowsOfSave == pageMembers = IF exists THEN Rows(saved.list \cap present, saved.number) ELSE {}

PageInv ==
  /\ editor \in [Editors -> Form] /\ listed \in [Editors -> SUBSET Shown]
  /\ pageMembers \in SUBSET PageRow /\ present \in SUBSET Shown
  /\ saved \in [list : SUBSET Shown, number : Nat]
  /\ Transactions /\ RowsOfSave

LEMMA FormStage ==
  ASSUME NEW f \in Form, NEW stage \in Stage
  PROVE  /\ [f EXCEPT !.stage = stage] \in Form /\ [f EXCEPT !.stage = stage].stage = stage
         /\ [f EXCEPT !.stage = stage].seen = f.seen
BY DEF Form, Stage

LEMMA FormList ==
  ASSUME NEW f \in Form, NEW list \in SUBSET Shown
  PROVE  /\ [f EXCEPT !.list = list] \in Form /\ [f EXCEPT !.list = list].stage = f.stage
         /\ [f EXCEPT !.list = list].seen = f.seen
BY DEF Form, Stage

LEMMA FormOpens ==
  ASSUME NEW f \in Form, NEW list \in SUBSET Shown
  PROVE  /\ [f EXCEPT !.stage = "form", !.list = list] \in Form
         /\ [f EXCEPT !.stage = "form", !.list = list].stage = "form"
BY DEF Form, Stage

LEMMA FormSees ==
  ASSUME NEW f \in Form, NEW found \in SUBSET PageRow
  PROVE  /\ [f EXCEPT !.stage = "insert", !.seen = found] \in Form
         /\ [f EXCEPT !.stage = "insert", !.seen = found].stage = "insert"
         /\ [f EXCEPT !.stage = "insert", !.seen = found].seen = found
BY DEF Form, Stage

LEMMA MembersOfRows ==
  ASSUME NEW list, NEW number PROVE MonitorsOf(Rows(list, number)) = list
<1>1. ASSUME NEW m \in list PROVE m \in MonitorsOf(Rows(list, number))
  <2> DEFINE entry == [monitor |-> m, save |-> number]
  <2>1. entry \in Rows(list, number) /\ entry.monitor = m
    BY DEF Rows
  <2> QED BY <2>1 DEF MonitorsOf
<1>2. ASSUME NEW m \in MonitorsOf(Rows(list, number)) PROVE m \in list
  BY DEF MonitorsOf, Rows
<1> QED BY <1>1, <1>2

LEMMA EditorMoves ==
  ASSUME PageInv, NEW u \in Editors, NEW f \in Form, editor' = [editor EXCEPT ![u] = f]
  PROVE  /\ editor' \in [Editors -> Form] /\ editor'[u] = f
         /\ \A e \in Editors \ {u} : editor'[e] = editor[e]
BY DEF PageInv

(* A step of one editor that does not touch the page.                      *)
LEMMA EditorStep ==
  ASSUME PageInv, NEW u \in Editors, NEW f \in Form, editor' = [editor EXCEPT ![u] = f],
         f.stage \notin {"delete", "insert"}, editor[u].stage \notin {"delete", "insert"},
         UNCHANGED <<pageMembers, exists, saved, present, lockedBy>>,
         listed' \in [Editors -> SUBSET Shown]
  PROVE  PageInv'
<1>1. /\ editor' \in [Editors -> Form] /\ editor'[u] = f
      /\ \A e \in Editors \ {u} : editor'[e] = editor[e]
  BY EditorMoves
<1>2. Transactions'
  BY <1>1 DEF PageInv, Transactions
<1> QED BY <1>1, <1>2 DEF PageInv, RowsOfSave

LEMMA LockTaken ==
  ASSUME PageInv, NEW u \in Editors, UpdatePage(u)
  PROVE  PageInv'
<1> DEFINE f == [editor[u] EXCEPT !.stage = "delete"]
<1>1. f \in Form /\ f.stage = "delete"
  BY FormStage DEF PageInv, Stage
<1>2. editor' = [editor EXCEPT ![u] = f]
  BY <1>1 DEF UpdatePage
<1>3. /\ editor' \in [Editors -> Form] /\ editor'[u] = f
      /\ \A e \in Editors \ {u} : editor'[e] = editor[e]
  BY <1>1, <1>2, EditorMoves
<1>4. \A e \in Editors : editor[e].stage \notin {"delete", "insert"}
  BY SharingAssumption DEF UpdatePage, PageLock, PageInv, Transactions
<1>5. Transactions'
  BY <1>1, <1>3, <1>4 DEF Transactions, UpdatePage, PageLock
<1> QED BY <1>3, <1>5 DEF UpdatePage, PageInv, RowsOfSave

LEMMA MembersRead ==
  ASSUME PageInv, NEW u \in Editors, DeleteMembers(u)
  PROVE  PageInv'
<1> DEFINE f == [editor[u] EXCEPT !.stage = "insert", !.seen = pageMembers]
<1>1. f \in Form /\ f.stage = "insert" /\ f.seen = pageMembers
  BY FormSees DEF PageInv
<1>2. editor' = [editor EXCEPT ![u] = f]
  BY DEF DeleteMembers
<1>3. /\ editor' \in [Editors -> Form] /\ editor'[u] = f
      /\ \A e \in Editors \ {u} : editor'[e] = editor[e]
  BY <1>1, <1>2, EditorMoves
<1>4. Transactions'
  BY <1>1, <1>3 DEF Transactions, DeleteMembers, PageInv
<1> QED BY <1>3, <1>4 DEF DeleteMembers, PageInv, RowsOfSave

(* All of the rows there were go with a save, as no other one came between *)
(* the delete and the insert.                                              *)
LEMMA PageReplaced ==
  ASSUME PageInv, NEW u \in Editors, InsertMembers(u)
  PROVE  PageInv'
<1> DEFINE rest == pageMembers \ editor[u].seen
           list == editor[u].list
           possible == exists /\ list \subseteq present /\ list \cap MonitorsOf(rest) = {}
           f == IF possible THEN Closed ELSE [editor[u] EXCEPT !.stage = "form"]
<1>0. editor[u] \in Form /\ list \in SUBSET Shown
  BY DEF PageInv, Form
<1>1. f \in Form /\ f.stage \in {"closed", "form"}
  <2>1. Closed \in Form /\ Closed.stage = "closed"
    BY DEF Closed, Form, Stage
  <2>2. /\ [editor[u] EXCEPT !.stage = "form"] \in Form
        /\ [editor[u] EXCEPT !.stage = "form"].stage = "form"
    BY <1>0, FormStage DEF Stage
  <2> QED BY <2>1, <2>2
<1>2. editor' = [editor EXCEPT ![u] = f]
  BY DEF InsertMembers
<1>3. /\ editor' \in [Editors -> Form] /\ editor'[u] = f
      /\ \A e \in Editors \ {u} : editor'[e] = editor[e]
  <2> HIDE DEF f
  <2> QED BY <1>1, <1>2, EditorMoves
<1>4. \A e \in Editors \ {u} : editor[e].stage \notin {"delete", "insert"}
  BY DEF InsertMembers, PageInv, Transactions
<1>5. Transactions'
  <2> HIDE DEF f
  <2> QED BY <1>1, <1>3, <1>4 DEF Transactions
<1>6. rest = {}
  BY DEF InsertMembers, PageInv, Transactions
<1>7. CASE possible
  <2>1. /\ saved' = [list |-> list, number |-> saved.number + 1]
        /\ pageMembers' = Rows(list, saved.number + 1) /\ exists' /\ present' = present
    BY <1>6, <1>7 DEF InsertMembers
  <2>2. saved' \in [list : SUBSET Shown, number : Nat]
        /\ saved'.list = list /\ saved'.number = saved.number + 1
    BY <1>0, <2>1 DEF PageInv
  <2>3. list \cap present = list
    BY <1>7
  <2>4. RowsOfSave'
    BY <2>1, <2>2, <2>3 DEF RowsOfSave
  <2>5. pageMembers' \in SUBSET PageRow
    BY <1>0, <2>1 DEF PageInv, Rows, PageRow
  <2> QED BY <1>3, <1>5, <2>1, <2>2, <2>4, <2>5 DEF InsertMembers, PageInv
<1>8. CASE ~possible
  BY <1>3, <1>5, <1>8 DEF InsertMembers, PageInv, RowsOfSave
<1> QED BY <1>7, <1>8

LEMMA PageKeeps ==
  ASSUME PageInv, PageNext
  PROVE  PageInv'
<1>1. ASSUME NEW u \in Editors, LoadPages(u) PROVE PageInv'
  <2>1. MonitorsOf(pageMembers) \in SUBSET Shown
    BY DEF PageInv, MonitorsOf, PageRow
  <2> QED BY <1>1, <2>1 DEF LoadPages, PageInv, Transactions, RowsOfSave
<1>2. ASSUME NEW u \in Editors, OpenEditor(u) PROVE PageInv'
  <2> DEFINE f == [editor[u] EXCEPT !.stage = "form", !.list = listed[u]]
  <2>1. f \in Form /\ f.stage = "form"
    BY FormOpens DEF PageInv
  <2>2. editor' = [editor EXCEPT ![u] = f]
    BY <1>2 DEF OpenEditor
  <2>3. editor[u].stage = "closed"
    BY <1>2 DEF OpenEditor, Closed
  <2> HIDE DEF f
  <2> QED BY <1>2, <2>1, <2>2, <2>3, EditorStep DEF OpenEditor, PageInv
<1>3. ASSUME NEW u \in Editors, SavePage(u) PROVE PageInv'
  <2> DEFINE f == [editor[u] EXCEPT !.stage = "update"]
  <2>1. f \in Form /\ f.stage = "update"
    BY FormStage DEF PageInv, Stage
  <2>2. editor' = [editor EXCEPT ![u] = f] /\ editor[u].stage = "form"
    BY <1>3 DEF SavePage
  <2> HIDE DEF f
  <2> QED BY <1>3, <2>1, <2>2, EditorStep DEF SavePage, PageInv
<1>4. ASSUME NEW u \in Editors, NEW m \in Shown, EditMonitors(u, m) PROVE PageInv'
  <2> DEFINE list == IF m \in editor[u].list THEN editor[u].list \ {m} ELSE editor[u].list \cup {m}
             f == [editor[u] EXCEPT !.list = list]
  <2>1. editor[u] \in Form /\ list \in SUBSET Shown
    BY DEF PageInv, Form
  <2>2. f \in Form /\ f.stage = editor[u].stage
    <3> HIDE DEF list
    <3> QED BY <2>1, FormList
  <2>3. editor' = [editor EXCEPT ![u] = f] /\ editor[u].stage = "form"
    BY <1>4 DEF EditMonitors
  <2> HIDE DEF f
  <2> QED BY <1>4, <2>2, <2>3, EditorStep DEF EditMonitors, PageInv
<1>5. ASSUME NEW u \in Editors, CancelEdit(u) PROVE PageInv'
  <2>1. Closed \in Form /\ Closed.stage = "closed"
    BY DEF Closed, Form, Stage
  <2>2. editor' = [editor EXCEPT ![u] = Closed] /\ editor[u].stage = "form"
    BY <1>5 DEF CancelEdit
  <2> QED BY <1>5, <2>1, <2>2, EditorStep DEF CancelEdit, PageInv
<1>6. ASSUME NEW u \in Editors, UpdatePage(u) \/ DeleteMembers(u) \/ InsertMembers(u) PROVE PageInv'
  BY <1>6, LockTaken, MembersRead, PageReplaced
<1>7. ASSUME (\E on \in BOOLEAN : PublishPage(on)) \/ (\E t \in Links : RotateLink(t) \/ Visit(t)) PROVE PageInv'
  <2>1. UNCHANGED <<pageMembers, exists, saved, present, lockedBy, listed, editor>>
    BY <1>7 DEF PublishPage, RotateLink, Visit
  <2> QED BY <2>1 DEF PageInv, Transactions, RowsOfSave
<1>8. CASE RemovePage
  BY <1>8 DEF RemovePage, PageInv, Transactions, RowsOfSave
<1>9. ASSUME NEW m \in Shown, RemoveMonitor(m) PROVE PageInv'
  <2>1. RowsOfSave'
    <3>1. CASE exists
      <4>1. pageMembers' = {entry \in Rows(saved.list \cap present, saved.number) : entry.monitor # m}
        BY <1>9, <3>1 DEF RemoveMonitor, PageInv, RowsOfSave
      <4>2. pageMembers' = Rows(saved.list \cap (present \ {m}), saved.number)
        BY <4>1 DEF Rows
      <4> QED BY <1>9, <3>1, <4>2 DEF RemoveMonitor, RowsOfSave
    <3>2. CASE ~exists
      BY <1>9, <3>2 DEF RemoveMonitor, PageInv, RowsOfSave
    <3> QED BY <3>1, <3>2
  <2>2. Transactions'
    BY <1>9 DEF RemoveMonitor, PageInv, Transactions
  <2> QED BY <1>9, <2>1, <2>2 DEF RemoveMonitor, PageInv
<1> QED BY <1>1, <1>2, <1>3, <1>4, <1>5, <1>6, <1>7, <1>8, <1>9 DEF PageNext

LEMMA EvidenceLeavesPage == EvidenceNext \/ UNCHANGED sharingVars => UNCHANGED pageVars
BY DEF EvidenceNext, Record, Analyse, RetentionRemoves, EndLink, SelectReport, OpenLink, Export,
   ReadEvent, SendEvidence, ReadRows, FilterReports, AskShare, Share, sharingVars, evidenceVars, pageVars

(* The public page is one member's choice, as a whole, or refused.         *)
THEOREM PageAsSavedHolds == SharingSpec => []PageAsSaved
<1>1. SharingInit => PageInv
  BY DEF SharingInit, PageInv, Transactions, RowsOfSave, Rows, PageRow, Form, Stage, Closed, MonitorsOf
<1>2. PageInv /\ [EvidenceNext \/ PageNext]_sharingVars => PageInv'
  <2>1. ASSUME PageInv, UNCHANGED pageVars PROVE PageInv'
    BY <2>1 DEF PageInv, Transactions, RowsOfSave, pageVars
  <2> QED BY <2>1, PageKeeps, EvidenceLeavesPage
<1>3. ASSUME PageInv PROVE PageAsSaved
  <2>1. CASE exists
    BY <1>3, <2>1, MembersOfRows DEF PageInv, RowsOfSave, PageAsSaved, Published
  <2>2. CASE ~exists
    <3>1. pageMembers = {}
      BY <1>3, <2>2 DEF PageInv, RowsOfSave
    <3>2. MonitorsOf(pageMembers) = Refused
      BY <3>1 DEF MonitorsOf, Refused
    <3> QED BY <3>2 DEF PageAsSaved, Published
  <2> QED BY <2>1, <2>2
<1> QED BY <1>1, <1>2, <1>3, PTL DEF SharingSpec
-----------------------------------------------------------------------------
(* Evidence.                                                               *)

Rest == [attempts : Int, deliveries : Int]
Reading == [stage : {"idle", "event", "rows"}, event : Recorded \cup {NoEvent}, basis : Rest,
            attempts : Int, deliveries : Int]
Kinds == {"attempts", "deliveries"}

(* A report rests on what is on record; so does what a reader has read of  *)
(* it, and the rows it reads afterwards are no fewer.                      *)
Covered(basis, counts) == \A kind \in Kinds : basis[kind] <= counts[kind]
Faithful(x) ==
  /\ x.stage # "idle" => x.event \in Recorded
  /\ x.stage # "rows" => \A kind \in Kinds : x[kind] = NotRead
  /\ x.stage = "rows" /\ x.event \in kept =>
       /\ Covered(x.basis, history[x.event])
       /\ \A kind \in Kinds : x[kind] # NotRead => x.basis[kind] <= x[kind]
EvidenceInv ==
  /\ history \in [Recorded -> [attempts : Nat, deliveries : Nat]]
  /\ report \in [Recorded -> [basis : Rest, link : Links \cup {NoLink}]]
  /\ reading \in [Readers -> Reading] /\ kept \subseteq Recorded
  /\ \A e \in Recorded : Covered(report[e].basis, history[e])
  /\ \A r \in Readers : Faithful(reading[r])

LEMMA CountsAre ==
  ASSUME NEW h \in [attempts : Nat, deliveries : Nat], NEW kind \in Kinds
  PROVE  /\ h[kind] \in Nat /\ [h EXCEPT ![kind] = @ + 1] \in [attempts : Nat, deliveries : Nat]
         /\ \A k \in Kinds : h[k] \in Nat /\ h[k] <= [h EXCEPT ![kind] = @ + 1][k]
BY DEF Kinds

LEMMA ReadingBegins ==
  ASSUME NEW x \in Reading, NEW e \in Recorded
  PROVE  /\ [x EXCEPT !.stage = "event", !.event = e] \in Reading
         /\ [x EXCEPT !.stage = "event", !.event = e].stage = "event"
         /\ [x EXCEPT !.stage = "event", !.event = e].event = e
         /\ [x EXCEPT !.stage = "event", !.event = e].attempts = x.attempts
         /\ [x EXCEPT !.stage = "event", !.event = e].deliveries = x.deliveries
BY DEF Reading

LEMMA EventIsRead ==
  ASSUME NEW x \in Reading, NEW b \in Rest
  PROVE  /\ [x EXCEPT !.stage = "rows", !.basis = b] \in Reading
         /\ [x EXCEPT !.stage = "rows", !.basis = b].stage = "rows"
         /\ [x EXCEPT !.stage = "rows", !.basis = b].event = x.event
         /\ [x EXCEPT !.stage = "rows", !.basis = b].basis = b
         /\ [x EXCEPT !.stage = "rows", !.basis = b].attempts = x.attempts
         /\ [x EXCEPT !.stage = "rows", !.basis = b].deliveries = x.deliveries
BY DEF Reading

LEMMA RowsAreRead ==
  ASSUME NEW x \in Reading, NEW kind \in Kinds, NEW n \in Int
  PROVE  /\ [x EXCEPT ![kind] = n] \in Reading /\ [x EXCEPT ![kind] = n][kind] = n
         /\ [x EXCEPT ![kind] = n].stage = x.stage /\ [x EXCEPT ![kind] = n].event = x.event
         /\ [x EXCEPT ![kind] = n].basis = x.basis
         /\ \A k \in Kinds \ {kind} : [x EXCEPT ![kind] = n][k] = x[k]
BY DEF Reading, Kinds

LEMMA ReaderStep ==
  ASSUME EvidenceInv, NEW r \in Readers, NEW x \in Reading, Faithful(x),
         reading' = [reading EXCEPT ![r] = x], UNCHANGED <<history, report, kept>>
  PROVE  EvidenceInv'
<1>1. /\ reading' \in [Readers -> Reading] /\ reading'[r] = x
      /\ \A q \in Readers \ {r} : reading'[q] = reading[q]
  BY DEF EvidenceInv
<1>2. \A q \in Readers : Faithful(reading'[q])
  BY <1>1 DEF EvidenceInv, Faithful
<1> QED BY <1>1, <1>2 DEF EvidenceInv, Faithful

(* A step on one event that adds to its history or makes its report anew.  *)
LEMMA EventStep ==
  ASSUME EvidenceInv, NEW e \in Recorded,
         history' \in [Recorded -> [attempts : Nat, deliveries : Nat]],
         report' \in [Recorded -> [basis : Rest, link : Links \cup {NoLink}]],
         \A k \in Kinds : history[e][k] <= history'[e][k],
         Covered(report'[e].basis, history'[e]),
         \A d \in Recorded \ {e} : history'[d] = history[d] /\ report'[d] = report[d],
         UNCHANGED reading, kept' \subseteq kept
  PROVE  EvidenceInv'
<1>1. \A d \in Recorded : Covered(report'[d].basis, history'[d])
  BY DEF EvidenceInv
<1>2. ASSUME NEW r \in Readers, reading[r].stage = "rows", reading[r].event \in kept'
      PROVE  Covered(reading[r].basis, history'[reading[r].event])
  <2>1. reading[r].event \in Recorded /\ reading[r].basis \in Rest
        /\ Covered(reading[r].basis, history[reading[r].event])
    BY <1>2 DEF EvidenceInv, Faithful, Reading
  <2>2. CASE reading[r].event = e
    <3>1. \A k \in Kinds : /\ reading[r].basis[k] \in Int /\ history[e][k] \in Int
                           /\ history'[e][k] \in Int
      BY <2>1 DEF Rest, Kinds, EvidenceInv
    <3> QED BY <2>1, <2>2, <3>1 DEF Covered
  <2> QED BY <2>1, <2>2
<1>3. \A r \in Readers : Faithful(reading[r])'
  BY <1>2 DEF EvidenceInv, Faithful
<1> QED BY <1>1, <1>3 DEF EvidenceInv, Covered

LEMMA EvidenceKeeps ==
  ASSUME EvidenceInv, EvidenceNext
  PROVE  EvidenceInv'
<1>1. ASSUME NEW e \in Recorded, NEW kind \in Kinds, Record(e, kind) PROVE EvidenceInv'
  <2> DEFINE more == [history[e] EXCEPT ![kind] = @ + 1]
  <2>1. /\ more \in [attempts : Nat, deliveries : Nat]
        /\ \A k \in Kinds : history[e][k] \in Nat /\ history[e][k] <= more[k]
    BY CountsAre DEF EvidenceInv
  <2>2. history' = [history EXCEPT ![e] = more]
    BY <1>1 DEF Record
  <2> HIDE DEF more
  <2>3. /\ history' \in [Recorded -> [attempts : Nat, deliveries : Nat]] /\ history'[e] = more
        /\ \A d \in Recorded \ {e} : history'[d] = history[d]
    BY <2>1, <2>2 DEF EvidenceInv
  <2>4. \A k \in Kinds : report[e].basis[k] \in Int /\ more[k] \in Int
    BY <2>1 DEF EvidenceInv, Rest, Kinds
  <2>5. Covered(report[e].basis, more)
    BY <2>1, <2>4 DEF EvidenceInv, Covered
  <2> QED BY <1>1, <2>1, <2>3, <2>5, EventStep DEF Record, EvidenceInv
<1>2. ASSUME NEW e \in Recorded, NEW a \in Nat, NEW d \in Nat, Analyse(e, a, d) PROVE EvidenceInv'
  <2> DEFINE new == [report[e] EXCEPT !.basis = [attempts |-> a, deliveries |-> d]]
  <2>1. new \in [basis : Rest, link : Links \cup {NoLink}]
        /\ new.basis = [attempts |-> a, deliveries |-> d]
    <3>1. [attempts |-> a, deliveries |-> d] \in Rest
      BY DEF Rest
    <3>2. ASSUME NEW x \in [basis : Rest, link : Links \cup {NoLink}], NEW b \in Rest
          PROVE  [x EXCEPT !.basis = b] \in [basis : Rest, link : Links \cup {NoLink}]
                 /\ [x EXCEPT !.basis = b].basis = b
      OBVIOUS
    <3> QED BY <3>1, <3>2 DEF EvidenceInv
  <2>2. report' = [report EXCEPT ![e] = new]
    BY <1>2 DEF Analyse
  <2>3. Covered(new.basis, history[e])
    BY <1>2, <2>1 DEF Analyse, Covered, Kinds, EvidenceInv
  <2> HIDE DEF new
  <2>4. /\ report' \in [Recorded -> [basis : Rest, link : Links \cup {NoLink}]] /\ report'[e] = new
        /\ \A c \in Recorded \ {e} : report'[c] = report[c]
    BY <2>1, <2>2 DEF EvidenceInv
  <2>5. \A k \in Kinds : history[e][k] <= history[e][k]
    BY DEF EvidenceInv, Kinds
  <2> QED BY <1>2, <2>3, <2>4, <2>5, EventStep DEF Analyse, EvidenceInv
<1>3. ASSUME NEW e \in Recorded, RetentionRemoves(e) PROVE EvidenceInv'
  <2> DEFINE new == [basis |-> NoReport, link |-> NoLink]
  <2>1. new \in [basis : Rest, link : Links \cup {NoLink}] /\ Covered(new.basis, history[e])
    BY DEF NoReport, NotRead, Rest, Covered, Kinds, EvidenceInv
  <2>2. report' = [report EXCEPT ![e] = new]
    BY <1>3 DEF RetentionRemoves
  <2> HIDE DEF new
  <2>4. /\ report' \in [Recorded -> [basis : Rest, link : Links \cup {NoLink}]] /\ report'[e] = new
        /\ \A c \in Recorded \ {e} : report'[c] = report[c]
    BY <2>1, <2>2 DEF EvidenceInv
  <2>5. \A k \in Kinds : history[e][k] <= history[e][k]
    BY DEF EvidenceInv, Kinds
  <2> QED BY <1>3, <2>1, <2>4, <2>5, EventStep DEF RetentionRemoves, EvidenceInv
<1>4. ASSUME NEW e \in Recorded, NEW t \in Links \cup {NoLink},
             report' = [report EXCEPT ![e].link = t], UNCHANGED <<history, kept, reading>>
      PROVE  EvidenceInv'
  <2> DEFINE new == [report[e] EXCEPT !.link = t]
  <2>1. new \in [basis : Rest, link : Links \cup {NoLink}] /\ new.basis = report[e].basis
    <3>1. ASSUME NEW x \in [basis : Rest, link : Links \cup {NoLink}]
          PROVE  [x EXCEPT !.link = t] \in [basis : Rest, link : Links \cup {NoLink}]
                 /\ [x EXCEPT !.link = t].basis = x.basis
      OBVIOUS
    <3> QED BY <3>1 DEF EvidenceInv
  <2>2. report' = [report EXCEPT ![e] = new]
    BY <1>4
  <2> HIDE DEF new
  <2>4. /\ report' \in [Recorded -> [basis : Rest, link : Links \cup {NoLink}]] /\ report'[e] = new
        /\ \A c \in Recorded \ {e} : report'[c] = report[c]
    BY <2>1, <2>2 DEF EvidenceInv
  <2>5. \A k \in Kinds : history[e][k] <= history[e][k]
    BY DEF EvidenceInv, Kinds
  <2>6. Covered(report'[e].basis, history'[e])
    BY <1>4, <2>1, <2>4 DEF EvidenceInv
  <2> QED BY <1>4, <2>4, <2>5, <2>6, EventStep DEF EvidenceInv
<1>5. ASSUME NEW r \in Readers, NEW e \in Recorded, UNCHANGED <<history, report, kept>>,
             reading[r] = NotReading,
             reading' = [reading EXCEPT ![r].stage = "event", ![r].event = e]
      PROVE  EvidenceInv'
  <2> DEFINE x == [reading[r] EXCEPT !.stage = "event", !.event = e]
  <2>0. reading[r] \in Reading /\ \A k \in Kinds : reading[r][k] = NotRead
    BY <1>5 DEF EvidenceInv, NotReading, Kinds
  <2>1. /\ x \in Reading /\ x.stage = "event" /\ x.event = e
        /\ x.attempts = reading[r].attempts /\ x.deliveries = reading[r].deliveries
    BY <2>0, ReadingBegins
  <2>2. reading' = [reading EXCEPT ![r] = x]
    BY <1>5
  <2>3. Faithful(x)
    <3> HIDE DEF x
    <3> QED BY <2>0, <2>1 DEF Faithful, Kinds
  <2> HIDE DEF x
  <2> QED BY <1>5, <2>1, <2>2, <2>3, ReaderStep
<1>6. ASSUME NEW r \in Readers, ReadEvent(r) PROVE EvidenceInv'
  <2> DEFINE e == reading[r].event
             x == [reading[r] EXCEPT !.stage = "rows", !.basis = report[e].basis]
  <2>0. reading[r] \in Reading /\ e \in Recorded /\ report[e].basis \in Rest
        /\ \A k \in Kinds : reading[r][k] = NotRead
    BY <1>6 DEF ReadEvent, EvidenceInv, Faithful
  <2>1. CASE e \in kept
    <3>1. reading' = [reading EXCEPT ![r] = x]
      BY <1>6, <2>1 DEF ReadEvent
    <3>2. /\ x \in Reading /\ x.stage = "rows" /\ x.event = e /\ x.basis = report[e].basis
          /\ x.attempts = reading[r].attempts /\ x.deliveries = reading[r].deliveries
      BY <2>0, EventIsRead
    <3>3. Faithful(x)
      <4> HIDE DEF x
      <4> QED BY <2>0, <3>2 DEF Faithful, EvidenceInv, Kinds
    <3> HIDE DEF x
    <3> QED BY <1>6, <3>1, <3>2, <3>3, ReaderStep DEF ReadEvent
  <2>2. CASE e \notin kept
    <3>1. reading' = [reading EXCEPT ![r] = NotReading]
      BY <1>6, <2>2 DEF ReadEvent
    <3>2. NotReading \in Reading /\ Faithful(NotReading)
      BY DEF NotReading, Reading, Faithful, NoReport, Rest, NotRead, Kinds
    <3> QED BY <1>6, <3>1, <3>2, ReaderStep DEF ReadEvent
  <2> QED BY <2>1, <2>2
<1>7. ASSUME NEW r \in Readers, NEW kind \in Kinds, ReadRows(r, kind) PROVE EvidenceInv'
  <2> DEFINE e == reading[r].event
             n == IF e \in kept THEN history[e][kind] ELSE 0
             x == [reading[r] EXCEPT ![kind] = n]
  <2>0. reading[r] \in Reading /\ e \in Recorded /\ n \in Int /\ reading[r].stage = "rows"
    BY <1>7 DEF ReadRows, MayReadRows, EvidenceInv, Faithful, Kinds
  <2>1. reading' = [reading EXCEPT ![r] = x]
    BY <1>7 DEF ReadRows
  <2>2. /\ x \in Reading /\ x[kind] = n /\ x.stage = "rows" /\ x.event = e
        /\ x.basis = reading[r].basis /\ \A k \in Kinds \ {kind} : x[k] = reading[r][k]
    <3> HIDE DEF n
    <3> QED BY <2>0, RowsAreRead
  <2>3. Faithful(x)
    <3> HIDE DEF x
    <3>1. ASSUME e \in kept
          PROVE  /\ Covered(x.basis, history[e])
                 /\ \A k \in Kinds : x[k] # NotRead => x.basis[k] <= x[k]
      BY <2>0, <2>2, <3>1 DEF EvidenceInv, Faithful, Covered
    <3> QED BY <2>0, <2>2, <3>1 DEF Faithful
  <2> HIDE DEF x
  <2> QED BY <1>7, <2>1, <2>2, <2>3, ReaderStep DEF ReadRows
<1>8. ASSUME NEW r \in Readers, SendEvidence(r) PROVE EvidenceInv'
  <2>1. NotReading \in Reading /\ Faithful(NotReading)
    BY DEF NotReading, Reading, Faithful, NoReport, Rest, NotRead, Kinds
  <2> QED BY <1>8, <2>1, ReaderStep DEF SendEvidence
<1>9. ASSUME UNCHANGED <<history, report, kept, reading>> PROVE EvidenceInv'
  BY <1>9 DEF EvidenceInv, Faithful
<1>10. ASSUME NEW t \in Links, Share(t) PROVE EvidenceInv'
  <2>1. CASE UNCHANGED report
    BY <1>9, <1>10, <2>1 DEF Share
  <2>2. CASE share.asking \in kept
    BY <1>4, <1>10, <2>2 DEF Share, EvidenceInv
  <2> QED BY <1>10, <2>1, <2>2 DEF Share
<1>11. ASSUME NEW e \in Recorded, SelectReport(e) \/ EndLink(e) PROVE EvidenceInv'
  BY <1>4, <1>9, <1>11 DEF SelectReport, EndLink
<1>12. ASSUME NEW r \in Readers, NEW e \in Recorded, Export(r, e) PROVE EvidenceInv'
  BY <1>5, <1>12 DEF Export
<1>13. ASSUME NEW r \in Readers, NEW t \in Links, OpenLink(r, t) PROVE EvidenceInv'
  BY <1>5, <1>13 DEF OpenLink, EvidenceInv
<1>14. ASSUME AskShare \/ \E visible \in SUBSET Recorded : FilterReports(visible) PROVE EvidenceInv'
  BY <1>9, <1>14 DEF AskShare, FilterReports
<1> QED BY <1>1, <1>2, <1>3, <1>6, <1>7, <1>8, <1>10, <1>11, <1>12, <1>13, <1>14, SharingAssumption
        DEF EvidenceNext, Kinds

LEMMA PageLeavesEvidence == PageNext \/ UNCHANGED sharingVars => UNCHANGED evidenceVars
BY DEF PageNext, LoadPages, OpenEditor, SavePage, UpdatePage, DeleteMembers, InsertMembers,
   CancelEdit, EditMonitors, PublishPage, RotateLink, Visit, RemovePage, RemoveMonitor,
       sharingVars, evidenceVars

(* Evidence has every attempt and delivery that its report rests on,       *)
(* however many of each were recorded while it was read.                   *)
THEOREM EvidenceCoversHolds == SharingSpec => []EvidenceCovers
<1>1. SharingInit => EvidenceInv
  BY DEF SharingInit, EvidenceInv, Faithful, Covered, Kinds, NotReading, Reading, NoReport,
     NotRead, Rest
<1>2. EvidenceInv /\ [EvidenceNext \/ PageNext]_sharingVars => EvidenceInv'
  <2>1. ASSUME EvidenceInv, UNCHANGED evidenceVars PROVE EvidenceInv'
    BY <2>1 DEF EvidenceInv, Faithful, evidenceVars
  <2> QED BY <2>1, EvidenceKeeps, PageLeavesEvidence
<1>3. EvidenceInv => EvidenceCovers
  BY DEF EvidenceInv, Faithful, EvidenceCovers, Complete, Covered, Kinds
<1> QED BY <1>1, <1>2, <1>3, PTL DEF SharingSpec

-----------------------------------------------------------------------------
(* The lists of the audit history and the status page.                      *)

RowIds == Nat \cup Inbound
RowsListed(list) == IF list = "audit" THEN entries ELSE sightings

HistoryRows ==
  /\ made \in Nat /\ moment \in Nat
  /\ \A r \in replied : r.id \in Nat /\ r.id < made
  /\ \A r, s \in replied : r.id = s.id => r = s
  /\ \A e \in entries : e.id \in Nat /\ e.id < made /\ e.at \in Nat
  /\ \A e, f \in entries : e.id = f.id => e = f
  /\ \A e \in entries, r \in replied : e.id # r.id
  /\ \A s \in sightings : s.id \in Inbound /\ s.at \in Nat /\ s.at <= moment
  /\ \A s, t \in sightings : s.id = t.id => s = t
  /\ \A e \in entries : e.at <= moment

PagedRows ==
  paging # NoPaging =>
    /\ DOMAIN paging = {"list", "got", "cursor", "more", "since"}
    /\ paging.list \in {"audit", "evidence"}
    /\ paging.got \in Seq(RowIds) /\ paging.cursor \in Nat
    /\ paging.got # <<>> => Fine * paging.cursor <= moment
    /\ IsInjective(paging.got)
    /\ \A i \in DOMAIN paging.got :
         /\ \A item \in RowsListed(paging.list) :
              item.id = paging.got[i] => item.at >= Fine * paging.cursor
         /\ paging.list = "audit" =>
              paging.got[i] \in 0..(made - 1) /\ \A r \in replied : r.id # paging.got[i]

HistoryInv == HistoryRows /\ PagedRows

LEMMA FineInt == \A n \in Nat : Fine * n \in Nat
BY HistoryAssumption

LEMMA ShownNotLater ==
  ASSUME NEW at \in Nat
  PROVE  ShownTime(at) \in Nat /\ Fine * ShownTime(at) <= at
BY HistoryAssumption, Z3 DEF ShownTime

LEMMA JoinedInjective ==
  ASSUME NEW S, NEW s \in Seq(S), NEW t \in Seq(S), IsInjective(s), IsInjective(t),
         \A i \in DOMAIN s, j \in DOMAIN t : s[i] # t[j]
  PROVE  IsInjective(s \o t)
<1>1. SUFFICES ASSUME NEW i \in DOMAIN (s \o t), NEW j \in DOMAIN (s \o t),
                      (s \o t)[i] = (s \o t)[j]
               PROVE  i = j
  BY DEF IsInjective
<1>2. \A n \in DOMAIN (s \o t) :
        \/ n \in DOMAIN s /\ (s \o t)[n] = s[n]
        \/ n \in Nat /\ n - Len(s) \in DOMAIN t /\ (s \o t)[n] = t[n - Len(s)]
  OBVIOUS
<1> QED BY <1>1, <1>2 DEF IsInjective

LEMMA PageOfRows ==
  ASSUME NEW rows, NEW found \in Pages(rows)
  PROVE  /\ found \in Seq(rows)
         /\ \A i \in DOMAIN found : found[i] \in rows
         /\ \A i, j \in DOMAIN found : i < j => found[i].at >= found[j].at /\ found[i] # found[j]
<1>1. found \in SeqOf(rows, Limit) /\ IsPage(found, rows)
  BY DEF Pages
<1>2. PICK m \in 0..Limit : found \in [1..m -> rows]
  BY <1>1 DEF SeqOf
<1>3. m \in Nat
  BY <1>2, HistoryAssumption
<1>4. found \in Seq(rows)
  BY <1>2, <1>3
<1>5. \A i \in DOMAIN found : found[i] \in rows
  BY <1>2
<1>6. \A i, j \in DOMAIN found : i < j => found[i].at >= found[j].at /\ found[i] # found[j]
  BY <1>1, Zenon DEF IsPage
<1> QED BY <1>4, <1>5, <1>6

LEMMA RowsFacts ==
  ASSUME HistoryRows, NEW list \in {"audit", "evidence"}
  PROVE  /\ ListRows(list) \subseteq RowsListed(list)
         /\ \A item \in RowsListed(list) : item.id \in RowIds /\ item.at \in Nat /\ item.at <= moment
         /\ \A item, other \in RowsListed(list) : item.id = other.id => item = other
         /\ list = "audit" => \A item \in RowsListed(list) :
               item.id \in 0..(made - 1) /\ \A r \in replied : r.id # item.id
BY DEF HistoryRows, RowsListed, ListRows, AuditRows, RowIds

(* A page is of rows below the time of the page before, which no row that  *)
(* was read is.                                                            *)
LEMMA NextPage ==
  ASSUME HistoryInv, ReadPage
  PROVE  PagedRows'
<1> DEFINE p == paging
           bound == Fine * paging.cursor
<1>1. /\ DOMAIN p = {"list", "got", "cursor", "more", "since"}
      /\ p.list \in {"audit", "evidence"}
      /\ p.got \in Seq(RowIds) /\ p.cursor \in Nat
      /\ p.got # <<>> => bound <= moment
      /\ IsInjective(p.got)
      /\ \A i \in DOMAIN p.got :
           /\ \A item \in RowsListed(p.list) : item.id = p.got[i] => item.at >= bound
           /\ p.list = "audit" => p.got[i] \in 0..(made - 1) /\ \A r \in replied : r.id # p.got[i]
  BY DEF ReadPage, HistoryInv, PagedRows
<1>2. PICK found \in Pages({r \in ListRows(p.list) : OlderRow(r, p.cursor)}) :
        p' = [p EXCEPT
          !.got = @ \o [i \in DOMAIN found |-> found[i].id],
          !.cursor = IF found = <<>> THEN @ ELSE ShownTime(Last(found).at),
          !.more = Len(found) = Limit]
  BY DEF ReadPage
<1> DEFINE ids == [i \in DOMAIN found |-> found[i].id]
<1>3. UNCHANGED <<replied, entries, sightings, moment, made>> /\ HistoryRows
  BY DEF ReadPage, HistoryInv
<1>4. bound \in Nat
  BY <1>1, FineInt
<1> HIDE DEF bound
<1>5. /\ \A item \in RowsListed(p.list) : item.id \in RowIds /\ item.at \in Nat /\ item.at <= moment
      /\ \A item, other \in RowsListed(p.list) : item.id = other.id => item = other
      /\ p.list = "audit" => \A item \in RowsListed(p.list) :
            item.id \in 0..(made - 1) /\ \A r \in replied : r.id # item.id
  BY <1>1, <1>3, RowsFacts
<1>6. /\ found \in Seq({r \in ListRows(p.list) : OlderRow(r, p.cursor)})
      /\ \A i \in DOMAIN found : found[i] \in RowsListed(p.list) /\ found[i].at < bound
      /\ \A i, j \in DOMAIN found : i < j => found[i].at >= found[j].at /\ found[i] # found[j]
  BY <1>1, <1>2, <1>3, PageOfRows, RowsFacts DEF OlderRow, bound
<1> HIDE DEF p
<1>7. /\ DOMAIN p' = DOMAIN p /\ p'.list = p.list
      /\ p'.got = p.got \o ids
      /\ p'.cursor = IF found = <<>> THEN p.cursor ELSE ShownTime(Last(found).at)
  BY <1>1, <1>2
<1>8. ids \in Seq(RowIds) /\ DOMAIN ids = DOMAIN found /\ Len(ids) = Len(found)
  BY <1>5, <1>6
<1>9. IsInjective(ids)
  <2>1. \A i, j \in DOMAIN found : i < j => found[i].id # found[j].id
    BY <1>5, <1>6
  <2>2. \A i \in DOMAIN found : i \in Int
    BY <1>6
  <2> QED BY <2>1, <2>2 DEF IsInjective
<1>10. \A i \in DOMAIN p.got, j \in DOMAIN ids : p.got[i] # ids[j]
  BY <1>1, <1>4, <1>5, <1>6
<1>11. \A n \in DOMAIN p'.got :
         \/ n \in DOMAIN p.got /\ p'.got[n] = p.got[n]
         \/ \E j \in DOMAIN found : p'.got[n] = found[j].id
  <2> HIDE DEF ids
  <2>1. \A n \in DOMAIN (p.got \o ids) :
         \/ n \in DOMAIN p.got /\ (p.got \o ids)[n] = p.got[n]
         \/ \E j \in DOMAIN ids : (p.got \o ids)[n] = ids[j]
    BY <1>1, <1>8
  <2> QED BY <2>1, <1>7, <1>8 DEF ids
<1>12. IsInjective(p'.got) /\ p'.got \in Seq(RowIds)
  <2> HIDE DEF ids
  <2>1. p.got \in Seq(RowIds) /\ IsInjective(p.got)
    BY <1>1
  <2>2. IsInjective(p.got \o ids)
    BY <2>1, <1>8, <1>9, <1>10, JoinedInjective
  <2>3. p.got \o ids \in Seq(RowIds)
    BY <2>1, <1>8
  <2> QED BY <2>2, <2>3, <1>7
<1>13. /\ p'.cursor \in Nat /\ Fine * p'.cursor <= bound
       /\ \A i \in DOMAIN found : found[i].at >= Fine * p'.cursor
       /\ p'.got # <<>> => Fine * p'.cursor <= moment
  <2>1. CASE found = <<>>
    <3>1. p'.cursor = p.cursor /\ Fine * p'.cursor = bound
      BY <1>7, <2>1 DEF bound, p
    <3>2. DOMAIN found = {} /\ p'.got = p.got
      <4>1. ids = <<>>
        BY <2>1
      <4> QED BY <4>1, <1>1, <1>7, <2>1
    <3> QED BY <1>1, <1>4, <3>1, <3>2
  <2>2. CASE found # <<>>
    <3> DEFINE last == found[Len(found)].at
    <3>1. Len(found) \in DOMAIN found /\ \A i \in DOMAIN found : i = Len(found) \/ i < Len(found)
      BY <1>6, <2>2
    <3>2. last \in Nat /\ last < bound /\ last <= moment
      BY <1>5, <1>6, <3>1
    <3>3. \A i \in DOMAIN found : found[i].at >= last /\ found[i].at \in Nat
      BY <1>5, <1>6, <3>1, <3>2
    <3>4. p'.cursor = ShownTime(last)
      BY <1>7, <2>2 DEF Last
    <3> HIDE DEF last
    <3>5. p'.cursor \in Nat /\ Fine * p'.cursor <= last /\ Fine * p'.cursor \in Nat
      BY <3>2, <3>4, ShownNotLater, FineInt
    <3>6. PICK low \in Nat : low = Fine * p'.cursor
      BY <3>5
    <3>7. low <= bound /\ low <= moment /\ \A i \in DOMAIN found : found[i].at >= low
      <4>1. low <= last
        BY <3>5, <3>6
      <4>2. moment \in Nat
        BY <1>3 DEF HistoryRows
      <4> QED BY <4>1, <4>2, <3>2, <3>3, <1>4
    <3> QED BY <3>5, <3>6, <3>7
  <2> QED BY <2>1, <2>2
<1>14. ASSUME NEW n \in DOMAIN p'.got
       PROVE  /\ \A item \in RowsListed(p.list) : item.id = p'.got[n] => item.at >= Fine * p'.cursor
              /\ p.list = "audit" => p'.got[n] \in 0..(made - 1) /\ \A r \in replied : r.id # p'.got[n]
  <2>1. CASE n \in DOMAIN p.got /\ p'.got[n] = p.got[n]
    <3>1. Fine * p'.cursor \in Nat
      BY <1>13, FineInt
    <3> QED BY <2>1, <3>1, <1>1, <1>4, <1>5, <1>13
  <2>2. ASSUME NEW j \in DOMAIN found, p'.got[n] = found[j].id
        PROVE  /\ \A item \in RowsListed(p.list) : item.id = p'.got[n] => item.at >= Fine * p'.cursor
               /\ p.list = "audit" => p'.got[n] \in 0..(made - 1) /\ \A r \in replied : r.id # p'.got[n]
    BY <2>2, <1>5, <1>6, <1>13
  <2> QED BY <2>1, <2>2, <1>11
<1>15. \A list : RowsListed(list)' = RowsListed(list)
  BY <1>3 DEF RowsListed
<1> QED
  <2>1. /\ DOMAIN paging' = {"list", "got", "cursor", "more", "since"}
        /\ paging'.list \in {"audit", "evidence"}
        /\ paging'.got \in Seq(RowIds) /\ paging'.cursor \in Nat
        /\ paging'.got # <<>> => Fine * paging'.cursor <= moment'
        /\ IsInjective(paging'.got)
    BY <1>1, <1>3, <1>7, <1>12, <1>13 DEF p
  <2>2. \A n \in DOMAIN paging'.got :
         /\ \A item \in RowsListed(paging.list) :
              item.id = paging'.got[n] => item.at >= Fine * paging'.cursor
         /\ paging.list = "audit" =>
              paging'.got[n] \in 0..(made - 1) /\ \A r \in replied : r.id # paging'.got[n]
    BY <1>14 DEF p
  <2>3. paging'.list = paging.list
    BY <1>7 DEF p
  <2> QED BY <2>1, <2>2, <2>3, <1>3 DEF PagedRows, RowsListed

LEMMA OthersKeep ==
  ASSUME HistoryInv, UNCHANGED <<made, replied, entries, sightings, paging, moment>>
  PROVE  HistoryInv'
BY DEF HistoryInv, HistoryRows, PagedRows, RowsListed

(* Nothing about the reader changes but the rows there are.                *)
LEMMA ReaderKeeps ==
  ASSUME HistoryInv, paging' = paging, made' \in Nat, made <= made', moment' \in Nat,
         moment <= moment',
         paging # NoPaging => \A i \in DOMAIN paging.got :
            /\ \A item \in RowsListed(paging.list)' :
                 item.id = paging.got[i] => item.at >= Fine * paging.cursor
            /\ paging.list = "audit" => \A r \in replied' : r.id # paging.got[i]
  PROVE  PagedRows'
<1>1. SUFFICES ASSUME paging # NoPaging
               PROVE  /\ paging.got # <<>> => Fine * paging.cursor <= moment'
                      /\ \A i \in DOMAIN paging.got :
                           /\ \A item \in RowsListed(paging.list)' :
                                item.id = paging.got[i] => item.at >= Fine * paging.cursor
                           /\ paging.list = "audit" =>
                                paging.got[i] \in 0..(made' - 1) /\ \A r \in replied' : r.id # paging.got[i]
  BY DEF HistoryInv, PagedRows, RowsListed
<1>2. PICK low \in Nat : low = Fine * paging.cursor
  BY <1>1, FineInt DEF HistoryInv, PagedRows
<1>3. paging.got # <<>> => low <= moment'
  BY <1>1, <1>2 DEF HistoryInv, HistoryRows, PagedRows
<1>4. ASSUME NEW i \in DOMAIN paging.got, paging.list = "audit"
      PROVE  paging.got[i] \in 0..(made' - 1)
  <2>1. paging.got[i] \in 0..(made - 1)
    BY <1>1, <1>4 DEF HistoryInv, PagedRows
  <2>2. paging.got \in Seq(RowIds)
    BY <1>1 DEF HistoryInv, PagedRows
  <2> QED BY <2>1, <2>2 DEF HistoryInv, HistoryRows
<1> QED BY <1>1, <1>2, <1>3, <1>4

LEMMA HistoryKeeps ==
  ASSUME HistoryInv, [AuditNext \/ EvidenceListNext]_historyVars
  PROVE  HistoryInv'
<1> USE DEF HistoryInv
<1>1. ASSUME NEW p \in Staff, Change(p)
      PROVE  HistoryInv'
  <2>1. /\ replied' = replied \cup {[id |-> made, by |-> p]} /\ made' = made + 1
        /\ UNCHANGED <<entries, sightings, paging, moment>>
    BY <1>1 DEF Change
  <2>2. HistoryRows'
    BY <2>1 DEF HistoryRows
  <2>3. paging # NoPaging => \A i \in DOMAIN paging.got :
          /\ \A item \in RowsListed(paging.list)' :
               item.id = paging.got[i] => item.at >= Fine * paging.cursor
          /\ paging.list = "audit" => \A r \in replied' : r.id # paging.got[i]
    BY <2>1 DEF HistoryRows, PagedRows, RowsListed
  <2>4. made' \in Nat /\ made <= made' /\ moment' \in Nat /\ moment <= moment'
    BY <2>1 DEF HistoryRows
  <2> QED BY <2>1, <2>2, <2>3, <2>4, ReaderKeeps
<1>2. ASSUME NEW r \in replied, onResponse(r) \/ AuditFails(r)
      PROVE  HistoryInv'
  <2>1. /\ replied' = replied \ {r} /\ UNCHANGED <<sightings, paging, moment, made>>
        /\ \/ entries' = entries
           \/ entries' = entries \cup {[id |-> r.id, by |-> r.by, at |-> moment]}
    BY <1>2 DEF onResponse, AuditFails
  <2>2. HistoryRows'
    BY <2>1 DEF HistoryRows
  <2>3. paging # NoPaging => \A i \in DOMAIN paging.got :
          /\ \A item \in RowsListed(paging.list)' :
               item.id = paging.got[i] => item.at >= Fine * paging.cursor
          /\ paging.list = "audit" => \A s \in replied' : s.id # paging.got[i]
    BY <2>1 DEF HistoryRows, PagedRows, RowsListed
  <2>4. made' \in Nat /\ made <= made' /\ moment' \in Nat /\ moment <= moment'
    BY <2>1 DEF HistoryRows
  <2> QED BY <2>1, <2>2, <2>3, <2>4, ReaderKeeps
<1>3. ASSUME NEW e \in Inbound, Sight(e)
      PROVE  HistoryInv'
  <2>1. /\ sightings' = {s \in sightings : s.id # e} \cup {[id |-> e, at |-> moment]}
        /\ UNCHANGED <<replied, entries, paging, moment, made>>
    BY <1>3 DEF Sight
  <2>2. HistoryRows'
    BY <2>1 DEF HistoryRows
  <2>3. ASSUME paging # NoPaging, NEW i \in DOMAIN paging.got, NEW item \in RowsListed(paging.list)',
               item.id = paging.got[i]
        PROVE  item.at >= Fine * paging.cursor
    <3>1. paging.got # <<>> => Fine * paging.cursor <= moment
      BY <2>3 DEF PagedRows
    <3>2. PICK low \in Nat : low = Fine * paging.cursor
      BY <2>3, FineInt DEF PagedRows
    <3>3. paging.got # <<>>
      BY <2>3
    <3>4. CASE item \in RowsListed(paging.list)
      BY <2>3, <3>4 DEF PagedRows
    <3>5. CASE item = [id |-> e, at |-> moment]
      BY <3>1, <3>2, <3>3, <3>5 DEF HistoryRows
    <3> QED BY <2>1, <2>3, <3>4, <3>5 DEF RowsListed
  <2>4. made' \in Nat /\ made <= made' /\ moment' \in Nat /\ moment <= moment'
    BY <2>1 DEF HistoryRows
  <2>5. paging # NoPaging => \A i \in DOMAIN paging.got :
          paging.list = "audit" => \A r \in replied' : r.id # paging.got[i]
    BY <2>1 DEF PagedRows
  <2> QED BY <2>1, <2>2, <2>3, <2>4, <2>5, ReaderKeeps
<1>4. ASSUME Moment
      PROVE  HistoryInv'
  <2>1. moment' = moment + 1 /\ UNCHANGED <<replied, entries, sightings, paging, made>>
    BY <1>4 DEF Moment
  <2>2. HistoryRows'
    BY <2>1 DEF HistoryRows
  <2>3. paging # NoPaging => \A i \in DOMAIN paging.got :
          /\ \A item \in RowsListed(paging.list)' :
               item.id = paging.got[i] => item.at >= Fine * paging.cursor
          /\ paging.list = "audit" => \A r \in replied' : r.id # paging.got[i]
    BY <2>1 DEF HistoryRows, PagedRows, RowsListed
  <2>4. made' \in Nat /\ made <= made' /\ moment' \in Nat /\ moment <= moment'
    BY <2>1 DEF HistoryRows
  <2> QED BY <2>1, <2>2, <2>3, <2>4, ReaderKeeps
<1>5. ASSUME ReadPage
      PROVE  HistoryInv'
  <2>1. UNCHANGED <<made, replied, entries, sightings, moment>>
    BY <1>5 DEF ReadPage
  <2>2. HistoryRows'
    BY <2>1 DEF HistoryRows
  <2> QED BY <2>2, <1>5, NextPage
<1>6. ASSUME NEW list \in {"audit", "evidence"}, OpenList(list)
      PROVE  HistoryInv'
  <2>1. /\ UNCHANGED <<made, replied, entries, sightings, moment>>
        /\ paging' = [list |-> list, got |-> <<>>, cursor |-> Start, more |-> TRUE,
                      since |-> ListRows(list)]
    BY <1>6 DEF OpenList
  <2>2. HistoryRows'
    BY <2>1 DEF HistoryRows
  <2>3. Start \in Nat
    BY HistoryAssumption, ShownNotLater DEF Start, ShownTime
  <2>4. PagedRows'
    BY <2>1, <2>3 DEF PagedRows, IsInjective
  <2> QED BY <2>2, <2>4
<1>7. ASSUME \/ \E p \in Staff : EndSession(p) \/ RemoveMember(p)
             \/ UNCHANGED historyVars
      PROVE  HistoryInv'
  <2>1. UNCHANGED <<made, replied, entries, sightings, paging, moment>>
    BY <1>7 DEF EndSession, RemoveMember, historyVars
  <2> QED BY <2>1, OthersKeep
<1> QED BY <1>1, <1>2, <1>3, <1>4, <1>5, <1>6, <1>7 DEF AuditNext, EvidenceListNext

(* Who pages through a list reads no row twice, however many are written   *)
(* or seen again between two requests.                                     *)
THEOREM NoneTwiceHolds == HistorySpec => []NoneTwice
<1>1. HistoryInit => HistoryInv
  BY DEF HistoryInit, HistoryInv, HistoryRows, PagedRows
<1>2. HistoryInv /\ [AuditNext \/ EvidenceListNext]_historyVars => HistoryInv'
  BY HistoryKeeps
<1>3. HistoryInv => NoneTwice
  BY DEF HistoryInv, PagedRows, NoneTwice
<1> QED BY <1>1, <1>2, <1>3, PTL DEF HistorySpec
-----------------------------------------------------------------------------
(* The monitoring page.                                                    *)

Choice == Watched \cup {None}
Asked == [stage : {"idle", "asked", "read", "after"}, requested : Choice,
          read : (SUBSET Watched) \cup {Unread},
          after : [then : {"no more", "detail", "select"}, monitor : Choice]]
AskedOK(x) ==
  /\ x \in Asked
  /\ x.stage = "read" => x.read \in SUBSET Watched
  /\ x.after.then = "select" => x.after.monitor \in Watched

PageTypes ==
  /\ alive \in SUBSET Watched /\ gone \in SUBSET Watched /\ alive \cap gone = {}
  /\ inList \in SUBSET Watched /\ chosenMonitor \in Choice /\ detail \in Choice
  /\ lists = [l \in ListLoads |-> lists[l]] /\ \A l \in ListLoads : AskedOK(lists[l])
  /\ details \in [DetailLoads -> Choice]

(* A list under way was asked with the selection; it has not been read, or *)
(* when it was the monitor was gone.                                       *)
OnItsWay(l) == lists[l].stage \in {"asked", "read"} /\ lists[l].requested = chosenMonitor
WillMiss(l) == OnItsWay(l) /\ (lists[l].stage = "read" => chosenMonitor \notin lists[l].read)

(* The selection is in the list, or a list is under way that will show it  *)
(* or select another.                                                      *)
Listed == chosenMonitor \in inList \cup {None} \/ \E l \in ListLoads : OnItsWay(l)

(* Its detail is shown or under way, or it was deleted and a list is under *)
(* way that lacks it.                                                      *)
Detailed ==
  \/ detail = chosenMonitor
  \/ chosenMonitor # None /\ \E d \in DetailLoads : details[d] = chosenMonitor
  \/ chosenMonitor \in gone /\ \E l \in ListLoads : WillMiss(l)

MonitorPageInv == PageTypes /\ (~late /\ ~failed => Listed /\ Detailed)

LEMMA AsksOK ==
  ASSUME NEW m \in Choice, NEW after \in [then : {"no more", "detail", "select"}, monitor : Choice],
         after.then = "select" => after.monitor \in Watched
  PROVE  /\ AskedOK(AsksFor(m, after)) /\ AsksFor(m, after).stage = "asked"
         /\ AsksFor(m, after).requested = m
BY DEF AskedOK, AsksFor, NoList, NoMore, Asked, Choice

LEMMA NoMoreOK == NoMore \in [then : {"no more", "detail", "select"}, monitor : Choice]
                  /\ NoMore.then = "no more"
BY DEF NoMore, Choice

LEMMA IdleOK == AskedOK(NoList) /\ NoList.stage = "idle"
BY NoMoreOK DEF AskedOK, NoList, NoMore, Asked, Choice

LEMMA BegunList ==
  ASSUME PageTypes, NEW l \in ListLoads, NEW m \in Choice,
         NEW after \in [then : {"no more", "detail", "select"}, monitor : Choice],
         after.then = "select" => after.monitor \in Watched, BeginList(l, m, after)
  PROVE  /\ lists' = [k \in ListLoads |-> lists'[k]] /\ \A k \in ListLoads : AskedOK(lists'[k])
         /\ lists[l].stage = "idle" /\ lists'[l].stage = "asked" /\ lists'[l].requested = m
         /\ \A k \in ListLoads \ {l} : lists'[k] = lists[k]
<1>1. lists' = [lists EXCEPT ![l] = AsksFor(m, after)] /\ lists[l] = NoList
  BY DEF BeginList
<1>2. lists'[l] = AsksFor(m, after) /\ \A k \in ListLoads \ {l} : lists'[k] = lists[k]
  BY <1>1 DEF PageTypes
<1>3. DOMAIN lists' = ListLoads /\ lists' = [k \in ListLoads |-> lists'[k]]
  BY <1>1 DEF PageTypes
<1>4. /\ AskedOK(AsksFor(m, after)) /\ AsksFor(m, after).stage = "asked"
      /\ AsksFor(m, after).requested = m
  BY AsksOK
<1>5. \A k \in ListLoads : AskedOK(lists'[k])
  BY <1>2, <1>4 DEF PageTypes
<1>6. lists[l].stage = "idle"
  BY <1>1, IdleOK
<1> QED BY <1>2, <1>3, <1>4, <1>5, <1>6

LEMMA BegunDetails ==
  ASSUME PageTypes, NEW ms \in SUBSET Watched, BeginDetails(ms)
  PROVE  /\ details' \in [DetailLoads -> Choice]
         /\ \A d \in DetailLoads : details[d] # None => details'[d] = details[d]
         /\ \A m \in ms : m # None /\ \E d \in DetailLoads : details'[d] = m
<1>1. PICK slot \in [ms -> FreeDetail] :
         /\ \A m, n \in ms : slot[m] = slot[n] => m = n
         /\ details' = [d \in DetailLoads |->
              IF \E m \in ms : slot[m] = d THEN CHOOSE m \in ms : slot[m] = d ELSE details[d]]
  BY DEF BeginDetails
<1>2. \A m \in ms : slot[m] \in DetailLoads /\ details[slot[m]] = None
  BY <1>1 DEF FreeDetail, NoDetail
<1>3. \A d \in DetailLoads : (\E m \in ms : slot[m] = d) =>
         (CHOOSE m \in ms : slot[m] = d) \in ms /\ slot[CHOOSE m \in ms : slot[m] = d] = d
  OBVIOUS
<1>4. details' \in [DetailLoads -> Choice]
  BY <1>1, <1>3 DEF PageTypes, Choice
<1>5. ASSUME NEW d \in DetailLoads, details[d] # None
      PROVE  details'[d] = details[d]
  BY <1>1, <1>2, <1>5
<1>6. ASSUME NEW m \in ms
      PROVE  details'[slot[m]] = m /\ slot[m] \in DetailLoads
  BY <1>1, <1>2, <1>3, <1>6
<1> QED BY <1>4, <1>5, <1>6, MonitorPageAssumption

-----------------------------------------------------------------------------
(* What the steps do to the pending requests.                              *)

(* Nothing but the budget, the form and the texts changes, or lists begin. *)
LEMMA MoreLists ==
  ASSUME MonitorPageInv, NEW l \in ListLoads,
         NEW after \in [then : {"no more", "detail", "select"}, monitor : Choice],
         after.then = "select" => after.monitor \in Watched,
         BeginList(l, chosenMonitor, after),
         UNCHANGED <<inList, chosenMonitor, detail, details, signalVars>>,
         alive' \in SUBSET Watched, gone' \in SUBSET Watched, alive' \cap gone' = {}, gone \subseteq gone'
  PROVE  MonitorPageInv'
<1>1. /\ lists' = [k \in ListLoads |-> lists'[k]] /\ \A k \in ListLoads : AskedOK(lists'[k])
      /\ lists[l].stage = "idle" /\ \A k \in ListLoads \ {l} : lists'[k] = lists[k]
  BY BegunList DEF MonitorPageInv, PageTypes
<1>2. PageTypes'
  BY <1>1 DEF MonitorPageInv, PageTypes
<1>3. \A k \in ListLoads : /\ OnItsWay(k) => OnItsWay(k)'
                           /\ WillMiss(k) => WillMiss(k)'
  BY <1>1 DEF OnItsWay, WillMiss
<1> QED BY <1>2, <1>3 DEF MonitorPageInv, Listed, Detailed, signalVars

LEMMA MoreDetails ==
  ASSUME MonitorPageInv, NEW ms \in SUBSET Watched, BeginDetails(ms) \/ UNCHANGED details,
         UNCHANGED <<monitorVars, inList, chosenMonitor, detail, lists, signalVars>>
  PROVE  MonitorPageInv'
<1>1. /\ details' \in [DetailLoads -> Choice]
      /\ \A d \in DetailLoads : details[d] # None => details'[d] = details[d]
  BY BegunDetails DEF MonitorPageInv, PageTypes
<1>2. PageTypes'
  BY <1>1 DEF MonitorPageInv, PageTypes, monitorVars
<1>3. \A k \in ListLoads : /\ OnItsWay(k) => OnItsWay(k)'
                           /\ WillMiss(k) => WillMiss(k)'
  BY DEF OnItsWay, WillMiss
<1> QED BY <1>1, <1>2, <1>3 DEF MonitorPageInv, Listed, Detailed, signalVars, monitorVars

LEMMA ClickSelects ==
  ASSUME MonitorPageInv, NEW l \in ListLoads, NEW m \in Watched, SelectMonitor(m, l),
         UNCHANGED <<monitorVars, inList, detail, signalVars>>
  PROVE  MonitorPageInv'
<1>1. /\ lists' = [k \in ListLoads |-> lists'[k]] /\ \A k \in ListLoads : AskedOK(lists'[k])
      /\ lists'[l].stage = "asked" /\ lists'[l].requested = m
  BY BegunList, NoMoreOK DEF MonitorPageInv, SelectMonitor, Choice
<1>2. /\ details' \in [DetailLoads -> Choice]
      /\ m # None /\ \E d \in DetailLoads : details'[d] = m
  BY BegunDetails DEF MonitorPageInv, SelectMonitor
<1>3. chosenMonitor' = m
  BY DEF SelectMonitor
<1>4. PageTypes'
  BY <1>1, <1>2, <1>3 DEF MonitorPageInv, PageTypes, monitorVars, Choice
<1>5. OnItsWay(l)'
  BY <1>1, <1>3 DEF OnItsWay
<1> QED BY <1>2, <1>3, <1>4, <1>5 DEF MonitorPageInv, Listed, Detailed

(* A list that is read, applied or gone on with.                           *)
LEMMA ListRead ==
  ASSUME MonitorPageInv, NEW l \in ListLoads, ReadList(l)
  PROVE  MonitorPageInv'
<1>1. /\ lists[l].stage = "asked" /\ lists[l] \in Asked /\ alive \in SUBSET Watched
      /\ lists' = [lists EXCEPT ![l].stage = "read", ![l].read = alive]
  BY DEF ReadList, MonitorPageInv, PageTypes, AskedOK
<1>2. /\ lists'[l].stage = "read" /\ lists'[l].read = alive
      /\ lists'[l].requested = lists[l].requested /\ lists'[l].after = lists[l].after
      /\ lists'[l] \in Asked
  BY <1>1 DEF Asked, MonitorPageInv, PageTypes
<1>3. /\ \A k \in ListLoads \ {l} : lists'[k] = lists[k]
      /\ lists' = [k \in ListLoads |-> lists'[k]]
  BY <1>1 DEF MonitorPageInv, PageTypes
<1>4. AskedOK(lists'[l])
  BY <1>1, <1>2 DEF AskedOK, MonitorPageInv, PageTypes
<1>5. \A k \in ListLoads : AskedOK(lists'[k])
  BY <1>3, <1>4 DEF MonitorPageInv, PageTypes
<1>6. PageTypes'
  BY <1>3, <1>5 DEF ReadList, MonitorPageInv, PageTypes, monitorVars
<1>7. \A k \in ListLoads : OnItsWay(k) => OnItsWay(k)'
  BY <1>1, <1>2, <1>3 DEF OnItsWay, ReadList
<1>8. \A k \in ListLoads : chosenMonitor \in gone /\ WillMiss(k) => WillMiss(k)'
  BY <1>1, <1>2, <1>3, <1>7 DEF WillMiss, ReadList, MonitorPageInv, PageTypes
<1> QED BY <1>6, <1>7, <1>8 DEF MonitorPageInv, Listed, Detailed, ReadList, signalVars, monitorVars

LEMMA AppliedOK ==
  ASSUME PageTypes, NEW l \in ListLoads
  PROVE  AskedOK(Applied(l)) /\ Applied(l).stage \notin {"asked", "read"}
<1>1. CASE lists[l].after = NoMore
  BY <1>1, IdleOK DEF Applied
<1>2. CASE lists[l].after # NoMore
  BY <1>2 DEF Applied, PageTypes, AskedOK, Asked
<1> QED BY <1>1, <1>2

LEMMA ListShown ==
  ASSUME MonitorPageInv, NEW l \in ListLoads, ShowList(l)
  PROVE  MonitorPageInv'
<1>1. /\ lists[l].stage = "read" /\ lists[l].requested \in lists[l].read /\ lists[l] \in Asked
      /\ lists[l].read \in SUBSET Watched /\ inList' = lists[l].read
      /\ lists' = [lists EXCEPT ![l] = Applied(l)]
      /\ UNCHANGED <<alive, gone, chosenMonitor, detail, failed>>
  BY DEF ShowList, monitorVars, MonitorPageInv, PageTypes, AskedOK
<1>2. /\ lists'[l] = Applied(l) /\ \A k \in ListLoads \ {l} : lists'[k] = lists[k]
      /\ lists' = [k \in ListLoads |-> lists'[k]]
  BY <1>1 DEF MonitorPageInv, PageTypes
<1>3. \A k \in ListLoads : AskedOK(lists'[k])
  BY <1>2, AppliedOK DEF MonitorPageInv, PageTypes
<1>4. details' \in [DetailLoads -> Choice]
  <2>1. CASE lists[l].requested # chosenMonitor
    <3>1. {lists[l].requested, chosenMonitor} \ {None} \in SUBSET Watched
      BY <1>1 DEF MonitorPageInv, PageTypes, Choice
    <3>2. BeginDetails({lists[l].requested, chosenMonitor} \ {None})
      BY <2>1 DEF ShowList
    <3> QED BY <3>1, <3>2, BegunDetails DEF MonitorPageInv
  <2>2. CASE lists[l].requested = chosenMonitor
    BY <2>2 DEF ShowList, MonitorPageInv, PageTypes
  <2> QED BY <2>1, <2>2
<1>5. PageTypes'
  BY <1>1, <1>2, <1>3, <1>4 DEF MonitorPageInv, PageTypes
<1>6. CASE lists[l].requested # chosenMonitor
  <2>1. late'
    BY <1>6 DEF ShowList
  <2> QED BY <1>5, <2>1 DEF MonitorPageInv
<1>7. CASE lists[l].requested = chosenMonitor
  <2>1. UNCHANGED details /\ (late' <=> late)
    BY <1>7 DEF ShowList
  <2>2. chosenMonitor \in inList'
    BY <1>1, <1>7
  <2>3. \A k \in ListLoads : WillMiss(k) => WillMiss(k)'
    BY <1>1, <1>2, <1>7 DEF WillMiss, OnItsWay
  <2> QED BY <1>1, <1>5, <2>1, <2>2, <2>3 DEF MonitorPageInv, Listed, Detailed
<1> QED BY <1>6, <1>7

LEMMA ShownAnew ==
  ASSUME MonitorPageInv, NEW l \in ListLoads, NEW k \in ListLoads, ShowListAnew(l, k)
  PROVE  MonitorPageInv'
<1> DEFINE next == IF lists[l].read = {} THEN None ELSE First(lists[l].read)
           applied == [lists EXCEPT ![l] = Applied(l)]
<1>1. /\ lists[l].stage = "read" /\ lists[l].requested \notin lists[l].read
      /\ lists[l].read \in SUBSET Watched /\ inList' = lists[l].read
      /\ chosenMonitor' = next /\ late' = (late \/ lists[l].requested # chosenMonitor)
      /\ UNCHANGED <<alive, gone, failed>>
  BY DEF ShowListAnew, monitorVars, MonitorPageInv, PageTypes, AskedOK
<1>2. next \in inList' \cup {None} /\ next \in Choice /\ (next # None => next \in Watched)
  BY <1>1, MonitorPageAssumption DEF Choice
<1>3. applied = [j \in ListLoads |-> applied[j]] /\ \A j \in ListLoads : AskedOK(applied[j])
  BY AppliedOK DEF MonitorPageInv, PageTypes
<1>4. lists' = [j \in ListLoads |-> lists'[j]] /\ \A j \in ListLoads : AskedOK(lists'[j])
  <2>1. CASE next = chosenMonitor
    BY <1>3, <2>1 DEF ShowListAnew
  <2>2. CASE next # chosenMonitor
    <3>1. lists' = [applied EXCEPT ![k] = AsksFor(next, NoMore)]
      BY <2>2 DEF ShowListAnew
    <3>2. AskedOK(AsksFor(next, NoMore))
      BY <1>2, AsksOK, NoMoreOK
    <3> HIDE DEF applied, next
    <3> QED BY <3>1, <3>2, <1>3
  <2> QED BY <2>1, <2>2
<1>5. /\ details' \in [DetailLoads -> Choice]
      /\ next \notin {None, chosenMonitor} => \E d \in DetailLoads : details'[d] = next
  <2>1. CASE next \in {None, chosenMonitor}
    BY <2>1 DEF ShowListAnew, MonitorPageInv, PageTypes
  <2>2. CASE next \notin {None, chosenMonitor}
    <3>1. BeginDetails({next}) /\ {next} \in SUBSET Watched
      BY <2>2, <1>2 DEF ShowListAnew
    <3> QED BY <3>1, <2>2, BegunDetails DEF MonitorPageInv
  <2> QED BY <2>1, <2>2
<1>6. detail' = IF next = None THEN None ELSE detail
  BY DEF ShowListAnew
<1>7. PageTypes'
  BY <1>1, <1>2, <1>4, <1>5, <1>6 DEF MonitorPageInv, PageTypes, Choice
<1>8. ASSUME ~late', ~failed'
      PROVE  Listed' /\ Detailed'
  <2>1. lists[l].requested = chosenMonitor
    BY <1>1, <1>8
  <2>2. next # None => next # chosenMonitor
    BY <1>1, <1>2, <2>1
  <2> HIDE DEF next
  <2> QED BY <1>1, <1>2, <1>5, <1>6, <2>2 DEF Listed, Detailed
<1> QED BY <1>7, <1>8 DEF MonitorPageInv

LEMMA GoneOn ==
  ASSUME MonitorPageInv, NEW l \in ListLoads, GoOn(l)
  PROVE  MonitorPageInv'
<1> DEFINE after == lists[l].after
<1>1. /\ lists[l].stage = "after" /\ after.monitor \in Choice
      /\ (after.then = "select" => after.monitor \in Watched)
      /\ UNCHANGED <<alive, gone, inList, detail, late, failed>>
  BY DEF GoOn, monitorVars, signalVars, MonitorPageInv, PageTypes, AskedOK, Asked
<1>2. CASE after.then = "select" /\ after.monitor # chosenMonitor
  <2>1. /\ chosenMonitor' = after.monitor /\ after.monitor \in Watched
        /\ lists' = [lists EXCEPT ![l] = AsksFor(after.monitor, NoMore)]
        /\ BeginDetails({after.monitor})
    BY <1>1, <1>2 DEF GoOn
  <2>2. AskedOK(AsksFor(after.monitor, NoMore)) /\ AsksFor(after.monitor, NoMore).stage = "asked"
        /\ AsksFor(after.monitor, NoMore).requested = after.monitor
    BY <1>1, AsksOK, NoMoreOK
  <2>3. /\ lists' = [j \in ListLoads |-> lists'[j]] /\ \A j \in ListLoads : AskedOK(lists'[j])
        /\ OnItsWay(l)'
    BY <2>1, <2>2 DEF MonitorPageInv, PageTypes, OnItsWay
  <2>4. /\ details' \in [DetailLoads -> Choice]
        /\ after.monitor # None /\ \E d \in DetailLoads : details'[d] = after.monitor
    BY <2>1, BegunDetails DEF MonitorPageInv
  <2>5. PageTypes'
    BY <1>1, <2>1, <2>3, <2>4 DEF MonitorPageInv, PageTypes, Choice
  <2> QED BY <2>1, <2>3, <2>4, <2>5 DEF MonitorPageInv, Listed, Detailed
<1>3. CASE ~(after.then = "select" /\ after.monitor # chosenMonitor)
  <2>1. /\ chosenMonitor' = chosenMonitor /\ lists' = [lists EXCEPT ![l] = NoList]
        /\ \/ after.monitor \in Watched /\ BeginDetails({after.monitor})
           \/ UNCHANGED details
    BY <1>1, <1>3 DEF GoOn, Choice
  <2>2. /\ lists' = [j \in ListLoads |-> lists'[j]] /\ \A j \in ListLoads : AskedOK(lists'[j])
        /\ \A j \in ListLoads \ {l} : lists'[j] = lists[j]
    BY <2>1, IdleOK DEF MonitorPageInv, PageTypes
  <2>3. /\ details' \in [DetailLoads -> Choice]
        /\ \A d \in DetailLoads : details[d] # None => details'[d] = details[d]
    BY <2>1, BegunDetails DEF MonitorPageInv, PageTypes
  <2>4. PageTypes'
    BY <1>1, <2>1, <2>2, <2>3 DEF MonitorPageInv, PageTypes
  <2>5. \A j \in ListLoads : /\ OnItsWay(j) => OnItsWay(j)'
                             /\ WillMiss(j) => WillMiss(j)'
    BY <1>1, <2>1, <2>2 DEF OnItsWay, WillMiss
  <2> QED BY <1>1, <2>1, <2>3, <2>4, <2>5 DEF MonitorPageInv, Listed, Detailed
<1> QED BY <1>2, <1>3

(* A detail that is shown or lost, a list that is lost.                    *)
LEMMA DetailShown ==
  ASSUME MonitorPageInv, NEW d \in DetailLoads, ShowDetail(d)
  PROVE  MonitorPageInv'
<1>1. /\ details' = [details EXCEPT ![d] = None] /\ details[d] \in Choice
      /\ UNCHANGED <<alive, gone, inList, chosenMonitor, lists>>
  BY DEF ShowDetail, NoDetail, monitorVars, MonitorPageInv, PageTypes
<1>2. details' \in [DetailLoads -> Choice]
  BY <1>1 DEF MonitorPageInv, PageTypes, Choice
<1>3. detail' \in Choice
  BY <1>1 DEF ShowDetail, MonitorPageInv, PageTypes
<1>4. PageTypes'
  BY <1>1, <1>2, <1>3 DEF MonitorPageInv, PageTypes
<1>5. ASSUME ~late', ~failed'
      PROVE  Listed' /\ Detailed'
  <2>1. detail' = chosenMonitor' /\ ~late
    BY <1>1, <1>5 DEF ShowDetail
  <2>2. ~failed
    BY <1>5 DEF ShowDetail
  <2>3. Listed /\ (Listed => Listed')
    BY <1>1, <2>1, <2>2 DEF MonitorPageInv, Listed, OnItsWay
  <2> QED BY <2>1, <2>3 DEF Detailed
<1> QED BY <1>4, <1>5 DEF MonitorPageInv

LEMMA RequestFails ==
  ASSUME MonitorPageInv,
         (\E l \in ListLoads : ListFails(l)) \/ (\E d \in DetailLoads : DetailFails(d))
  PROVE  MonitorPageInv'
<1>1. CASE \E l \in ListLoads : ListFails(l)
  <2>1. PICK l \in ListLoads : ListFails(l)
    BY <1>1
  <2>2. lists' = [j \in ListLoads |-> lists'[j]] /\ \A j \in ListLoads : AskedOK(lists'[j])
    BY <2>1, IdleOK DEF ListFails, MonitorPageInv, PageTypes
  <2>3. PageTypes' /\ failed'
    BY <2>1, <2>2 DEF ListFails, monitorVars, MonitorPageInv, PageTypes
  <2> QED BY <2>3 DEF MonitorPageInv
<1>2. CASE \E d \in DetailLoads : DetailFails(d)
  <2>1. PageTypes' /\ failed'
    BY <1>2 DEF DetailFails, NoDetail, monitorVars, MonitorPageInv, PageTypes, Choice
  <2> QED BY <2>1 DEF MonitorPageInv
<1> QED BY <1>1, <1>2

LEMMA WatchedDeleted ==
  ASSUME MonitorPageInv, NEW l \in ListLoads, DeleteWatched(l)
  PROVE  MonitorPageInv'
<1>1. /\ detail # None /\ Header \in alive /\ alive' = alive \ {Header}
      /\ gone' = gone \cup {Header} /\ detail' = None
      /\ BeginList(l, chosenMonitor, NoMore)
      /\ UNCHANGED <<inList, chosenMonitor, details, late, failed>>
  BY DEF DeleteWatched, signalVars
<1>2. /\ lists' = [k \in ListLoads |-> lists'[k]] /\ \A k \in ListLoads : AskedOK(lists'[k])
      /\ lists[l].stage = "idle" /\ lists'[l].stage = "asked" /\ lists'[l].requested = chosenMonitor
      /\ \A k \in ListLoads \ {l} : lists'[k] = lists[k]
  BY <1>1, BegunList, NoMoreOK DEF MonitorPageInv, PageTypes
<1>3. PageTypes'
  BY <1>1, <1>2 DEF MonitorPageInv, PageTypes, Choice
<1>4. OnItsWay(l)' /\ WillMiss(l)'
  BY <1>1, <1>2 DEF OnItsWay, WillMiss
<1>5. ASSUME ~late', ~failed'
      PROVE  Detailed'
  <2>1. CASE Header = chosenMonitor
    BY <1>1, <1>4, <2>1 DEF Detailed
  <2>2. CASE Header # chosenMonitor
    <3>1. Header = detail /\ detail # chosenMonitor
      BY <2>2 DEF Header
    <3>2. Detailed
      BY <1>1, <1>5 DEF MonitorPageInv
    <3> QED BY <1>1, <1>4, <3>1, <3>2 DEF Detailed
  <2> QED BY <2>1, <2>2
<1> QED BY <1>1, <1>3, <1>4, <1>5 DEF MonitorPageInv, Listed

LEMMA WatchedGone ==
  ASSUME MonitorPageInv, NEW m \in Watched, GoneElsewhere(m)
  PROVE  MonitorPageInv'
<1>1. PageTypes'
  BY DEF GoneElsewhere, MonitorPageInv, PageTypes
<1>2. \A k \in ListLoads : /\ OnItsWay(k) => OnItsWay(k)'
                           /\ WillMiss(k) => WillMiss(k)'
  BY DEF OnItsWay, WillMiss, GoneElsewhere
<1> QED BY <1>1, <1>2 DEF MonitorPageInv, Listed, Detailed, GoneElsewhere, signalVars

LEMMA ListBegun ==
  ASSUME MonitorPageInv, NEW l \in ListLoads,
         PollList(l) \/ Act(l) \/ SaveForm(l) \/ \E m \in Watched : CreateWatched(m, l)
  PROVE  MonitorPageInv'
<1>1. CASE PollList(l)
  BY <1>1, MoreLists, NoMoreOK DEF PollList, MonitorPageInv, PageTypes, monitorVars
<1>2. CASE Act(l)
  <2>1. [then |-> "detail", monitor |-> chosenMonitor]
          \in [then : {"no more", "detail", "select"}, monitor : Choice]
    BY DEF MonitorPageInv, PageTypes
  <2> QED BY <1>2, <2>1, MoreLists DEF Act, MonitorPageInv, PageTypes, monitorVars
<1>3. CASE SaveForm(l)
  <2>1. editForm.monitor \in Watched
    BY <1>3 DEF SaveForm, MonitorPageInv, PageTypes
  <2>2. [then |-> "detail", monitor |-> editForm.monitor]
          \in [then : {"no more", "detail", "select"}, monitor : Choice]
    BY <2>1 DEF Choice
  <2> QED BY <1>3, <2>2, MoreLists DEF SaveForm, MonitorPageInv, PageTypes
<1>4. CASE \E m \in Watched : CreateWatched(m, l)
  <2>1. PICK m \in Watched : CreateWatched(m, l)
    BY <1>4
  <2>2. [then |-> "select", monitor |-> m]
          \in [then : {"no more", "detail", "select"}, monitor : Choice]
    BY DEF Choice
  <2>3. alive' \in SUBSET Watched /\ gone' = gone /\ gone \in SUBSET Watched /\ alive' \cap gone' = {}
    BY <2>1 DEF CreateWatched, MonitorPageInv, PageTypes
  <2>4. /\ BeginList(l, chosenMonitor, [then |-> "select", monitor |-> m])
        /\ UNCHANGED <<inList, chosenMonitor, detail, details, signalVars>>
    BY <2>1 DEF CreateWatched
  <2> DEFINE after == [then |-> "select", monitor |-> m]
  <2>5. after \in [then : {"no more", "detail", "select"}, monitor : Choice]
        /\ (after.then = "select" => after.monitor \in Watched) /\ BeginList(l, chosenMonitor, after)
    BY <2>2, <2>4
  <2> HIDE DEF after
  <2> QED BY <2>3, <2>4, <2>5, MoreLists
<1> QED BY <1>1, <1>2, <1>3, <1>4

-----------------------------------------------------------------------------
LEMMA MonitorPageStart == MonitorPageInit => MonitorPageInv
<1> SUFFICES ASSUME MonitorPageInit PROVE MonitorPageInv
  OBVIOUS
<1>1. PICK k \in ListLoads : lists = [[l \in ListLoads |-> NoList] EXCEPT ![k].stage = "asked"]
  BY DEF MonitorPageInit
<1>2. /\ lists = [l \in ListLoads |-> lists[l]]
      /\ \A l \in ListLoads : lists[l] = IF l = k THEN [NoList EXCEPT !.stage = "asked"] ELSE NoList
  BY <1>1
<1>3. AskedOK([NoList EXCEPT !.stage = "asked"])
  BY NoMoreOK DEF AskedOK, NoList, NoMore, Asked, Choice
<1>4. PageTypes
  BY <1>2, <1>3, IdleOK DEF MonitorPageInit, PageTypes, Choice, NoDetail
<1> QED BY <1>4 DEF MonitorPageInit, MonitorPageInv, Listed, Detailed

LEMMA MonitorPageKept ==
  ASSUME MonitorPageInv, [MonitorPageNext]_monitorPageVars
  PROVE  MonitorPageInv'
<1>1. ASSUME NEW l \in ListLoads, NEW m \in Watched, Click(m, l)
      PROVE  MonitorPageInv'
  BY <1>1, ClickSelects DEF Click
<1>2. ASSUME NEW l \in ListLoads,
             PollList(l) \/ Act(l) \/ SaveForm(l) \/ \E m \in Watched : CreateWatched(m, l)
      PROVE  MonitorPageInv'
  BY <1>2, ListBegun
<1>3. ASSUME NEW l \in ListLoads, NEW k \in ListLoads, ShowListAnew(l, k)
      PROVE  MonitorPageInv'
  BY <1>3, ShownAnew
<1>4. ASSUME NEW l \in ListLoads, ReadList(l) \/ ShowList(l) \/ GoOn(l) \/ DeleteWatched(l)
      PROVE  MonitorPageInv'
  BY <1>4, ListRead, ListShown, GoneOn, WatchedDeleted
<1>5. ASSUME NEW d \in DetailLoads, ShowDetail(d)
      PROVE  MonitorPageInv'
  BY <1>5, DetailShown
<1>6. CASE PollDetail
  <2>1. {chosenMonitor} \in SUBSET Watched
    BY <1>6 DEF PollDetail, MonitorPageInv, PageTypes, Choice
  <2> QED BY <1>6, <2>1, MoreDetails DEF PollDetail
<1>7. CASE OpenForm \/ CloseForm \/ (\E text \in Expectations : TypeText(text))
           \/ UNCHANGED monitorPageVars
  <2>1. UNCHANGED <<monitorVars, inList, chosenMonitor, detail, lists, details, signalVars>>
    BY <1>7 DEF OpenForm, CloseForm, TypeText, monitorPageVars
  <2> QED BY <2>1, MoreDetails
<1>8. ASSUME NEW m \in Watched, GoneElsewhere(m)
      PROVE  MonitorPageInv'
  BY <1>8, WatchedGone
<1> QED BY <1>1, <1>2, <1>3, <1>4, <1>5, <1>6, <1>7, <1>8, RequestFails DEF MonitorPageNext

(* When nothing is under way the monitoring page shows the detail of the   *)
(* monitor that is selected, and lists it.                                 *)
THEOREM DetailOfSelectedHolds == MonitorPageSpec => []DetailOfSelected
<1>1. MonitorPageInv => DetailOfSelected
  BY IdleOK DEF MonitorPageInv, DetailOfSelected, AtRest, Listed, Detailed, OnItsWay, WillMiss, NoDetail
<1> QED BY <1>1, MonitorPageStart, MonitorPageKept, PTL DEF MonitorPageSpec

-----------------------------------------------------------------------------
(* The availability objective.                                             *)

Counts == [healthy : Nat, failed : Nat]

LEMMA TotalIsNat ==
  ASSUME NEW checks \in [Days -> Counts], NEW days \in SUBSET Days,
         NEW kind \in {"healthy", "failed"}
  PROVE  Total(checks, days)[kind] \in Nat
<1> DEFINE f == [d \in days |-> checks[d][kind]]
           it == CHOOSE g : g = [s \in SUBSET days |->
                   IF s = {} THEN 0
                   ELSE checks[CHOOSE x \in s : TRUE][kind] + g[s \ {CHOOSE x \in s : TRUE}]]
<1>1. IsFiniteSet(days) /\ \A x \in days : f[x] \in Nat
  <2>1. IsFiniteSet(0..MaxDays)
    <3>1. 0 \in Int /\ MaxDays \in Int
      BY ReliabilityAssumption
    <3> QED BY <3>1, FS_Interval
  <2> QED BY <2>1, FS_Subset DEF Counts, Days
<1>2. \A s \in SUBSET days : s # {} => checks[OneOf(s)][kind] = f[OneOf(s)]
  BY DEF OneOf
<1> HIDE DEF f
<1>3. \A g : g = [s \in SUBSET days |-> IF s = {} THEN 0
                                        ELSE checks[OneOf(s)][kind] + g[s \ {OneOf(s)}]]
             <=> Adds(g, SUBSET days, f)
  <2>1. ASSUME NEW g
        PROVE  [s \in SUBSET days |-> IF s = {} THEN 0
                                        ELSE checks[OneOf(s)][kind] + g[s \ {OneOf(s)}]]
                    = [s \in SUBSET days |-> IF s = {} THEN 0
                                        ELSE f[OneOf(s)] + g[s \ {OneOf(s)}]]
    <3>1. ASSUME NEW s \in SUBSET days
          PROVE  (IF s = {} THEN 0 ELSE checks[OneOf(s)][kind] + g[s \ {OneOf(s)}])
                 = (IF s = {} THEN 0 ELSE f[OneOf(s)] + g[s \ {OneOf(s)}])
      BY <1>2
    <3> QED BY <3>1, Zenon
  <2> QED BY <2>1, Zenon DEF Adds
<1>4. Addable(SUBSET days, f)
  BY <1>1, SumExists
<1>5. Adds(it, SUBSET days, f)
  <2>1. \E g : g = [s \in SUBSET days |->
                   IF s = {} THEN 0
                   ELSE checks[CHOOSE x \in s : TRUE][kind] + g[s \ {CHOOSE x \in s : TRUE}]]
    <3>1. PICK g : Adds(g, SUBSET days, f)
      BY <1>4 DEF Addable
    <3>2. g = [s \in SUBSET days |-> IF s = {} THEN 0
                                     ELSE checks[OneOf(s)][kind] + g[s \ {OneOf(s)}]]
      BY <1>3, <3>1, Zenon
    <3> QED BY <3>2, Zenon DEF OneOf
  <2>2. it = [s \in SUBSET days |->
                   IF s = {} THEN 0
                   ELSE checks[CHOOSE x \in s : TRUE][kind] + it[s \ {CHOOSE x \in s : TRUE}]]
    BY <2>1, Zenon
  <2> HIDE DEF it
  <2>3. it = [s \in SUBSET days |-> IF s = {} THEN 0
                                    ELSE checks[OneOf(s)][kind] + it[s \ {OneOf(s)}]]
    BY <2>2, Zenon DEF OneOf
  <2> QED BY <1>3, <2>3, Zenon
<1>6. MapThenSumSet(LAMBDA d : checks[d][kind], days) = it[days]
  BY Zenon DEF MapThenSumSet, MapThenFoldSet
<1> HIDE DEF it
<1>7. it[days] \in Nat
  BY <1>1, <1>5, SumTyped
<1>8. Total(checks, days)[kind] = MapThenSumSet(LAMBDA d : checks[d][kind], days)
  BY Zenon DEF Total
<1> QED BY <1>6, <1>7, <1>8

(* Once the worker has judged, its incident says of the checks that are    *)
(* counted now what it said of those it counted.                           *)
Judged ==
  judged /\ ~(Checks(Query(recorded, objective.window)) < MinChecks) =>
    (breachOpen <=> Breached(Query(recorded, objective.window), objective.target))
ReliabilityInv ==
  /\ today \in Days /\ recorded \in [Days -> Counts]
  /\ objective \in [target : Targets, window : Windows]
  /\ Judged

(* Unless the failures use it up exactly, it does not matter which of the  *)
(* computed budgets they are compared with.                                *)
LEMMA VerdictsCompare ==
  ASSUME NEW found, found.failed > 0, NEW target, ~UsedUp(found, target),
         ~(Checks(found) < MinChecks)
  PROVE  SloStatus(found, target) = "breached" <=> Breached(found, target)
<1>1. Left(found, target, PageError(target)) <=> Left(found, target, WorkerError(target))
  BY DEF Left
<1> QED BY <1>1 DEF SloStatus, Breached

LEMMA InvAgrees == ReliabilityInv => VerdictsAgree
<1> SUFFICES ASSUME ReliabilityInv, Comparable, ~UsedUp(Counted, objective.target),
                    NEW status \in OnPage(objective.window, Own)
             PROVE  breachOpen <=> status = "breached"
  BY DEF VerdictsAgree
<1>1. Checks(Counted) \in Int /\ MinChecks \in Int
  <2>1. Counted.healthy \in Nat /\ Counted.failed \in Nat
    BY TotalIsNat DEF Counted, Query, InWindow, ReliabilityInv
  <2> QED BY <2>1, ReliabilityAssumption DEF Checks
<1>2. ~(Checks(Counted) < MinChecks) /\ Counted.failed > 0
  BY <1>1 DEF Comparable
<1>3. ReadByPage(objective.window) = {Counted}
  BY DEF ReadByPage, Counted, Comparable
<1>4. status = SloStatus(Counted, objective.target)
  BY <1>3 DEF OnPage, Own
<1>5. breachOpen <=> Breached(Counted, objective.target)
  BY <1>2 DEF ReliabilityInv, Judged, Comparable, Counted
<1> QED BY <1>2, <1>4, <1>5, VerdictsCompare

LEMMA ReliabilityKept ==
  ASSUME ReliabilityInv, [ReliabilityNext]_reliabilityVars
  PROVE  ReliabilityInv'
<1> DEFINE Same == /\ UNCHANGED <<today, recorded, keptFrom, objective, breachOpen, judged>>
<1>1. ASSUME Same
      PROVE  ReliabilityInv'
  BY <1>1 DEF ReliabilityInv, Judged, Query, InWindow, Days
<1>2. CASE ProbeStarts
  BY <1>1, <1>2 DEF ProbeStarts
<1>3. CASE ProbeLost
  BY <1>1, <1>3 DEF ProbeLost
<1>4. CASE DayPasses
  <2>1. today' \in Days /\ ~judged' /\ UNCHANGED <<recorded, objective>>
    <3>1. today \in 0..MaxDays /\ MaxDays \in Nat /\ today < MaxDays /\ today' = today + 1
      BY <1>4, ReliabilityAssumption DEF DayPasses, ReliabilityInv, Days
    <3>2. today' \in 0..MaxDays
      BY <3>1
    <3> QED BY <1>4, <3>2 DEF DayPasses, Days
  <2> QED BY <2>1 DEF ReliabilityInv, Judged, Days
<1>5. CASE ChecksExpire
  BY <1>5 DEF ChecksExpire, ReliabilityInv, Judged, Days
<1>6. ASSUME NEW target \in Targets, NEW window \in Windows,
             EditObjective([target |-> target, window |-> window])
      PROVE  ReliabilityInv'
  BY <1>6 DEF EditObjective, ReliabilityInv, Judged, Days
<1>7. ASSUME NEW outcome \in {"healthy", "failed"}, ProbeEnds(outcome)
      PROVE  ReliabilityInv'
  <2>1. recorded' \in [Days -> Counts]
    <3>1. recorded' = [recorded EXCEPT ![today][outcome] = @ + 1]
      BY <1>7 DEF ProbeEnds
    <3>2. recorded[today] \in Counts
      BY DEF ReliabilityInv
    <3>3. [recorded[today] EXCEPT ![outcome] = @ + 1] \in Counts
      BY <3>2 DEF Counts
    <3> QED BY <3>1, <3>3 DEF ReliabilityInv
  <2>2. probing' = NoProbe /\ UNCHANGED <<today, keptFrom, objective>>
        /\ judged' = (probing = objective)
        /\ breachOpen' = Judge(Query(recorded', probing.window), probing.target)
    BY <1>7 DEF ProbeEnds
  <2>3. Judged'
    <3>1. SUFFICES ASSUME judged', ~(Checks(Query(recorded, objective.window)') < MinChecks)
                   PROVE  breachOpen' <=> Breached(Query(recorded, objective.window)', objective.target)
      BY <2>2 DEF Judged, Checks, Breached, Left, UsedUp, Budget, Digits, WorkerError, Rounded
    <3>2. probing = objective
      BY <2>2, <3>1
    <3>3. Query(recorded, objective.window)' = Query(recorded', probing.window)
      BY <2>2, <3>2 DEF Query, InWindow, Days
    <3> QED BY <2>2, <3>1, <3>2, <3>3 DEF Judge
  <2> QED BY <2>1, <2>2, <2>3 DEF ReliabilityInv, Days
<1>8. CASE UNCHANGED reliabilityVars
  BY <1>1, <1>8 DEF reliabilityVars
<1> QED BY <1>2, <1>3, <1>4, <1>5, <1>6, <1>7, <1>8 DEF ReliabilityNext

(* The incident the worker keeps and the page of objectives agree on a     *)
(* breach once the worker judged by the objective there is, for any        *)
(* objective and page, unless the failures use the budget up exactly.      *)
THEOREM VerdictsAgreeHolds == ReliabilitySpec => []VerdictsAgree
<1>1. ReliabilityInit => ReliabilityInv
  <2> SUFFICES ASSUME ReliabilityInit PROVE ReliabilityInv
    OBVIOUS
  <2>1. PICK n \in Earlier : recorded = [[d \in Days |-> NoChecks] EXCEPT ![0].healthy = n]
    BY DEF ReliabilityInit
  <2>2. n \in Nat /\ 0 \in Days
    <3>1. Earlier \subseteq Nat /\ MaxDays \in Nat
      BY ReliabilityAssumption, SMTT(60)
    <3> QED BY <3>1 DEF Days
  <2>3. recorded \in [Days -> Counts]
    BY <2>1, <2>2 DEF NoChecks, Counts
  <2> QED BY <2>2, <2>3 DEF ReliabilityInit, ReliabilityInv, Judged
<1>2. ReliabilityInv /\ [ReliabilityNext]_reliabilityVars => ReliabilityInv'
  BY ReliabilityKept
<1> QED BY <1>1, <1>2, InvAgrees, PTL DEF ReliabilitySpec
-----------------------------------------------------------------------------
(* Automation.                                                              *)

IsList(s) == s \in Seq(ToSet(s))

LEMMA AppendedList ==
  ASSUME NEW s, IsList(s), NEW x
  PROVE  /\ IsList(Append(s, x)) /\ ToSet(Append(s, x)) = ToSet(s) \cup {x}
         /\ Len(s) \in Nat /\ Len(Append(s, x)) = Len(s) + 1
         /\ DOMAIN s = 1..Len(s) /\ DOMAIN Append(s, x) = 1..(Len(s) + 1)
         /\ \A i \in 1..Len(s) : Append(s, x)[i] = s[i]
         /\ Append(s, x)[Len(s) + 1] = x
<1> DEFINE S == ToSet(s) \cup {x}
           t == Append(s, x)
<1>1. s \in Seq(S) /\ x \in S
  BY DEF IsList
<1>2. /\ t \in Seq(S) /\ Len(t) = Len(s) + 1 /\ \A i \in 1..Len(s) : t[i] = s[i]
      /\ t[Len(s) + 1] = x /\ Len(s) \in Nat /\ DOMAIN s = 1..Len(s) /\ DOMAIN t = 1..Len(t)
  <2> HIDE DEF S
  <2> QED BY <1>1, AppendProperties, LenProperties
<1>3. ToSet(t) = S
  <2> HIDE DEF t
  <2> QED BY <1>2 DEF ToSet
<1> QED BY <1>2, <1>3 DEF IsList

LEMMA TailList ==
  ASSUME NEW s, IsList(s), s # <<>>
  PROVE  IsList(Tail(s)) /\ ToSet(Tail(s)) \subseteq ToSet(s) /\ Head(s) \in ToSet(s)
<1>1. /\ Head(s) \in ToSet(s) /\ Tail(s) \in Seq(ToSet(s)) /\ Len(Tail(s)) = Len(s) - 1
      /\ \A i \in 1..Len(Tail(s)) : Tail(s)[i] = s[i + 1]
  BY HeadTailProperties DEF IsList
<1> DEFINE t == Tail(s)
<1>2. DOMAIN t = 1..Len(t) /\ Len(t) \in Nat /\ t \in [1..Len(t) -> ToSet(s)]
  BY <1>1, LenProperties
<1>3. \A i \in 1..Len(t) : t[i] \in ToSet(t)
  <2> HIDE DEF t
  <2> QED BY <1>2 DEF ToSet
<1>4. t \in [1..Len(t) -> ToSet(t)]
  <2> HIDE DEF t
  <2> QED BY <1>2, <1>3
<1>5. t \in Seq(ToSet(t))
  <2> HIDE DEF t
  <2> QED BY <1>2, <1>4, SeqDef
<1>6. ToSet(t) \subseteq ToSet(s)
  <2> HIDE DEF t
  <2> QED BY <1>2 DEF ToSet
<1> QED BY <1>1, <1>5, <1>6 DEF IsList

(* What a request adds to the attempts.                                     *)
LEMMA RecordedBy ==
  ASSUME IsList(attemptsMade), NEW r, NEW result, Records(r, result)
  PROVE  /\ IsList(attemptsMade')
         /\ \A a \in ToSet(attemptsMade)' \ ToSet(attemptsMade) :
              a = [event |-> r.event, from |-> r.from, code |-> result.code]
         /\ ToSet(attemptsMade) \subseteq ToSet(attemptsMade)'
         /\ Len(attemptsMade) \in Nat /\ Len(attemptsMade)' \in Nat
         /\ Len(attemptsMade) <= Len(attemptsMade)'
<1> DEFINE x == [event |-> r.event, from |-> r.from, code |-> result.code]
<1>0. Len(attemptsMade) \in Nat
  BY AppendedList
<1>1. CASE attemptsMade' = attemptsMade
  BY <1>0, <1>1 DEF IsList, ToSet
<1>2. CASE attemptsMade' = Append(attemptsMade, x)
  <2>1. /\ IsList(Append(attemptsMade, x)) /\ ToSet(Append(attemptsMade, x)) = ToSet(attemptsMade) \cup {x}
        /\ Len(Append(attemptsMade, x)) = Len(attemptsMade) + 1
    BY AppendedList
  <2>2. /\ IsList(attemptsMade') /\ ToSet(attemptsMade)' = ToSet(attemptsMade) \cup {x}
        /\ Len(attemptsMade)' = Len(attemptsMade) + 1
    BY <1>2, <2>1 DEF IsList, ToSet
  <2> QED BY <1>0, <2>2
<1> QED BY <1>1, <1>2 DEF Records

(* How many attempts of an event there are.                                 *)
LEMMA OneAttemptMore ==
  ASSUME IsList(attemptsMade), NEW event, NEW x, attemptsMade' = Append(attemptsMade, x)
  PROVE  /\ Before(event) \in Nat
         /\ x.event = event => Before(event)' = Before(event) + 1
         /\ x.event # event => Before(event)' = Before(event)
<1> DEFINE n == Len(attemptsMade)
           Of(s) == {i \in DOMAIN s : s[i].event = event}
           t == Append(attemptsMade, x)
<1>1. /\ n \in Nat /\ DOMAIN attemptsMade = 1..n /\ DOMAIN t = 1..(n + 1)
      /\ \A i \in 1..n : t[i] = attemptsMade[i]
      /\ t[n + 1] = x
  BY AppendedList
<1>2. IsFiniteSet(Of(attemptsMade)) /\ n + 1 \notin Of(attemptsMade)
  <2>1. IsFiniteSet(1..n)
    <3>1. n \in Int /\ 1 \in Int
      BY <1>1
    <3> HIDE DEF n
    <3> QED BY <3>1, FS_Interval
  <2>2. Of(attemptsMade) \subseteq 1..n
    BY <1>1
  <2>3. n + 1 \notin 1..n
    BY <1>1
  <2> QED BY <2>1, <2>2, <2>3, FS_Subset
<1>3. x.event = event => Of(t) = Of(attemptsMade) \cup {n + 1}
  <2> HIDE DEF t, n
  <2> QED BY <1>1
<1>4. x.event # event => Of(t) = Of(attemptsMade)
  <2> HIDE DEF t, n
  <2> QED BY <1>1
<1>5. /\ Cardinality(Of(attemptsMade)) \in Nat
      /\ Cardinality(Of(attemptsMade) \cup {n + 1}) = Cardinality(Of(attemptsMade)) + 1
  BY <1>2, FS_CardinalityType, FS_AddElement
<1> QED BY <1>3, <1>4, <1>5 DEF Before
-----------------------------------------------------------------------------

WithRequest == {"sent", "answered", "printed"}
Numbered(job) == job.stage \in {"trying", "asked", "authorised"} \cup WithRequest
Number(job) == IF job.stage \in WithRequest THEN job.request.from ELSE job.from
OwnEvent(job) == <<"evt_ht", Number(job)>>
OwnAttempt(job) ==
  [event |-> job.request.event, from |-> job.request.from, code |-> job.code]

JobShape(job) ==
  /\ job.stage \in {"none", "trying", "asked", "authorised", "refused"} \cup WithRequest
  /\ job.stage = "trying" =>
       /\ DOMAIN job = {"stage", "from", "expect", "actual", "event", "token", "steady"}
       /\ IsList(job.actual) /\ job.expect \in Seq(Nat) /\ job.event[1] # "evt_ht"
  /\ job.stage \in {"asked", "authorised"} => DOMAIN job = {"stage", "from", "key"}
  /\ job.stage \in WithRequest => job.request.event = OwnEvent(job)
Shapes ==
  /\ DOMAIN jobs = Jobs /\ spent \in [jobs : Nat, line : Nat, keys : Nat, lost : Nat]
  /\ IsList(attemptsMade) /\ IsList(belated)
  /\ \A j \in Jobs : JobShape(jobs[j])

(* Jobs have numbers of their own, and what they send carries it: in the    *)
(* event, too, if it is a synthetic one.                                    *)
JobNumbers ==
  /\ \A j \in Jobs : Numbered(jobs[j]) => Number(jobs[j]) \in Nat /\ Number(jobs[j]) < spent.jobs
  /\ \A i, j \in Jobs : i # j /\ Numbered(jobs[i]) /\ Numbered(jobs[j])
                       => Number(jobs[i]) # Number(jobs[j])
Posted == \A r \in ToSet(belated) :
            r.from \in Nat /\ r.from < spent.jobs /\ r.event[1] # "evt_ht"
Marked == \A a \in ToSet(attemptsMade) :
            /\ a.from \in Nat /\ a.from < spent.jobs
            /\ a.event[1] = "evt_ht" => a.event = <<"evt_ht", a.from>>
Numbers == JobNumbers /\ Posted /\ Marked

(* A synthetic event is recorded once, with the status it is answered with. *)
Once(job) ==
  /\ job.stage \in {"asked", "authorised", "sent"}
     => \A a \in ToSet(attemptsMade) : a.event # OwnEvent(job)
  /\ job.stage = "answered"
     => \A a \in ToSet(attemptsMade) : a.event = OwnEvent(job) => a = OwnAttempt(job)
  /\ job.stage = "printed"
     => job.found \subseteq {OwnAttempt(job)} /\ (job.accepted <=> job.found # {})
SyntheticOnce == \A j \in Jobs : Once(jobs[j])

(* A trial on a route that does not change is the scenario, as far as it    *)
(* went, if nobody else uses its event and each request is answered.        *)
Undisturbed(job) ==
  /\ job.steady /\ NoAnswer \notin ToSet(job.actual) /\ Len(attemptsMade) < DailyLimit
  /\ \A a \in ToSet(attemptsMade) : a.event = job.event => a.from = job.from
InScenario(job) ==
  /\ Before(job.event) = Len(job.actual)
  /\ \A i \in 1..Len(job.actual) : job.actual[i] = resolveScenarioStep(i)
TrialJob(job) ==
  /\ job.steady => PlainTrial /\ job.token = line.token
  /\ \A r \in ToSet(belated) : r.from = job.from => NoAnswer \in ToSet(job.actual)
  /\ Undisturbed(job) => InScenario(job)
TrialsFollow == \A j \in Jobs : jobs[j].stage = "trying" => TrialJob(jobs[j])

AutomationInv == Shapes /\ Numbers /\ SyntheticOnce /\ TrialsFollow

LEMMA AutomationStarts == AutomationInit => AutomationInv
<1> SUFFICES ASSUME AutomationInit PROVE AutomationInv
  OBVIOUS
<1>1. \A j \in Jobs : jobs[j].stage = "none"
  BY DEF AutomationInit, NoJob
<1>2. IsList(<<>>) /\ ToSet(<<>>) = {}
  BY DEF IsList, ToSet
<1>3. attemptsMade = <<>> /\ belated = <<>>
  BY DEF AutomationInit
<1>4. Shapes
  BY <1>1, <1>2, <1>3 DEF Shapes, JobShape, AutomationInit, WithRequest
<1>5. Numbers
  BY <1>1, <1>2, <1>3 DEF Numbers, JobNumbers, Posted, Marked, Numbered, WithRequest
<1> QED BY <1>1, <1>4, <1>5 DEF AutomationInv, SyntheticOnce, Once, TrialsFollow
-----------------------------------------------------------------------------
(* What the actions do to the jobs.                                         *)

LEMMA JobSet ==
  ASSUME Shapes, NEW j \in Jobs, NEW x, jobs' = [jobs EXCEPT ![j] = x]
  PROVE  DOMAIN jobs' = Jobs /\ jobs'[j] = x /\ \A i \in Jobs \ {j} : jobs'[i] = jobs[i]
BY DEF Shapes

(* A job begins, with the next number.                                      *)
Begins(j) ==
  AskFromPage(j) \/ (\E c \in Configs : ParseTrialConfig(j, c)) \/ \E k \in ApiKeys : AskWithKey(j, k)
LEMMA Beginning ==
  ASSUME Shapes, NEW j \in Jobs, Begins(j)
  PROVE  /\ DOMAIN jobs' = Jobs /\ \A i \in Jobs \ {j} : jobs'[i] = jobs[i]
         /\ JobShape(jobs'[j]) /\ Numbered(jobs'[j]) /\ Number(jobs'[j]) = spent.jobs
         /\ jobs'[j].stage \in {"trying", "asked", "authorised"}
         /\ jobs'[j].stage = "trying" => jobs'[j].actual = <<>> /\ jobs'[j].from = spent.jobs
                /\ jobs'[j].token = line.token /\ jobs'[j].steady = PlainTrial
         /\ spent' \in [jobs : Nat, line : Nat, keys : Nat, lost : Nat]
         /\ spent'.jobs = spent.jobs + 1 /\ UNCHANGED <<line, attemptsMade, belated>>
<1>1. /\ spent' \in [jobs : Nat, line : Nat, keys : Nat, lost : Nat]
      /\ spent'.jobs = spent.jobs + 1
  <2>1. spent' = [spent EXCEPT !["jobs"] = spent["jobs"] + 1]
    BY DEF Begins, ParseTrialConfig, AskFromPage, AskWithKey, Spent
  <2>2. spent \in [jobs : Nat, line : Nat, keys : Nat, lost : Nat]
    BY DEF Shapes
  <2> QED BY <2>1, <2>2
<1>2. ASSUME NEW c \in Configs, ParseTrialConfig(j, c)
      PROVE  /\ DOMAIN jobs' = Jobs /\ \A i \in Jobs \ {j} : jobs'[i] = jobs[i]
             /\ JobShape(jobs'[j]) /\ Numbered(jobs'[j]) /\ Number(jobs'[j]) = spent.jobs
             /\ jobs'[j].stage = "trying" /\ jobs'[j].actual = <<>> /\ jobs'[j].from = spent.jobs
             /\ jobs'[j].token = line.token /\ jobs'[j].steady = PlainTrial
  <2> DEFINE e == IF c.event = "" THEN <<"ht-ci", now>> ELSE <<c.event, 0>>
             x == [stage |-> "trying", from |-> spent.jobs, expect |-> c.expect, actual |-> <<>>,
                   event |-> e, token |-> line.token, steady |-> PlainTrial]
  <2>1. jobs' = [jobs EXCEPT ![j] = x]
    BY <1>2 DEF ParseTrialConfig
  <2>2. c.expect \in Seq(Nat) /\ e[1] # "evt_ht" /\ IsList(<<>>)
    <3>1. c.expect \in Seq(Nat) /\ c.event # "evt_ht"
      BY AutomationAssumption
    <3>2. <<"ht-ci", now>>[1] # "evt_ht" /\ <<c.event, 0>>[1] # "evt_ht"
      BY <3>1
    <3>3. IsList(<<>>)
      BY DEF IsList
    <3> QED BY <3>1, <3>2, <3>3
  <2> HIDE DEF e
  <2>3. JobShape(x) /\ Numbered(x) /\ Number(x) = spent.jobs
    BY <2>2 DEF JobShape, Numbered, Number, WithRequest
  <2>4. DOMAIN jobs' = Jobs /\ jobs'[j] = x /\ \A i \in Jobs \ {j} : jobs'[i] = jobs[i]
    <3> HIDE DEF x
    <3> QED BY <2>1, JobSet
  <2> QED BY <2>3, <2>4
<1>3. ASSUME NEW x, NEW s \in {"asked", "authorised"}, NEW k,
             x = [stage |-> s, from |-> spent.jobs, key |-> k], jobs' = [jobs EXCEPT ![j] = x]
      PROVE  /\ DOMAIN jobs' = Jobs /\ \A i \in Jobs \ {j} : jobs'[i] = jobs[i]
             /\ JobShape(jobs'[j]) /\ Numbered(jobs'[j]) /\ Number(jobs'[j]) = spent.jobs
             /\ jobs'[j].stage \in {"asked", "authorised"}
  <2>1. JobShape(x) /\ Numbered(x) /\ Number(x) = spent.jobs
    BY <1>3 DEF JobShape, Numbered, Number, WithRequest
  <2>2. DOMAIN jobs' = Jobs /\ jobs'[j] = x /\ \A i \in Jobs \ {j} : jobs'[i] = jobs[i]
    BY <1>3, JobSet
  <2> QED BY <1>3, <2>1, <2>2
<1>4. ASSUME AskFromPage(j) \/ \E k \in ApiKeys : AskWithKey(j, k)
      PROVE  \E k, s :
               /\ s \in {"asked", "authorised"}
               /\ jobs' = [jobs EXCEPT ![j] = [stage |-> s, from |-> spent.jobs, key |-> k]]
  BY <1>4 DEF AskFromPage, AskWithKey
<1>5. UNCHANGED <<line, attemptsMade, belated>>
  BY DEF Begins, ParseTrialConfig, AskFromPage, AskWithKey
<1>6. CASE \E c \in Configs : ParseTrialConfig(j, c)
  BY <1>1, <1>2, <1>5, <1>6
<1>7. CASE AskFromPage(j) \/ \E k \in ApiKeys : AskWithKey(j, k)
  <2>1. PICK k, s :
          /\ s \in {"asked", "authorised"}
          /\ jobs' = [jobs EXCEPT ![j] = [stage |-> s, from |-> spent.jobs, key |-> k]]
    BY <1>4, <1>7
  <2> DEFINE x == [stage |-> s, from |-> spent.jobs, key |-> k]
  <2>2. /\ DOMAIN jobs' = Jobs /\ \A i \in Jobs \ {j} : jobs'[i] = jobs[i]
        /\ JobShape(jobs'[j]) /\ Numbered(jobs'[j]) /\ Number(jobs'[j]) = spent.jobs
        /\ jobs'[j].stage \in {"asked", "authorised"}
    <3> HIDE DEF x
    <3> QED BY <1>3, <2>1 DEF x
  <2> QED BY <1>1, <1>5, <2>2
<1> QED BY <1>6, <1>7 DEF Begins

(* A trial takes one more answer.                                           *)
LEMMA Seeing ==
  ASSUME Shapes, NEW j \in Jobs, jobs[j].stage = "trying", NEW code, Saw(j, code)
  PROVE  /\ DOMAIN jobs' = Jobs /\ \A i \in Jobs \ {j} : jobs'[i] = jobs[i]
         /\ JobShape(jobs'[j]) /\ jobs'[j].actual = Append(jobs[j].actual, code)
         /\ jobs'[j].stage = "trying" /\ jobs'[j].from = jobs[j].from
         /\ jobs'[j].event = jobs[j].event /\ jobs'[j].token = jobs[j].token
         /\ jobs'[j].steady = jobs[j].steady
<1> DEFINE x == [jobs[j] EXCEPT !.actual = Append(@, code)]
<1>1. jobs' = [jobs EXCEPT ![j] = x]
  BY DEF Saw
<1>2. DOMAIN jobs' = Jobs /\ jobs'[j] = x /\ \A i \in Jobs \ {j} : jobs'[i] = jobs[i]
  <2> HIDE DEF x
  <2> QED BY <1>1, JobSet
<1>3. JobShape(jobs[j])
  BY DEF Shapes
<1>4. IsList(Append(jobs[j].actual, code))
  BY <1>3, AppendedList DEF JobShape
<1>5. /\ x.actual = Append(jobs[j].actual, code) /\ x.stage = "trying" /\ x.from = jobs[j].from
      /\ x.event = jobs[j].event /\ x.token = jobs[j].token /\ x.steady = jobs[j].steady
      /\ x.expect = jobs[j].expect
      /\ DOMAIN x = DOMAIN jobs[j]
  BY <1>3 DEF JobShape
<1> HIDE DEF x
<1>6. JobShape(x)
  BY <1>3, <1>4, <1>5 DEF JobShape, WithRequest
<1> QED BY <1>2, <1>5, <1>6

(* The route changes under the trials.                                      *)
Unsteady ==
  jobs' = [i \in Jobs |-> IF jobs[i].stage = "trying" THEN [jobs[i] EXCEPT !.steady = FALSE]
                          ELSE jobs[i]]
LEMMA Unsteadied ==
  ASSUME Shapes, NEW j \in Jobs,
         Unsteady
  PROVE  /\ DOMAIN jobs' = Jobs /\ JobShape(jobs'[j])
         /\ jobs[j].stage # "trying" => jobs'[j] = jobs[j]
         /\ jobs[j].stage = "trying"
            => /\ jobs'[j].stage = "trying" /\ ~jobs'[j].steady
               /\ jobs'[j].actual = jobs[j].actual /\ jobs'[j].from = jobs[j].from
<1> DEFINE x == [jobs[j] EXCEPT !.steady = FALSE]
<1>1. JobShape(jobs[j]) /\ DOMAIN jobs' = Jobs
  BY DEF Shapes, Unsteady
<1>2. CASE jobs[j].stage = "trying"
  <2>1. jobs'[j] = x
    BY <1>2 DEF Unsteady
  <2>2. /\ x.stage = "trying" /\ x.steady = FALSE /\ x.actual = jobs[j].actual
        /\ x.from = jobs[j].from /\ x.event = jobs[j].event /\ x.expect = jobs[j].expect
        /\ DOMAIN x = DOMAIN jobs[j]
    BY <1>1, <1>2 DEF JobShape
  <2> HIDE DEF x
  <2>3. JobShape(x)
    BY <1>1, <1>2, <2>2 DEF JobShape, WithRequest
  <2> QED BY <1>1, <1>2, <2>1, <2>2, <2>3
<1> QED BY <1>1, <1>2 DEF Unsteady
(* A synthetic event goes its way: the job keeps its number.                *)
Proceeds(j) ==
  \/ RequireApiKey(j) \/ TriggerSyntheticEvent(j) \/ MissIngestor(j) \/ LookUp(j)
  \/ Report(j) \/ ReportTrial(j) \/ \E code \in Codes : ReachIngestor(j, code)
LEMMA Proceeding ==
  ASSUME Shapes, NEW j \in Jobs, Proceeds(j)
  PROVE  /\ DOMAIN jobs' = Jobs /\ \A i \in Jobs \ {j} : jobs'[i] = jobs[i]
         /\ JobShape(jobs'[j]) /\ jobs'[j].stage # "trying" /\ UNCHANGED <<line, belated, spent>>
         /\ Numbered(jobs'[j]) => Numbered(jobs[j]) /\ Number(jobs'[j]) = Number(jobs[j])
         /\ jobs'[j].stage = "authorised" => jobs[j].stage = "asked"
         /\ jobs'[j].stage = "sent" => jobs[j].stage = "authorised"
         /\ jobs'[j].stage \in {"none", "authorised", "refused"} \cup WithRequest
<1> DEFINE Does(x) ==
      /\ JobShape(x) /\ x.stage # "trying" /\ x.stage \in {"none", "authorised", "refused"} \cup WithRequest
      /\ Numbered(x) => Numbered(jobs[j]) /\ Number(x) = Number(jobs[j])
      /\ x.stage = "authorised" => jobs[j].stage = "asked"
      /\ x.stage = "sent" => jobs[j].stage = "authorised"
<1>0. JobShape(jobs[j]) /\ UNCHANGED <<line, belated, spent>>
  BY DEF Shapes, Proceeds, RequireApiKey, TriggerSyntheticEvent, MissIngestor, LookUp, Report,
     ReportTrial, ReachIngestor, Frees
<1>1. ASSUME NEW x, jobs' = [jobs EXCEPT ![j] = x], Does(x)
      PROVE  /\ DOMAIN jobs' = Jobs /\ \A i \in Jobs \ {j} : jobs'[i] = jobs[i]
             /\ Does(jobs'[j])
  BY <1>1, JobSet
<1>2. Does(NoJob)
  BY DEF NoJob, JobShape, Numbered, WithRequest
<1>3. CASE Report(j) \/ ReportTrial(j)
  BY <1>0, <1>1, <1>2, <1>3 DEF Report, ReportTrial, Frees
<1>4. CASE RequireApiKey(j)
  <2> DEFINE s == IF MayUse(jobs[j].key, "write") THEN "authorised" ELSE "refused"
             x == [jobs[j] EXCEPT !.stage = s]
  <2>1. jobs' = [jobs EXCEPT ![j] = x] /\ jobs[j].stage = "asked"
    BY <1>4 DEF RequireApiKey
  <2>2. s \in {"authorised", "refused"}
    OBVIOUS
  <2> HIDE DEF s
  <2>3. x.stage = s /\ x.from = jobs[j].from /\ DOMAIN x = {"stage", "from", "key"}
    BY <1>0, <2>1 DEF JobShape
  <2> HIDE DEF x
  <2>4. Does(x)
    BY <2>1, <2>2, <2>3 DEF JobShape, Numbered, Number, WithRequest
  <2> QED BY <1>0, <1>1, <2>1, <2>4
<1>5. CASE TriggerSyntheticEvent(j)
  <2>1. jobs[j].stage = "authorised"
    BY <1>5 DEF TriggerSyntheticEvent
  <2>2. CASE jobs' = [jobs EXCEPT ![j] = [jobs[j] EXCEPT !.stage = "refused"]]
    <3> DEFINE x == [jobs[j] EXCEPT !.stage = "refused"]
    <3>1. x.stage = "refused"
      BY <1>0, <2>1 DEF JobShape
    <3> HIDE DEF x
    <3>2. Does(x)
      BY <3>1 DEF JobShape, Numbered, WithRequest
    <3>3. jobs' = [jobs EXCEPT ![j] = x]
      BY <2>2 DEF x
    <3> QED BY <1>0, <1>1, <3>2, <3>3
  <2>3. CASE ~(jobs' = [jobs EXCEPT ![j] = [jobs[j] EXCEPT !.stage = "refused"]])
    <3> DEFINE n == jobs[j].from
               x == [stage |-> "sent", key |-> jobs[j].key, mode |-> line.mode,
                     request |-> [event |-> <<"evt_ht", n>>, from |-> n, token |-> line.token,
                                  signed |-> SyntheticSignature, shaped |-> ~line.exact]]
    <3>1. jobs' = [jobs EXCEPT ![j] = x]
      BY <1>5, <2>3 DEF TriggerSyntheticEvent
    <3>2. x.stage = "sent" /\ x.request.event = <<"evt_ht", n>> /\ x.request.from = n
      OBVIOUS
    <3> HIDE DEF x
    <3>3. Does(x)
      BY <2>1, <3>2 DEF JobShape, Numbered, Number, OwnEvent, WithRequest
    <3> QED BY <1>0, <1>1, <3>1, <3>3
  <2> QED BY <2>2, <2>3
<1>6. CASE MissIngestor(j)
  <2> DEFINE x == [stage |-> "refused", key |-> jobs[j].key]
  <2>1. jobs' = [jobs EXCEPT ![j] = x]
    BY <1>6 DEF MissIngestor
  <2>2. Does(x)
    BY DEF JobShape, Numbered, WithRequest
  <2> HIDE DEF x
  <2> QED BY <1>0, <1>1, <2>1, <2>2
<1>7. CASE LookUp(j)
  <2> DEFINE r == jobs[j].request
             x == [stage |-> "printed", key |-> jobs[j].key, mode |-> jobs[j].mode, request |-> r,
                   code |-> jobs[j].code, found |-> FoundFor(r), accepted |-> FoundFor(r) # {}]
  <2>1. jobs' = [jobs EXCEPT ![j] = x] /\ jobs[j].stage = "answered"
    BY <1>7 DEF LookUp
  <2>2. x.stage = "printed" /\ x.request = jobs[j].request
    OBVIOUS
  <2> HIDE DEF x
  <2>3. Does(x)
    BY <1>0, <2>1, <2>2 DEF JobShape, Numbered, Number, OwnEvent, WithRequest
  <2> QED BY <1>0, <1>1, <2>1, <2>3
<1>8. ASSUME NEW code \in Codes, ReachIngestor(j, code)
      PROVE  /\ DOMAIN jobs' = Jobs /\ \A i \in Jobs \ {j} : jobs'[i] = jobs[i]
             /\ Does(jobs'[j])
  <2> DEFINE c == Ingested(jobs[j].request, code).code
             x == [stage |-> "answered", key |-> jobs[j].key, mode |-> jobs[j].mode,
                   request |-> jobs[j].request, code |-> c]
  <2>1. jobs' = [jobs EXCEPT ![j] = x] /\ jobs[j].stage = "sent"
    BY <1>8 DEF ReachIngestor
  <2>2. x.stage = "answered" /\ x.request = jobs[j].request
    OBVIOUS
  <2> HIDE DEF x
  <2>3. Does(x)
    BY <1>0, <2>1, <2>2 DEF JobShape, Numbered, Number, OwnEvent, WithRequest
  <2> QED BY <1>1, <2>1, <2>3
<1> QED BY <1>0, <1>3, <1>4, <1>5, <1>6, <1>7, <1>8 DEF Proceeds

Tries(j) == AttemptAnswered(j) \/ AttemptUnanswered(j)
LEMMA Trials ==
  ASSUME Shapes, NEW j \in Jobs, Tries(j)
  PROVE  /\ jobs[j].stage = "trying" /\ \E code : Saw(j, code)
         /\ UNCHANGED line /\ UNCHANGED spent.jobs
BY DEF Tries, AttemptAnswered, AttemptUnanswered, Trying, Spent, Shapes
-----------------------------------------------------------------------------
(* What a request leaves behind.                                            *)

Grows(r) ==
  /\ IsList(attemptsMade') /\ ToSet(attemptsMade) \subseteq ToSet(attemptsMade)'
  /\ Len(attemptsMade) \in Nat /\ Len(attemptsMade)' \in Nat
  /\ Len(attemptsMade) <= Len(attemptsMade)'
  /\ \A a \in ToSet(attemptsMade)' \ ToSet(attemptsMade) : a.event = r.event /\ a.from = r.from
  /\ \/ UNCHANGED attemptsMade
     \/ \E x : /\ attemptsMade' = Append(attemptsMade, x) /\ x \in ToSet(attemptsMade)'
               /\ x.event = r.event /\ x.from = r.from

LEMMA Growing ==
  ASSUME IsList(attemptsMade), NEW r, UNCHANGED attemptsMade \/ \E result : Records(r, result)
  PROVE  Grows(r)
<1>1. CASE UNCHANGED attemptsMade
  <2>1. Len(attemptsMade) \in Nat
    BY AppendedList
  <2> QED BY <1>1, <2>1 DEF Grows, IsList, ToSet
<1>2. ASSUME NEW result, Records(r, result)
      PROVE  Grows(r)
  <2> DEFINE x == [event |-> r.event, from |-> r.from, code |-> result.code]
  <2>1. /\ IsList(attemptsMade') /\ Len(attemptsMade) \in Nat /\ Len(attemptsMade)' \in Nat
        /\ ToSet(attemptsMade) \subseteq ToSet(attemptsMade)'
        /\ Len(attemptsMade) <= Len(attemptsMade)'
        /\ \A a \in ToSet(attemptsMade)' \ ToSet(attemptsMade) : a = x
    BY <1>2, RecordedBy
  <2>2. UNCHANGED attemptsMade \/ attemptsMade' = Append(attemptsMade, x)
    BY <1>2 DEF Records
  <2>3. x.event = r.event /\ x.from = r.from
    OBVIOUS
  <2> HIDE DEF x
  <2>4. attemptsMade' = Append(attemptsMade, x) => x \in ToSet(attemptsMade')
    BY AppendedList
  <2>5. ToSet(attemptsMade') = ToSet(attemptsMade)'
    BY DEF ToSet
  <2> QED BY <2>1, <2>2, <2>3, <2>4, <2>5 DEF Grows
<1> QED BY <1>1, <1>2

(* A trial whose step it is not goes on as before.                          *)
LEMMA Elsewhere ==
  ASSUME Shapes, NEW i \in Jobs, jobs[i].stage = "trying", TrialJob(jobs[i]), jobs'[i] = jobs[i],
         NEW r, Grows(r), UNCHANGED line,
         \A q \in ToSet(belated)' : q \in ToSet(belated) \/ q.from # jobs[i].from,
         r.from # jobs[i].from \/ r \in ToSet(belated)
  PROVE  TrialJob(jobs[i])'
<1>1. jobs[i].steady => PlainTrial' /\ jobs[i].token = line'.token
  BY DEF TrialJob, PlainTrial
<1>2. \A q \in ToSet(belated)' : q.from = jobs[i].from => NoAnswer \in ToSet(jobs[i].actual)
  BY DEF TrialJob
<1>3. ASSUME Undisturbed(jobs[i])'
      PROVE  InScenario(jobs[i])'
  <2>1. Undisturbed(jobs[i])
    BY <1>3, AutomationAssumption DEF Undisturbed, Grows
  <2>2. InScenario(jobs[i]) /\ NoAnswer \notin ToSet(jobs[i].actual)
    BY <2>1 DEF TrialJob, Undisturbed
  <2>3. r.from # jobs[i].from
    BY <2>2 DEF TrialJob
  <2>4. Before(jobs[i].event)' = Before(jobs[i].event)
    <3>1. CASE UNCHANGED attemptsMade
      BY <3>1 DEF Before
    <3>2. ASSUME NEW x, attemptsMade' = Append(attemptsMade, x), x \in ToSet(attemptsMade)',
                 x.event = r.event, x.from = r.from
          PROVE  Before(jobs[i].event)' = Before(jobs[i].event)
      <4>1. x.event # jobs[i].event
        BY <1>3, <2>3, <3>2 DEF Undisturbed
      <4>2. IsList(attemptsMade)
        BY DEF Shapes
      <4>3. PICK e : e = jobs[i].event
        OBVIOUS
      <4>4. Before(e)' = Before(e)
        BY <3>2, <4>1, <4>2, <4>3, OneAttemptMore
      <4> QED BY <4>3, <4>4
    <3> QED BY <3>1, <3>2 DEF Grows
  <2> QED BY <2>2, <2>4 DEF InScenario
<1> QED BY <1>1, <1>2, <1>3 DEF TrialJob
LEMMA TrialSends ==
  ASSUME Shapes, NEW j \in Jobs, Tries(j)
  PROVE  /\ Grows(TrialRequest(jobs[j])) /\ IsList(belated')
         /\ \A q \in ToSet(belated)' : q \in ToSet(belated) \/ q = TrialRequest(jobs[j])
<1> DEFINE r == TrialRequest(jobs[j])
<1>0. IsList(attemptsMade) /\ IsList(belated)
  BY DEF Shapes
<1>1. UNCHANGED attemptsMade \/ \E result : Records(r, result)
  BY DEF Tries, AttemptAnswered, AttemptUnanswered
<1>2. UNCHANGED belated \/ belated' = Append(belated, r)
  BY DEF Tries, AttemptAnswered, AttemptUnanswered
<1> HIDE DEF r
<1>3. IsList(Append(belated, r)) /\ ToSet(Append(belated, r)) = ToSet(belated) \cup {r}
  BY <1>0, AppendedList
<1>4. IsList(belated') /\ \A q \in ToSet(belated)' : q \in ToSet(belated) \/ q = r
  BY <1>0, <1>2, <1>3 DEF IsList, ToSet
<1>5. Grows(r)
  BY <1>0, <1>1, Growing
<1> QED BY <1>4, <1>5 DEF r

LEMMA Arriving ==
  ASSUME Shapes, Arrives
  PROVE  /\ Head(belated) \in ToSet(belated) /\ Grows(Head(belated)) /\ IsList(belated')
         /\ ToSet(belated)' \subseteq ToSet(belated) /\ UNCHANGED <<line, jobs, spent>>
<1>1. IsList(attemptsMade) /\ IsList(belated) /\ belated # <<>> /\ belated' = Tail(belated)
  BY DEF Shapes, Arrives
<1>2. \E result : Records(Head(belated), result)
  BY DEF Arrives
<1>3. /\ Head(belated) \in ToSet(belated) /\ IsList(Tail(belated))
      /\ ToSet(Tail(belated)) \subseteq ToSet(belated)
  BY <1>1, TailList
<1>4. Grows(Head(belated))
  BY <1>1, <1>2, Growing
<1> QED BY <1>1, <1>3, <1>4 DEF Arrives, IsList, ToSet

(* Only an answer of the ingestor adds to the attempts here.                *)
LEMMA ProceedingSends ==
  ASSUME Shapes, NEW j \in Jobs, Proceeds(j)
  PROVE  \/ /\ UNCHANGED attemptsMade /\ jobs'[j].stage # "answered"
         \/ /\ jobs[j].stage = "sent" /\ jobs'[j].stage = "answered" /\ Grows(jobs[j].request)
            /\ jobs'[j].request = jobs[j].request
            /\ \A a \in ToSet(attemptsMade)' \ ToSet(attemptsMade) : a = OwnAttempt(jobs'[j])
<1>1. CASE \E code \in Codes : ReachIngestor(j, code)
  <2>1. PICK code \in Codes : ReachIngestor(j, code)
    BY <1>1
  <2> DEFINE r == jobs[j].request
             result == Ingested(r, code)
             x == [stage |-> "answered", key |-> jobs[j].key, mode |-> jobs[j].mode,
                   request |-> r, code |-> result.code]
  <2>2. jobs' = [jobs EXCEPT ![j] = x] /\ jobs[j].stage = "sent" /\ Records(r, result)
    BY <2>1 DEF ReachIngestor
  <2>3. x.stage = "answered" /\ x.request = r /\ x.code = result.code
    OBVIOUS
  <2> HIDE DEF x, result
  <2>4. jobs'[j] = x
    BY <2>2, JobSet
  <2>5. IsList(attemptsMade)
    BY DEF Shapes
  <2>6. Grows(r)
    BY <2>2, <2>5, Growing
  <2>7. \A a \in ToSet(attemptsMade)' \ ToSet(attemptsMade) : a = OwnAttempt(jobs'[j])
    BY <2>2, <2>3, <2>4, <2>5, RecordedBy DEF OwnAttempt
  <2> QED BY <2>2, <2>3, <2>4, <2>6, <2>7
<1>2. CASE RequireApiKey(j) \/ TriggerSyntheticEvent(j) \/ MissIngestor(j) \/ LookUp(j)
           \/ Report(j) \/ ReportTrial(j)
  <2>1. UNCHANGED attemptsMade
    BY <1>2 DEF RequireApiKey, TriggerSyntheticEvent, MissIngestor, LookUp, Report, ReportTrial, Frees
  <2>2. jobs'[j].stage # "answered"
    <3>1. JobShape(jobs[j]) /\ DOMAIN jobs = Jobs
      BY DEF Shapes
    <3>2. CASE RequireApiKey(j)
      BY <3>1, <3>2 DEF RequireApiKey, JobShape
    <3>3. CASE TriggerSyntheticEvent(j)
      BY <3>1, <3>3 DEF TriggerSyntheticEvent, JobShape
    <3>4. CASE MissIngestor(j) \/ LookUp(j)
      BY <3>1, <3>4 DEF MissIngestor, LookUp
    <3>5. CASE Report(j) \/ ReportTrial(j)
      BY <3>1, <3>5 DEF Report, ReportTrial, Frees, NoJob
    <3> QED BY <1>2, <3>2, <3>3, <3>4, <3>5
  <2> QED BY <2>1, <2>2
<1> QED BY <1>1, <1>2 DEF Proceeds

-----------------------------------------------------------------------------
(* The kinds of step.                                                       *)

LineChanges == (\E update \in LineUpdates : ChangeLine(update)) \/ RotateToken
Aside ==
  Passes \/ LeaveKeyPage \/ (\E k \in ApiKeys : CreateKey(k) \/ RevokeKey(k)) \/ UNCHANGED automationVars

LEMMA StepKinds ==
  ASSUME [TrialNext \/ SyntheticNext]_automationVars
  PROVE  \/ \E j \in Jobs : Begins(j) \/ Tries(j) \/ Proceeds(j)
         \/ Arrives \/ LineChanges \/ Aside
BY DEF TrialNext, SyntheticNext, Begins, Tries, Proceeds, LineChanges, Aside

LEMMA Changing ==
  ASSUME Shapes, LineChanges
  PROVE  /\ Unsteady
         /\ UNCHANGED <<attemptsMade, belated>>
         /\ spent' \in [jobs : Nat, line : Nat, keys : Nat, lost : Nat] /\ UNCHANGED spent.jobs
BY DEF LineChanges, ChangeLine, RotateToken, Spent, Shapes, Unsteady

LEMMA Standing ==
  ASSUME Shapes, Aside
  PROVE  /\ UNCHANGED <<line, jobs, attemptsMade, belated>>
         /\ spent' \in [jobs : Nat, line : Nat, keys : Nat, lost : Nat] /\ UNCHANGED spent.jobs
BY DEF Aside, Passes, LeaveKeyPage, CreateKey, RevokeKey, Spent, Shapes, automationVars

LEMMA ShapesKept ==
  ASSUME Shapes, [TrialNext \/ SyntheticNext]_automationVars
  PROVE  Shapes'
<1> DEFINE Totals == spent' \in [jobs : Nat, line : Nat, keys : Nat, lost : Nat]
<1>0. /\ IsList(attemptsMade) /\ IsList(belated) /\ DOMAIN jobs = Jobs
      /\ \A j \in Jobs : JobShape(jobs[j])
      /\ spent \in [jobs : Nat, line : Nat, keys : Nat, lost : Nat]
  BY DEF Shapes
<1>1. ASSUME NEW j \in Jobs, Begins(j)
      PROVE  Shapes'
  BY <1>0, <1>1, Beginning DEF Shapes
<1>2. ASSUME NEW j \in Jobs, Tries(j)
      PROVE  Shapes'
  <2>1. Totals
    BY <1>0, <1>2 DEF Tries, AttemptAnswered, AttemptUnanswered, Spent
  <2>2. PICK code : jobs[j].stage = "trying" /\ Saw(j, code)
    BY <1>2, Trials
  <2>3. DOMAIN jobs' = Jobs /\ \A i \in Jobs : JobShape(jobs'[i])
    BY <1>0, <2>2, Seeing
  <2>4. IsList(attemptsMade') /\ IsList(belated')
    BY <1>2, TrialSends DEF Grows
  <2> QED BY <2>1, <2>3, <2>4 DEF Shapes
<1>3. ASSUME NEW j \in Jobs, Proceeds(j)
      PROVE  Shapes'
  <2>1. IsList(attemptsMade')
    <3>1. UNCHANGED attemptsMade \/ Grows(jobs[j].request)
      BY <1>3, ProceedingSends
    <3> QED BY <1>0, <3>1 DEF Grows
  <2> QED BY <1>0, <1>3, <2>1, Proceeding DEF Shapes
<1>4. CASE Arrives
  BY <1>0, <1>4, Arriving DEF Shapes, Grows
<1>5. CASE LineChanges
  <2>1. DOMAIN jobs' = Jobs /\ \A i \in Jobs : JobShape(jobs'[i])
    <3>1. Unsteady
      BY <1>5, Changing
    <3>2. DOMAIN jobs' = Jobs
      BY <3>1 DEF Unsteady
    <3> QED BY <1>0, <3>1, <3>2, Unsteadied
  <2> QED BY <1>0, <1>5, <2>1, Changing DEF Shapes
<1>6. CASE Aside
  BY <1>0, <1>6, Standing DEF Shapes
<1> QED BY <1>1, <1>2, <1>3, <1>4, <1>5, <1>6, StepKinds
LEMMA JobNumbersKept ==
  ASSUME Shapes, JobNumbers, [TrialNext \/ SyntheticNext]_automationVars
  PROVE  JobNumbers' /\ spent'.jobs \in Nat /\ spent.jobs <= spent'.jobs
<1>0. spent.jobs \in Nat
  BY DEF Shapes
<1>1. ASSUME UNCHANGED spent.jobs,
             \A j \in Jobs : Numbered(jobs'[j])
                            => Numbered(jobs[j]) /\ Number(jobs'[j]) = Number(jobs[j])
      PROVE  JobNumbers'
  BY <1>1 DEF JobNumbers
<1>2. ASSUME NEW j \in Jobs, Begins(j)
      PROVE  JobNumbers' /\ spent'.jobs = spent.jobs + 1
  <2>1. /\ \A i \in Jobs \ {j} : jobs'[i] = jobs[i]
        /\ Number(jobs'[j]) = spent.jobs /\ spent'.jobs = spent.jobs + 1
    BY <1>2, Beginning
  <2>2. \A i \in Jobs : Numbered(jobs[i]) => Number(jobs[i]) \in Nat /\ Number(jobs[i]) < spent.jobs
    BY DEF JobNumbers
  <2>3. \A i \in Jobs : Numbered(jobs'[i]) => Number(jobs'[i]) \in Nat /\ Number(jobs'[i]) < spent'.jobs
    <3> TAKE i \in Jobs
    <3> QED BY <1>0, <2>1, <2>2
  <2>4. ASSUME NEW i \in Jobs, NEW k \in Jobs, i # k, Numbered(jobs'[i]), Numbered(jobs'[k])
        PROVE  Number(jobs'[i]) # Number(jobs'[k])
    <3>1. CASE i = j \/ k = j
      BY <1>0, <2>1, <2>2, <2>4, <3>1
    <3>2. CASE i # j /\ k # j
      BY <2>1, <2>4, <3>2 DEF JobNumbers
    <3> QED BY <3>1, <3>2
  <2> QED BY <2>1, <2>3, <2>4 DEF JobNumbers
<1>3. ASSUME NEW j \in Jobs, Tries(j)
      PROVE  JobNumbers' /\ UNCHANGED spent.jobs
  <2>1. PICK code : jobs[j].stage = "trying" /\ Saw(j, code)
    BY <1>3, Trials
  <2>2. jobs'[j].stage = "trying" /\ jobs'[j].from = jobs[j].from
        /\ \A i \in Jobs \ {j} : jobs'[i] = jobs[i]
    BY <2>1, Seeing
  <2>3. Numbered(jobs[j]) /\ Number(jobs'[j]) = Number(jobs[j])
    BY <2>1, <2>2 DEF Numbered, Number, WithRequest
  <2>4. UNCHANGED spent.jobs
    BY <1>3, Trials
  <2> QED BY <1>1, <2>2, <2>3, <2>4
<1>4. ASSUME NEW j \in Jobs, Proceeds(j)
      PROVE  JobNumbers' /\ UNCHANGED spent.jobs
  BY <1>1, <1>4, Proceeding
<1>5. ASSUME LineChanges
      PROVE  JobNumbers'
  <2>1. ASSUME NEW j \in Jobs, Numbered(jobs'[j])
        PROVE  Numbered(jobs[j]) /\ Number(jobs'[j]) = Number(jobs[j])
    <3>1. /\ jobs[j].stage # "trying" => jobs'[j] = jobs[j]
          /\ jobs[j].stage = "trying" => jobs'[j].stage = "trying" /\ jobs'[j].from = jobs[j].from
      BY <1>5, Changing, Unsteadied
    <3> QED BY <2>1, <3>1 DEF Numbered, Number, WithRequest
  <2> QED BY <1>1, <1>5, <2>1, Changing
<1>6. ASSUME Arrives \/ Aside
      PROVE  JobNumbers'
  BY <1>1, <1>6, Arriving, Standing
<1>7. CASE Arrives \/ LineChanges \/ Aside
  <2>1. UNCHANGED spent.jobs
    BY <1>7, Arriving, Changing, Standing
  <2> QED BY <1>0, <1>5, <1>6, <1>7, <2>1
<1> QED BY <1>0, <1>2, <1>3, <1>4, <1>7, StepKinds

LEMMA NumbersKept ==
  ASSUME Shapes, Numbers, [TrialNext \/ SyntheticNext]_automationVars
  PROVE  Numbers'
<1>0. JobNumbers' /\ spent'.jobs \in Nat /\ spent.jobs <= spent'.jobs /\ spent.jobs \in Nat
  BY JobNumbersKept DEF Numbers, Shapes
<1> DEFINE Posts(r) == r.from \in Nat /\ r.from < spent.jobs /\ r.event[1] # "evt_ht"
           Marks(a) == /\ a.from \in Nat /\ a.from < spent.jobs
                       /\ a.event[1] = "evt_ht" => a.event = <<"evt_ht", a.from>>
<1>1. (\A r \in ToSet(belated) : Posts(r)) /\ (\A a \in ToSet(attemptsMade) : Marks(a))
  BY DEF Numbers, Posted, Marked
<1>2. ASSUME \A r \in ToSet(belated)' : Posts(r), \A a \in ToSet(attemptsMade)' : Marks(a)
      PROVE  Numbers'
  <2>1. Posted'
    BY <1>0, <1>2 DEF Posted
  <2>2. Marked'
    BY <1>0, <1>2 DEF Marked
  <2> QED BY <1>0, <2>1, <2>2 DEF Numbers
<1>3. CASE (\E j \in Jobs : Begins(j)) \/ LineChanges \/ Aside
  <2>1. UNCHANGED <<attemptsMade, belated>>
    BY <1>3, Beginning, Changing, Standing
  <2> QED BY <1>1, <1>2, <2>1 DEF ToSet
<1>4. ASSUME NEW j \in Jobs, Tries(j)
      PROVE  Numbers'
  <2> DEFINE r == TrialRequest(jobs[j])
  <2>1. jobs[j].stage = "trying"
    BY <1>4, Trials
  <2>2. jobs[j].from \in Nat /\ jobs[j].from < spent.jobs
    BY <2>1 DEF Numbers, JobNumbers, Numbered, Number, WithRequest
  <2>3. jobs[j].event[1] # "evt_ht"
    BY <2>1 DEF Shapes, JobShape
  <2>4. r.from = jobs[j].from /\ r.event = jobs[j].event
    BY DEF TrialRequest
  <2> HIDE DEF r
  <2>5. Posts(r)
    BY <2>2, <2>3, <2>4
  <2>6. Grows(r) /\ \A q \in ToSet(belated)' : q \in ToSet(belated) \/ q = r
    BY <1>4, TrialSends DEF r
  <2>7. \A a \in ToSet(attemptsMade)' : Marks(a)
    <3> SUFFICES ASSUME NEW a \in ToSet(attemptsMade)', a \notin ToSet(attemptsMade)
                 PROVE  Marks(a)
      BY <1>1
    <3>1. a.event = r.event /\ a.from = r.from
      BY <2>6 DEF Grows
    <3> QED BY <2>5, <3>1
  <2> QED BY <1>1, <1>2, <2>5, <2>6, <2>7
<1>5. ASSUME NEW j \in Jobs, Proceeds(j)
      PROVE  Numbers'
  <2>1. \A r \in ToSet(belated)' : Posts(r)
    BY <1>1, <1>5, Proceeding DEF ToSet
  <2>2. \A a \in ToSet(attemptsMade)' : Marks(a)
    <3>1. CASE UNCHANGED attemptsMade
      BY <1>1, <3>1 DEF ToSet
    <3>2. CASE jobs[j].stage = "sent" /\ Grows(jobs[j].request)
      <4> SUFFICES ASSUME NEW a \in ToSet(attemptsMade)', a \notin ToSet(attemptsMade)
                   PROVE  Marks(a)
        BY <1>1
      <4>1. a.event = jobs[j].request.event /\ a.from = jobs[j].request.from
        BY <3>2 DEF Grows
      <4>2. /\ jobs[j].request.event = OwnEvent(jobs[j]) /\ Number(jobs[j]) = jobs[j].request.from
            /\ Number(jobs[j]) \in Nat /\ Number(jobs[j]) < spent.jobs
        BY <3>2 DEF Shapes, JobShape, Number, Numbered, Numbers, JobNumbers, WithRequest
      <4> QED BY <4>1, <4>2 DEF OwnEvent
    <3> QED BY <1>5, <3>1, <3>2, ProceedingSends
  <2> QED BY <1>2, <2>1, <2>2
<1>6. CASE Arrives
  <2>1. /\ Head(belated) \in ToSet(belated) /\ Grows(Head(belated))
        /\ ToSet(belated)' \subseteq ToSet(belated)
    BY <1>6, Arriving
  <2>2. Posts(Head(belated))
    BY <1>1, <2>1
  <2>3. \A a \in ToSet(attemptsMade)' : Marks(a)
    <3> SUFFICES ASSUME NEW a \in ToSet(attemptsMade)', a \notin ToSet(attemptsMade)
                 PROVE  Marks(a)
      BY <1>1
    <3>1. a.event = Head(belated).event /\ a.from = Head(belated).from
      BY <2>1 DEF Grows
    <3> QED BY <2>2, <3>1
  <2> QED BY <1>1, <1>2, <2>1, <2>3
<1> QED BY <1>3, <1>4, <1>5, <1>6, StepKinds
LEMMA Looked ==
  ASSUME Shapes, NEW j \in Jobs, Proceeds(j), jobs'[j].stage = "printed"
  PROVE  /\ jobs[j].stage = "answered" /\ jobs'[j].request = jobs[j].request
         /\ jobs'[j].code = jobs[j].code /\ jobs'[j].found = FoundFor(jobs[j].request)
         /\ jobs'[j].accepted = (FoundFor(jobs[j].request) # {})
<1>1. JobShape(jobs[j]) /\ DOMAIN jobs = Jobs
  BY DEF Shapes
<1>2. CASE RequireApiKey(j)
  BY <1>1, <1>2 DEF RequireApiKey, JobShape
<1>3. CASE TriggerSyntheticEvent(j)
  BY <1>1, <1>3 DEF TriggerSyntheticEvent, JobShape
<1>4. CASE MissIngestor(j) \/ \E code \in Codes : ReachIngestor(j, code)
  BY <1>1, <1>4 DEF MissIngestor, ReachIngestor
<1>5. CASE Report(j) \/ ReportTrial(j)
  BY <1>1, <1>5 DEF Report, ReportTrial, Frees, NoJob
<1>6. CASE LookUp(j)
  BY <1>1, <1>6 DEF LookUp
<1> QED BY <1>2, <1>3, <1>4, <1>5, <1>6 DEF Proceeds

LEMMA OnceAside ==
  ASSUME NEW job, Once(job),
         \A a \in ToSet(attemptsMade)' : a \in ToSet(attemptsMade) \/ job.stage = "printed"
                                        \/ a.event # OwnEvent(job)
  PROVE  Once(job)'
BY DEF Once

LEMMA SyntheticOnceKept ==
  ASSUME Shapes, Numbers, SyntheticOnce, [TrialNext \/ SyntheticNext]_automationVars
  PROVE  SyntheticOnce'
<1> DEFINE News == ToSet(attemptsMade)' \ ToSet(attemptsMade)
<1>1. ASSUME NEW i \in Jobs, jobs'[i] = jobs[i] \/ jobs'[i].stage = "trying",
             \A a \in News : jobs[i].stage = "printed" \/ a.event # OwnEvent(jobs[i])
      PROVE  Once(jobs[i])'
  <2>1. CASE jobs'[i].stage = "trying"
    BY <2>1 DEF Once
  <2>2. CASE jobs'[i] = jobs[i]
    <3>1. PICK job : job = jobs[i] /\ job = jobs'[i]
      BY <2>2
    <3>2. Once(job)
      BY <3>1 DEF SyntheticOnce
    <3>3. Once(job)'
      BY <1>1, <3>1, <3>2, OnceAside
    <3> QED BY <3>1, <3>3
  <2> QED BY <1>1, <2>1, <2>2
<1>2. ASSUME NEW a, a.event[1] # "evt_ht", NEW job
      PROVE  a.event # OwnEvent(job)
  BY <1>2 DEF OwnEvent
<1>3. CASE LineChanges \/ Aside
  <2>1. UNCHANGED attemptsMade
    BY <1>3, Changing, Standing
  <2>2. \A i \in Jobs : jobs'[i] = jobs[i] \/ jobs'[i].stage = "trying"
    BY <1>3, Changing, Standing, Unsteadied
  <2> QED BY <1>1, <2>1, <2>2 DEF SyntheticOnce, ToSet
<1>4. CASE Arrives
  <2>1. \A a \in News : a.event[1] # "evt_ht"
    BY <1>4, Arriving DEF Grows, Numbers, Posted
  <2>2. UNCHANGED jobs
    BY <1>4, Arriving
  <2> QED BY <1>1, <1>2, <2>1, <2>2 DEF SyntheticOnce
<1>5. ASSUME NEW j \in Jobs, Tries(j)
      PROVE  SyntheticOnce'
  <2>1. PICK code : jobs[j].stage = "trying" /\ Saw(j, code)
    BY <1>5, Trials
  <2>2. jobs'[j].stage = "trying" /\ \A i \in Jobs \ {j} : jobs'[i] = jobs[i]
    BY <2>1, Seeing
  <2>3. jobs[j].event[1] # "evt_ht"
    BY <2>1 DEF Shapes, JobShape
  <2>4. \A a \in News : a.event = jobs[j].event
    BY <1>5, TrialSends DEF Grows, TrialRequest
  <2>5. \A a \in News : a.event[1] # "evt_ht"
    BY <2>3, <2>4
  <2> QED BY <1>1, <1>2, <2>2, <2>5 DEF SyntheticOnce
<1>6. ASSUME NEW j \in Jobs, Begins(j)
      PROVE  SyntheticOnce'
  <2>1. /\ \A i \in Jobs \ {j} : jobs'[i] = jobs[i]
        /\ Number(jobs'[j]) = spent.jobs /\ jobs'[j].stage \in {"trying", "asked", "authorised"}
        /\ UNCHANGED attemptsMade
    BY <1>6, Beginning
  <2>2. \A a \in ToSet(attemptsMade) : a.event # OwnEvent(jobs'[j])
    <3> SUFFICES ASSUME NEW a \in ToSet(attemptsMade), a.event = OwnEvent(jobs'[j])
                 PROVE  FALSE
      OBVIOUS
    <3>1. a.event = <<"evt_ht", spent.jobs>>
      BY <2>1 DEF OwnEvent
    <3>2. a.event = <<"evt_ht", a.from>> /\ a.from \in Nat /\ a.from < spent.jobs
      BY <3>1 DEF Numbers, Marked
    <3> QED BY <3>1, <3>2
  <2>3. Once(jobs[j])'
    BY <2>1, <2>2 DEF Once, ToSet
  <2>4. \A i \in Jobs \ {j} : Once(jobs[i])'
    BY <1>1, <2>1 DEF ToSet
  <2> QED BY <2>3, <2>4 DEF SyntheticOnce
<1>7. ASSUME NEW j \in Jobs, Proceeds(j)
      PROVE  SyntheticOnce'
  <2>1. /\ \A i \in Jobs \ {j} : jobs'[i] = jobs[i]
        /\ Numbered(jobs'[j]) => Numbered(jobs[j]) /\ Number(jobs'[j]) = Number(jobs[j])
        /\ jobs'[j].stage = "authorised" => jobs[j].stage = "asked"
        /\ jobs'[j].stage = "sent" => jobs[j].stage = "authorised"
        /\ jobs'[j].stage \in {"none", "authorised", "refused"} \cup WithRequest
    BY <1>7, Proceeding
  <2>2. Numbered(jobs'[j]) => OwnEvent(jobs'[j]) = OwnEvent(jobs[j])
    BY <2>1 DEF OwnEvent
  <2>3. CASE /\ jobs[j].stage = "sent" /\ jobs'[j].stage = "answered" /\ Grows(jobs[j].request)
             /\ \A a \in News : a = OwnAttempt(jobs'[j])
    <3>1. jobs[j].request.event = OwnEvent(jobs[j]) /\ Numbered(jobs[j])
      BY <2>3 DEF Shapes, JobShape, Numbered, WithRequest
    <3>2. ASSUME NEW i \in Jobs \ {j}, NEW a \in News, jobs[i].stage # "printed"
          PROVE  Once(jobs[i])' \/ a.event # OwnEvent(jobs[i])
      <4>1. a.event = OwnEvent(jobs[j])
        BY <2>3, <3>1 DEF Grows
      <4>2. CASE Numbered(jobs[i])
        BY <3>1, <4>1, <4>2 DEF OwnEvent, Numbers, JobNumbers
      <4>3. CASE ~Numbered(jobs[i])
        BY <2>1, <4>3 DEF Numbered, WithRequest, Once
      <4> QED BY <4>2, <4>3
    <3>3. \A i \in Jobs \ {j} : Once(jobs[i])'
      BY <1>1, <2>1, <3>2
    <3>4. OwnEvent(jobs'[j]) = OwnEvent(jobs[j])
      BY <2>2, <2>3 DEF Numbered, WithRequest
    <3>5. \A a \in ToSet(attemptsMade) : a.event # OwnEvent(jobs[j])
      BY <2>3 DEF SyntheticOnce, Once
    <3>6. Once(jobs[j])'
      BY <2>3, <3>4, <3>5 DEF Once
    <3> QED BY <3>3, <3>6 DEF SyntheticOnce
  <2>4. CASE UNCHANGED attemptsMade /\ jobs'[j].stage # "answered"
    <3>1. \A i \in Jobs \ {j} : Once(jobs[i])'
      BY <1>1, <2>1, <2>4 DEF ToSet
    <3>2. ASSUME jobs'[j].stage \in {"authorised", "sent"}
          PROVE  Once(jobs[j])'
      <4>1. \A a \in ToSet(attemptsMade) : a.event # OwnEvent(jobs[j])
        BY <2>1, <3>2 DEF SyntheticOnce, Once
      <4>2. OwnEvent(jobs'[j]) = OwnEvent(jobs[j])
        BY <2>2, <3>2 DEF Numbered, WithRequest
      <4> QED BY <2>4, <3>2, <4>1, <4>2 DEF Once, ToSet
    <3>3. ASSUME jobs'[j].stage = "printed"
          PROVE  Once(jobs[j])'
      <4>1. /\ jobs[j].stage = "answered" /\ jobs'[j].request = jobs[j].request
            /\ jobs'[j].code = jobs[j].code /\ jobs'[j].found = FoundFor(jobs[j].request)
            /\ jobs'[j].accepted = (FoundFor(jobs[j].request) # {})
        BY <1>7, <3>3, Looked
      <4>2. jobs[j].request.event = OwnEvent(jobs[j])
        BY <4>1 DEF Shapes, JobShape, WithRequest
      <4>3. \A a \in FoundFor(jobs[j].request) : a = OwnAttempt(jobs[j])
        BY <4>1, <4>2 DEF SyntheticOnce, Once, FoundFor
      <4>4. OwnAttempt(jobs'[j]) = OwnAttempt(jobs[j])
        BY <4>1 DEF OwnAttempt
      <4> QED BY <3>3, <4>1, <4>3, <4>4 DEF Once
    <3> QED BY <2>1, <2>4, <3>1, <3>2, <3>3 DEF SyntheticOnce, Once, WithRequest
  <2> QED BY <1>7, <2>3, <2>4, ProceedingSends
<1> QED BY <1>3, <1>4, <1>5, <1>6, <1>7, StepKinds
-----------------------------------------------------------------------------
(* Trials.                                                                  *)

LEMMA Answering ==
  ASSUME Shapes, NEW j \in Jobs, AttemptAnswered(j), TrialJob(jobs[j])
  PROVE  TrialJob(jobs[j])'
<1> DEFINE r == TrialRequest(jobs[j])
           result == Ingested(r, 0)
           x == [event |-> r.event, from |-> r.from, code |-> result.code]
           A == jobs[j].actual
<1>1. /\ jobs[j].stage = "trying" /\ Saw(j, result.code) /\ Records(r, result)
      /\ UNCHANGED <<line, belated>>
  BY DEF AttemptAnswered, Trying
<1>2. r.event = jobs[j].event /\ r.from = jobs[j].from /\ r.token = jobs[j].token
  BY DEF TrialRequest
<1>3. IsList(A) /\ IsList(attemptsMade) /\ Grows(r)
  BY <1>1, Growing DEF Shapes, JobShape
<1>4. PICK c : c = result.code
  OBVIOUS
<1>5. /\ jobs'[j].actual = Append(A, c) /\ jobs'[j].from = jobs[j].from
      /\ jobs'[j].event = jobs[j].event /\ jobs'[j].token = jobs[j].token
      /\ jobs'[j].steady = jobs[j].steady
  <2>1. Saw(j, c)
    BY <1>1, <1>4
  <2> QED BY <1>1, <2>1, Seeing
<1>6. /\ ToSet(Append(A, c)) = ToSet(A) \cup {c} /\ Len(A) \in Nat
      /\ Len(Append(A, c)) = Len(A) + 1 /\ Append(A, c)[Len(A) + 1] = c
      /\ \A i \in 1..Len(A) : Append(A, c)[i] = A[i]
  BY <1>3, AppendedList
<1>7. jobs[j].steady => PlainTrial /\ jobs[j].token = line.token
  BY DEF TrialJob
<1>8. (jobs[j].steady => PlainTrial /\ jobs[j].token = line.token)'
  BY <1>1, <1>5, <1>7 DEF PlainTrial
<1>9. \A q \in ToSet(belated)' : q.from = jobs'[j].from => NoAnswer \in ToSet(jobs'[j].actual)
  BY <1>1, <1>5, <1>6 DEF TrialJob, ToSet
<1>10. ASSUME Undisturbed(jobs[j])'
       PROVE  InScenario(jobs[j])'
  <2>1. /\ jobs[j].steady /\ NoAnswer \notin ToSet(A)
        /\ Len(attemptsMade)' < DailyLimit
        /\ \A a \in ToSet(attemptsMade)' : a.event = jobs[j].event => a.from = jobs[j].from
    <3>1. NoAnswer \notin ToSet(jobs'[j].actual)
      BY <1>10 DEF Undisturbed, ToSet
    <3> QED BY <1>5, <1>6, <1>10, <3>1 DEF Undisturbed
  <2>2. Undisturbed(jobs[j]) /\ Len(attemptsMade) < DailyLimit
    BY <1>3, <2>1, AutomationAssumption DEF Grows, Undisturbed
  <2>3. Before(jobs[j].event) = Len(A) /\ \A i \in 1..Len(A) : A[i] = resolveScenarioStep(i)
    BY <2>2 DEF TrialJob, InScenario
  <2>4. PlainTrial /\ r.token = line.token
    BY <1>2, <1>7, <2>1
  <2>5. result.recorded /\ result.code = resolveScenarioStep(Before(r.event) + 1)
    <3>1. ~(r.token # line.token \/ ~line.active) /\ ~(Len(attemptsMade) >= DailyLimit)
      BY <1>3, <2>2, <2>4, AutomationAssumption DEF PlainTrial, Grows
    <3> QED BY <2>4, <3>1 DEF PlainTrial, Ingested, SequenceOf
  <2>6. attemptsMade' = Append(attemptsMade, x) /\ x.event = jobs[j].event
    BY <1>1, <1>2, <2>5 DEF Records
  <2>7. PICK e, y : e = jobs[j].event /\ y = x
    OBVIOUS
  <2> HIDE DEF x, result, r
  <2>8. Before(e)' = Before(e) + 1
    BY <1>3, <2>6, <2>7, OneAttemptMore
  <2>9. Before(jobs[j].event)' = Len(A) + 1
    BY <1>5, <2>3, <2>7, <2>8
  <2>10. c = resolveScenarioStep(Len(A) + 1)
    BY <1>2, <1>4, <2>3, <2>5
  <2>11. \A i \in 1..(Len(A) + 1) : Append(A, c)[i] = resolveScenarioStep(i)
    BY <1>6, <2>3, <2>10
  <2> QED BY <1>5, <1>6, <2>9, <2>11 DEF InScenario
<1> QED BY <1>8, <1>9, <1>10 DEF TrialJob

LEMMA Unanswered ==
  ASSUME Shapes, NEW j \in Jobs, AttemptUnanswered(j), TrialJob(jobs[j])
  PROVE  TrialJob(jobs[j])'
<1>1. jobs[j].stage = "trying" /\ Saw(j, NoAnswer) /\ UNCHANGED line
  BY DEF AttemptUnanswered, Trying
<1>2. /\ jobs'[j].actual = Append(jobs[j].actual, NoAnswer) /\ jobs'[j].token = jobs[j].token
      /\ jobs'[j].steady = jobs[j].steady
  BY <1>1, Seeing
<1>3. NoAnswer \in ToSet(jobs'[j].actual)
  BY <1>1, <1>2, AppendedList DEF Shapes, JobShape
<1>4. ToSet(jobs[j].actual)' = ToSet(jobs'[j].actual)
  BY DEF ToSet
<1>5. (jobs[j].steady => PlainTrial /\ jobs[j].token = line.token)'
  BY <1>1, <1>2 DEF TrialJob, PlainTrial
<1> QED BY <1>3, <1>4, <1>5 DEF TrialJob, Undisturbed

LEMMA TrialsKept ==
  ASSUME Shapes, Numbers, TrialsFollow, [TrialNext \/ SyntheticNext]_automationVars
  PROVE  TrialsFollow'
<1>1. ASSUME NEW i \in Jobs, jobs[i].stage = "trying", jobs'[i] = jobs[i], UNCHANGED line,
             NEW r, Grows(r), r.from # jobs[i].from \/ r \in ToSet(belated),
             \A q \in ToSet(belated)' : q \in ToSet(belated) \/ q.from # jobs[i].from
      PROVE  TrialJob(jobs[i])'
  BY <1>1, Elsewhere DEF TrialsFollow
<1>2. ASSUME NEW i \in Jobs, jobs[i].stage = "trying", jobs'[i] = jobs[i],
             UNCHANGED <<line, attemptsMade, belated>>
      PROVE  TrialJob(jobs[i])'
  <2>1. TrialJob(jobs[i])
    BY <1>2 DEF TrialsFollow
  <2>2. /\ PlainTrial' = PlainTrial /\ ToSet(belated)' = ToSet(belated)
        /\ Before(jobs[i].event)' = Before(jobs[i].event)
    BY <1>2 DEF PlainTrial, Before, ToSet
  <2>3. Undisturbed(jobs[i])' <=> Undisturbed(jobs[i])
    BY <1>2 DEF Undisturbed, ToSet
  <2>4. InScenario(jobs[i])' <=> InScenario(jobs[i])
    BY <1>2, <2>2 DEF InScenario
  <2> QED BY <1>2, <2>1, <2>2, <2>3, <2>4 DEF TrialJob
<1>3. ASSUME NEW i \in Jobs, NEW j \in Jobs, i # j, jobs[i].stage = "trying", Numbered(jobs[j])
      PROVE  jobs[i].from # Number(jobs[j])
  BY <1>3 DEF Numbers, JobNumbers, Numbered, Number, WithRequest
<1>4. CASE Aside
  BY <1>2, <1>4, Standing DEF TrialsFollow
<1>5. CASE LineChanges
  <2> SUFFICES ASSUME NEW i \in Jobs, jobs'[i].stage = "trying"
               PROVE  TrialJob(jobs[i])'
    BY DEF TrialsFollow
  <2>1. /\ jobs[i].stage = "trying" /\ ~jobs'[i].steady /\ jobs'[i].actual = jobs[i].actual
        /\ jobs'[i].from = jobs[i].from
    BY <1>5, Changing, Unsteadied
  <2>2. UNCHANGED belated
    BY <1>5, Changing
  <2>3. TrialJob(jobs[i])
    BY <2>1 DEF TrialsFollow
  <2> QED BY <2>1, <2>2, <2>3 DEF TrialJob, Undisturbed, ToSet
<1>6. CASE Arrives
  <2>1. /\ Head(belated) \in ToSet(belated) /\ Grows(Head(belated))
        /\ ToSet(belated)' \subseteq ToSet(belated) /\ UNCHANGED <<line, jobs>>
    BY <1>6, Arriving
  <2> QED BY <1>1, <2>1 DEF TrialsFollow
<1>7. ASSUME NEW j \in Jobs, Begins(j)
      PROVE  TrialsFollow'
  <2>1. /\ \A i \in Jobs \ {j} : jobs'[i] = jobs[i]
        /\ jobs'[j].stage = "trying" => jobs'[j].actual = <<>> /\ jobs'[j].from = spent.jobs
               /\ jobs'[j].token = line.token /\ jobs'[j].steady = PlainTrial
        /\ UNCHANGED <<line, attemptsMade, belated>>
    BY <1>7, Beginning
  <2>2. ASSUME jobs'[j].stage = "trying"
        PROVE  TrialJob(jobs[j])'
    <3>1. \A q \in ToSet(belated)' : q.from # jobs'[j].from
      BY <2>1, <2>2 DEF Numbers, Posted, Shapes, ToSet
    <3>2. ASSUME Undisturbed(jobs[j])'
          PROVE  InScenario(jobs[j])'
      <4>1. \A a \in ToSet(attemptsMade) : a.from # spent.jobs
        BY DEF Numbers, Marked, Shapes
      <4>2. \A a \in ToSet(attemptsMade) : a.event # jobs'[j].event
        BY <2>1, <2>2, <3>2, <4>1 DEF Undisturbed, ToSet
      <4>3. {i \in DOMAIN attemptsMade : attemptsMade[i].event = jobs'[j].event} = {}
        BY <4>2 DEF ToSet
      <4>4. Before(jobs[j].event)' = 0
        BY <2>1, <4>3, FS_EmptySet DEF Before
      <4> QED BY <2>1, <2>2, <4>4 DEF InScenario
    <3>3. (jobs[j].steady => PlainTrial /\ jobs[j].token = line.token)'
      BY <2>1, <2>2 DEF PlainTrial
    <3> QED BY <3>1, <3>2, <3>3 DEF TrialJob
  <2> QED BY <1>2, <2>1, <2>2 DEF TrialsFollow
<1>8. ASSUME NEW j \in Jobs, Tries(j)
      PROVE  TrialsFollow'
  <2> DEFINE r == TrialRequest(jobs[j])
  <2>1. PICK code : jobs[j].stage = "trying" /\ Saw(j, code)
    BY <1>8, Trials
  <2>2. \A i \in Jobs \ {j} : jobs'[i] = jobs[i]
    BY <2>1, Seeing
  <2>3. r.from = Number(jobs[j]) /\ Numbered(jobs[j])
    BY <2>1 DEF TrialRequest, Number, Numbered, WithRequest
  <2>4. /\ Grows(r) /\ UNCHANGED line
        /\ \A q \in ToSet(belated)' : q \in ToSet(belated) \/ q = r
    BY <1>8, Trials, TrialSends
  <2> HIDE DEF r
  <2>5. ASSUME NEW i \in Jobs \ {j}, jobs[i].stage = "trying"
        PROVE  TrialJob(jobs[i])'
    <3>1. r.from # jobs[i].from
      BY <1>3, <2>3, <2>5
    <3>2. \A q \in ToSet(belated)' : q \in ToSet(belated) \/ q.from # jobs[i].from
      BY <2>4, <3>1
    <3> QED BY <1>1, <2>2, <2>4, <2>5, <3>1, <3>2
  <2>6. TrialJob(jobs[j])'
    BY <1>8, <2>1, Answering, Unanswered DEF TrialsFollow, Tries
  <2> QED BY <2>2, <2>5, <2>6 DEF TrialsFollow
<1>9. ASSUME NEW j \in Jobs, Proceeds(j)
      PROVE  TrialsFollow'
  <2>1. /\ \A i \in Jobs \ {j} : jobs'[i] = jobs[i]
        /\ jobs'[j].stage # "trying" /\ UNCHANGED <<line, belated>>
    BY <1>9, Proceeding
  <2>2. CASE UNCHANGED attemptsMade
    BY <1>2, <2>1, <2>2 DEF TrialsFollow
  <2>3. CASE jobs[j].stage = "sent" /\ Grows(jobs[j].request)
    <3>1. Numbered(jobs[j]) /\ Number(jobs[j]) = jobs[j].request.from
      BY <2>3 DEF Numbered, Number, WithRequest
    <3>2. ASSUME NEW i \in Jobs \ {j}, jobs[i].stage = "trying"
          PROVE  TrialJob(jobs[i])'
      <4>1. jobs[j].request.from # jobs[i].from
        BY <1>3, <3>1, <3>2
      <4>2. ToSet(belated)' = ToSet(belated)
        BY <2>1 DEF ToSet
      <4> QED BY <1>1, <2>1, <2>3, <3>2, <4>1, <4>2
    <3> QED BY <2>1, <3>2 DEF TrialsFollow
  <2> QED BY <1>9, <2>2, <2>3, ProceedingSends
<1> QED BY <1>4, <1>5, <1>6, <1>7, <1>8, <1>9, StepKinds

(* A verdict is about the job's own requests: a trial with its event to    *)
(* itself, on a route that did not change, passes exactly if it expects    *)
(* the scenario, and what a synthetic job finds recorded is its event.     *)
THEOREM VerdictIsOwnHolds == AutomationSpec => []VerdictIsOwn
<1>1. AutomationInv /\ [TrialNext \/ SyntheticNext]_automationVars => AutomationInv'
  BY ShapesKept, NumbersKept, SyntheticOnceKept, TrialsKept DEF AutomationInv
<1>2. AutomationInv => VerdictIsOwn
  <2> SUFFICES ASSUME AutomationInv, NEW j \in Jobs
               PROVE  /\ Finished(j) /\ Alone(j) /\ jobs[j].steady /\ Len(attemptsMade) < DailyLimit
                         /\ NoAnswer \notin ToSet(jobs[j].actual)
                         => (Passed(j) <=> \A i \in DOMAIN jobs[j].expect :
                                             jobs[j].expect[i] = resolveScenarioStep(i))
                      /\ jobs[j].stage = "printed" /\ jobs[j].accepted
                         => jobs[j].found = {OwnAttempt(jobs[j])}
    BY DEF VerdictIsOwn, OwnAttempt
  <2>1. ASSUME Finished(j), Alone(j), jobs[j].steady, Len(attemptsMade) < DailyLimit,
               NoAnswer \notin ToSet(jobs[j].actual)
        PROVE  Passed(j) <=> \A i \in DOMAIN jobs[j].expect :
                               jobs[j].expect[i] = resolveScenarioStep(i)
    <3>1. Undisturbed(jobs[j]) /\ jobs[j].stage = "trying"
      BY <2>1 DEF Undisturbed, Alone, Finished
    <3>2. \A i \in 1..Len(jobs[j].actual) : jobs[j].actual[i] = resolveScenarioStep(i)
      BY <3>1 DEF AutomationInv, TrialsFollow, TrialJob, InScenario
    <3>3. DOMAIN jobs[j].expect = 1..Len(jobs[j].actual)
      BY <2>1, <3>1, LenProperties DEF AutomationInv, Shapes, JobShape, Finished
    <3> QED BY <3>2, <3>3 DEF Passed
  <2>2. ASSUME jobs[j].stage = "printed", jobs[j].accepted
        PROVE  jobs[j].found = {OwnAttempt(jobs[j])}
    BY <2>2 DEF AutomationInv, SyntheticOnce, Once
  <2> QED BY <2>1, <2>2
<1> QED BY <1>1, <1>2, AutomationStarts, PTL DEF AutomationSpec

-----------------------------------------------------------------------------
(* More of lists: which entries they have when they are joined, changed or  *)
(* reduced to some positions.                                               *)

LEMMA NoneIsList == IsList(<<>>) /\ ToSet(<<>>) = {}
<1>1. ToSet(<<>>) = {}
  BY DEF ToSet
<1> QED BY <1>1 DEF IsList

LEMMA ListOf ==
  ASSUME NEW S, NEW s \in Seq(S)
  PROVE  IsList(s)
<1>1. s \in [1..Len(s) -> S] /\ Len(s) \in Nat /\ DOMAIN s = 1..Len(s)
  BY LenProperties
<1>2. s \in [1..Len(s) -> ToSet(s)]
  BY <1>1 DEF ToSet
<1> QED BY <1>1, <1>2, SeqDef DEF IsList

LEMMA JoinedList ==
  ASSUME NEW s, IsList(s), NEW t, IsList(t)
  PROVE  IsList(s \o t) /\ \A x \in ToSet(s \o t) : x \in ToSet(s) \/ x \in ToSet(t)
<1> DEFINE S == ToSet(s) \cup ToSet(t)
           w == s \o t
<1>1. s \in Seq(S) /\ t \in Seq(S)
  BY DEF IsList
<1> HIDE DEF S
<1>2. w \in Seq(S)
  BY <1>1, ConcatProperties
<1> HIDE DEF w
<1>3. \A i \in DOMAIN w : w[i] \in S
  BY <1>2, LenProperties, ElementOfSeq
<1>4. IsList(w)
  BY <1>2, ListOf
<1> QED BY <1>3, <1>4 DEF w, S, ToSet

LEMMA ChangedList ==
  ASSUME NEW s, IsList(s), NEW i \in DOMAIN s, NEW x
  PROVE  IsList([s EXCEPT ![i] = x]) /\ \A y \in ToSet([s EXCEPT ![i] = x]) : y \in ToSet(s) \/ y = x
<1> DEFINE S == ToSet(s) \cup {x}
           t == [s EXCEPT ![i] = x]
<1>1. s \in [1..Len(s) -> S] /\ Len(s) \in Nat /\ DOMAIN t = DOMAIN s
  BY LenProperties DEF IsList
<1>2. \A j \in DOMAIN t : t[j] \in S
  BY DEF ToSet
<1>3. t \in [1..Len(s) -> S]
  BY <1>1
<1> HIDE DEF S, t
<1>4. t \in Seq(S)
  BY <1>1, <1>3, SeqDef
<1>5. IsList(t)
  BY <1>4, ListOf
<1> QED BY <1>2, <1>5 DEF S, t, ToSet

(* How many kept positions there are up to one.                             *)
LEMMA RankIs ==
  ASSUME NEW n \in Nat, NEW places, places \subseteq 1..n
  PROVE  /\ IsFiniteSet(places) /\ Cardinality(places) \in Nat
         /\ \A i \in 1..n : Rank(i, places) \in Nat /\ Rank(i, places) <= Cardinality(places)
         /\ \A i, j \in places : i < j => Rank(i, places) < Rank(j, places)
         /\ \A i \in places : Rank(i, places) \in 1..Cardinality(places)
<1>1. IsFiniteSet(places) /\ Cardinality(places) \in Nat
  <2>1. IsFiniteSet(1..n)
    BY FS_Interval
  <2> QED BY <2>1, FS_Subset, FS_CardinalityType
<1> DEFINE Upto(i) == {j \in places : j <= i}
<1>2. ASSUME NEW i \in 1..n
      PROVE  /\ IsFiniteSet(Upto(i)) /\ Cardinality(Upto(i)) \in Nat
             /\ Cardinality(Upto(i)) <= Cardinality(places)
  <2>1. Upto(i) \subseteq places
    OBVIOUS
  <2> HIDE DEF Upto
  <2> QED BY <1>1, <2>1, FS_Subset, FS_CardinalityType
<1>3. ASSUME NEW i \in places, NEW j \in places, i < j
      PROVE  Cardinality(Upto(i)) < Cardinality(Upto(j))
  <2>1. /\ i \in 1..n /\ j \in 1..n /\ ~(j <= i) /\ j <= j
        /\ \A x \in places : x \in 1..n /\ (x <= i => x <= j)
    BY <1>3
  <2>2. Upto(i) \subseteq Upto(j) /\ j \in Upto(j) /\ j \notin Upto(i) /\ Upto(i) # Upto(j)
    BY <2>1
  <2> HIDE DEF Upto
  <2>3. Upto(i) \in SUBSET Upto(j) /\ Cardinality(Upto(i)) # Cardinality(Upto(j))
    BY <1>2, <2>1, <2>2, FS_Subset
  <2> QED BY <1>2, <2>1, <2>3, FS_Subset
<1>4. ASSUME NEW i \in places
      PROVE  Cardinality(Upto(i)) \in 1..Cardinality(places)
  <2>1. i \in Upto(i) /\ i \in 1..n
    OBVIOUS
  <2>2. Upto(i) # {}
    BY <2>1
  <2> HIDE DEF Upto
  <2>3. Cardinality(Upto(i)) # 0
    BY <1>2, <2>1, <2>2, FS_EmptySet
  <2> QED BY <1>1, <1>2, <2>1, <2>3
<1> HIDE DEF Upto
<1>5. \A i : Rank(i, places) = Cardinality(Upto(i))
  BY DEF Rank, Upto
<1> QED BY <1>1, <1>2, <1>3, <1>4, <1>5

(* Each rank is taken: the least position with at least k kept ones up to it. *)
LEMMA RankTaken ==
  ASSUME NEW n \in Nat, NEW places, places \subseteq 1..n, NEW k \in 1..Cardinality(places)
  PROVE  \E i \in places : Rank(i, places) = k
<1>1. IsFiniteSet(places) /\ Cardinality(places) \in Nat
  BY RankIs
<1>2. \A i \in 1..n : Rank(i, places) \in Nat
  BY RankIs
<1> DEFINE Far == {i \in 1..n : Rank(i, places) >= k}
<1>3. \A j \in places : j \in 1..n /\ j <= n /\ j >= 1 /\ j \in Int
  OBVIOUS
<1>4. n \in Far
  <2>1. {j \in places : j <= n} = places
    BY <1>3
  <2>2. Rank(n, places) = Cardinality(places)
    BY <2>1 DEF Rank
  <2>3. n # 0
    <3>1. ASSUME n = 0
          PROVE  FALSE
      <4>1. places = {}
        BY <3>1
      <4> QED BY <4>1, FS_EmptySet
    <3> QED BY <3>1
  <2> QED BY <1>1, <2>2, <2>3
<1>5. PICK i \in Far : \A j \in Far : i <= j
  <2>1. Far \subseteq Nat /\ Far # {}
    BY <1>4
  <2> HIDE DEF Far
  <2> QED BY <2>1, LeastOf
<1> DEFINE below == {j \in places : j <= i - 1}
           upTo == {j \in places : j <= i}
<1>6. i \in 1..n /\ Rank(i, places) \in Nat /\ Rank(i, places) >= k /\ Rank(i, places) = Cardinality(upTo)
  BY <1>2, <1>5 DEF Rank
<1> HIDE DEF Far
<1>7. \A j \in places : (j <= i <=> j <= i - 1 \/ j = i) /\ (i = 1 => ~(j <= i - 1)) /\ ~(i <= i - 1)
  BY <1>3, <1>6
<1>8. IsFiniteSet(below) /\ Cardinality(below) \in Nat /\ Cardinality(below) < k
  <2>1. CASE i = 1
    <3>1. below = {}
      BY <2>1, <1>7
    <3> HIDE DEF below
    <3> QED BY <3>1, <1>1, FS_EmptySet
  <2>2. CASE i # 1
    <3>1. i - 1 \in 1..n /\ ~(i <= i - 1)
      BY <1>6, <2>2
    <3>2. ~(Rank(i - 1, places) >= k)
      BY <1>5, <3>1 DEF Far
    <3>3. below \subseteq places /\ Rank(i - 1, places) = Cardinality(below)
      BY DEF Rank
    <3>4. IsFiniteSet(below)
      BY <1>1, <3>3, FS_Subset
    <3>5. Rank(i - 1, places) \in Nat
      BY <1>2, <3>1
    <3> HIDE DEF below
    <3> QED BY <3>2, <3>3, <3>5, <3>4
  <2> QED BY <2>1, <2>2
<1>9. CASE i \notin places
  <2>1. upTo = below
    BY <1>7, <1>9
  <2> HIDE DEF upTo, below
  <2> QED BY <1>6, <1>8, <2>1
<1>10. CASE i \in places
  <2>1. upTo = below \cup {i} /\ i \notin below
    BY <1>7, <1>10
  <2>2. Cardinality(upTo) = Cardinality(below) + 1
    <3> HIDE DEF upTo, below
    <3> QED BY <1>8, <2>1, FS_AddElement
  <2> HIDE DEF upTo, below
  <2> QED BY <1>6, <1>8, <1>10, <2>2
<1> QED BY <1>9, <1>10

(* The entries that are kept, all of them, in their order.                  *)
LEMMA SelectedIs ==
  ASSUME NEW s, IsList(s), NEW places, places \subseteq DOMAIN s
  PROVE  /\ IsList(Selected(s, places)) /\ Len(Selected(s, places)) = Cardinality(places)
         /\ \A k \in 1..Cardinality(places) : \E i \in places :
              Rank(i, places) = k /\ Selected(s, places)[k] = s[i]
         /\ ToSet(Selected(s, places)) = {s[i] : i \in places}
<1> DEFINE t == Selected(s, places)
           m == Cardinality(places)
           Kth(k) == CHOOSE i \in places : Rank(i, places) = k
<1>1. Len(s) \in Nat /\ places \subseteq 1..Len(s)
  BY LenProperties DEF IsList
<1>2. m \in Nat /\ \A i \in places : Rank(i, places) \in 1..m
  BY <1>1, RankIs
<1>3. \A i, j \in places : i < j => Rank(i, places) < Rank(j, places)
  BY <1>1, RankIs
<1>4. ASSUME NEW k \in 1..m
      PROVE  Kth(k) \in places /\ Rank(Kth(k), places) = k
  BY <1>1, <1>4, RankTaken
<1>5. t = [k \in 1..m |-> s[Kth(k)]]
  BY DEF Selected
<1>6. ASSUME NEW i \in places
      PROVE  Kth(Rank(i, places)) = i
  <2>1. Kth(Rank(i, places)) \in places /\ Rank(Kth(Rank(i, places)), places) = Rank(i, places)
    BY <1>2, <1>4
  <2> DEFINE j == Kth(Rank(i, places))
  <2>2. i \in 1..Len(s) /\ j \in 1..Len(s) /\ Rank(i, places) \in 1..m
    BY <1>1, <1>2, <2>1
  <2> HIDE DEF j
  <2>3. ~(i < j) /\ ~(j < i)
    BY <1>3, <2>1, <2>2 DEF j
  <2>4. i = j
    BY <1>1, <2>2, <2>3
  <2> QED BY <2>4 DEF j
<1> HIDE DEF t, Kth, m
<1>7. t \in [1..m -> ToSet(t)] /\ DOMAIN t = 1..m
  BY <1>5 DEF ToSet
<1>8. t \in Seq(ToSet(t)) /\ Len(t) = m
  BY <1>2, <1>7, SeqDef, LenProperties
<1>9. \A k \in 1..m : Kth(k) \in places /\ Rank(Kth(k), places) = k /\ t[k] = s[Kth(k)]
  BY <1>4, <1>5
<1>10. \A i \in places : Rank(i, places) \in 1..m /\ t[Rank(i, places)] = s[i]
  BY <1>2, <1>5, <1>6
<1>11. ToSet(t) = {s[i] : i \in places}
  BY <1>7, <1>9, <1>10 DEF ToSet
<1> QED BY <1>8, <1>9, <1>11 DEF t, m, IsList

-----------------------------------------------------------------------------
(* The import of an OpenAPI document.                                       *)

(* An operation that an import may have chosen, as the page was.            *)
SafeOperation(operation, from, post) ==
  /\ operation.method \in {"get", "head"} \cup (IF post THEN {"post"} ELSE {})
  /\ operation.inline /\ operation.concrete
  /\ from.address # NoAddress

DocumentsRead ==
  /\ source \in Documents \cup {NoDocument} /\ parsed.document \in Documents \cup {NoDocument}
  /\ DOMAIN fetches = FetchSlots
  /\ \A f \in FetchSlots : fetches[f] # NoFetch => fetches[f].document \in Documents
  /\ includePost \in BOOLEAN

(* What is left of an import are safe operations of the page it started on. *)
SafeImport(import) ==
  /\ DOMAIN import = {"left", "from", "post", "environment"}
  /\ IsList(import.left) /\ import.post \in BOOLEAN /\ import.environment # "production"
  /\ \A operation \in ToSet(import.left) : SafeOperation(operation, import.from, import.post)
ImportsSafe ==
  /\ DOMAIN imports = ImportSlots /\ \A i \in ImportSlots : SafeImport(imports[i])

ImportInv == DocumentsRead /\ ImportsSafe /\ SafeByDefault

LEMMA MonitorableIsSafe ==
  ASSUME NEW d \in Documents, NEW from, NEW post \in BOOLEAN
  PROVE  /\ IsList(Monitorable(d, from.address, post))
         /\ \A o \in ToSet(Monitorable(d, from.address, post)) : SafeOperation(o, from, post)
<1> DEFINE operations == OperationsOf[d]
           Offered(o) == ~Skipped(o, from.address) /\ (post \/ o.method # "post")
           places == {i \in DOMAIN operations : Offered(operations[i])}
<1>1. IsList(operations)
  <2>1. operations \in Seq(Operation)
    BY ImportAssumption
  <2> HIDE DEF operations
  <2> QED BY <2>1, ListOf
<1>2. Monitorable(d, from.address, post) = Selected(operations, places)
  BY DEF Monitorable
<1>3. places \subseteq DOMAIN operations /\ \A i \in places : Offered(operations[i])
  OBVIOUS
<1>4. ASSUME NEW o, Offered(o)
      PROVE  SafeOperation(o, from, post)
  BY <1>4 DEF SafeOperation, Skipped
<1> HIDE DEF operations, Offered, places
<1>5. /\ IsList(Selected(operations, places))
      /\ ToSet(Selected(operations, places)) = {operations[i] : i \in places}
  BY <1>1, <1>3, SelectedIs
<1> QED BY <1>2, <1>3, <1>4, <1>5

(* What the user ticked is among what the page offers.                      *)
LEMMA SelectionIsSafe ==
  ASSUME DocumentsRead
  PROVE  /\ IsList(selectedOperations)
         /\ \A o \in ToSet(selectedOperations) : SafeOperation(o, parsed, includePost)
<1>1. IsList(Eligible) /\ \A o \in ToSet(Eligible) : SafeOperation(o, parsed, includePost)
  <2>1. CASE parsed.document = NoDocument
    BY <2>1, NoneIsList DEF Eligible, NoOperations
  <2>2. CASE parsed.document # NoDocument
    <3>1. parsed.document \in Documents /\ includePost \in BOOLEAN
      BY <2>2 DEF DocumentsRead
    <3>2. Eligible = Monitorable(parsed.document, parsed.address, includePost)
      BY <2>2 DEF Eligible
    <3> QED BY <3>1, <3>2, MonitorableIsSafe
  <2> QED BY <2>1, <2>2
<1> DEFINE places == {i \in DOMAIN Eligible : Eligible[i].id \in chosen}
<1>2. places \subseteq DOMAIN Eligible /\ selectedOperations = Selected(Eligible, places)
  BY DEF selectedOperations
<1> HIDE DEF places
<1>3. /\ IsList(selectedOperations)
      /\ ToSet(selectedOperations) = {Eligible[i] : i \in places}
  BY <1>1, <1>2, SelectedIs
<1>4. ToSet(selectedOperations) \subseteq ToSet(Eligible)
  BY <1>2, <1>3 DEF ToSet
<1> QED BY <1>1, <1>3, <1>4

(* The operations on the page do not change what an import has set out to   *)
(* create, nor the imports the page.                                        *)
LEMMA PageMoves ==
  ASSUME ImportInv, [ImportNext]_importVars,
         ~\E i \in ImportSlots : ImportMonitors(i) \/ CreateImported(i) \/ RefuseImported(i) \/ ImportEnds(i)
  PROVE  ImportInv'
<1>1. UNCHANGED <<imports, created>>
  BY DEF ImportNext, importVars, Paste, ParseSource, LoadUrl, OnFile, BeginFetch, FetchEnds, FetchFails,
         TypeBase, SetEnvironment, TogglePost, SelectAllSafe, ToggleOperation
<1>2. ImportsSafe' /\ SafeByDefault'
  BY <1>1 DEF ImportInv, ImportsSafe, SafeImport, SafeOperation, SafeByDefault
<1> USE DEF ImportInv, DocumentsRead
<1>3. ASSUME UNCHANGED <<source, parsed, fetches, includePost>>
      PROVE  DocumentsRead'
  BY <1>3
<1>4. ASSUME NEW d \in Documents, NEW o, NEW t, NEW p, ParseWith(d, o, t, p)
      PROVE  parsed'.document \in Documents \cup {NoDocument}
  BY <1>4 DEF ParseWith, NothingParsed
<1>5. ASSUME NEW d \in Documents, Paste(d)
      PROVE  DocumentsRead'
  BY <1>5 DEF Paste
<1>6. ASSUME ParseSource
      PROVE  DocumentsRead'
  BY <1>4, <1>6 DEF ParseSource
<1>7. ASSUME NEW f \in FetchSlots, NEW d \in Documents, BeginFetch(f, d)
      PROVE  DocumentsRead'
  BY <1>7 DEF BeginFetch
<1>8. ASSUME NEW f \in FetchSlots, FetchEnds(f)
      PROVE  DocumentsRead'
  BY <1>4, <1>8 DEF FetchEnds
<1>9. ASSUME NEW f \in FetchSlots, FetchFails(f)
      PROVE  DocumentsRead'
  BY <1>9 DEF FetchFails, NothingParsed
<1>10. ASSUME TogglePost
       PROVE  DocumentsRead'
  BY <1>10 DEF TogglePost
<1>11. DocumentsRead'
  BY <1>3, <1>5, <1>6, <1>7, <1>8, <1>9, <1>10
     DEF ImportNext, importVars, LoadUrl, OnFile, TypeBase, SetEnvironment, SelectAllSafe, ToggleOperation
<1> QED BY <1>2, <1>11

LEMMA ImportBegins ==
  ASSUME ImportInv, NEW i \in ImportSlots, ImportMonitors(i)
  PROVE  ImportInv'
<1> DEFINE begun == [left |-> selectedOperations, from |-> parsed, post |-> includePost,
                     environment |-> environment]
<1>1. /\ imports' = [imports EXCEPT ![i] = begun] /\ environment # "production"
      /\ UNCHANGED <<source, parsed, fetches, includePost, created>>
  BY DEF ImportMonitors
<1>2. SafeImport(begun)
  BY <1>1, SelectionIsSafe DEF ImportInv, DocumentsRead, SafeImport
<1> HIDE DEF begun
<1>3. ImportsSafe'
  BY <1>1, <1>2 DEF ImportInv, ImportsSafe
<1>4. DocumentsRead' /\ SafeByDefault'
  BY <1>1 DEF ImportInv, DocumentsRead, SafeByDefault
<1> QED BY <1>3, <1>4 DEF ImportInv

LEMMA ImportMoves ==
  ASSUME ImportInv, NEW i \in ImportSlots, CreateImported(i) \/ RefuseImported(i)
  PROVE  ImportInv'
<1> DEFINE left == imports[i].left
<1>1. /\ imports' = [imports EXCEPT ![i].left = Tail(@)] /\ left # <<>>
      /\ created' = created \/ created' = created \cup {MonitorOf(i)}
      /\ UNCHANGED <<source, parsed, fetches, includePost>>
  BY DEF CreateImported, RefuseImported
<1>2. SafeImport(imports[i])
  BY DEF ImportInv, ImportsSafe
<1>3. /\ IsList(left) /\ IsList(Tail(left)) /\ Head(left) \in ToSet(left)
      /\ ToSet(Tail(left)) \subseteq ToSet(left)
  BY <1>1, <1>2, TailList DEF SafeImport
<1> DEFINE rest == [imports[i] EXCEPT !.left = Tail(@)]
<1>4. SafeImport(rest)
  <2>1. /\ DOMAIN rest = DOMAIN imports[i] /\ rest.left = Tail(left) /\ rest.from = imports[i].from
        /\ rest.post = imports[i].post /\ rest.environment = imports[i].environment
    BY <1>2 DEF SafeImport
  <2> HIDE DEF rest
  <2> QED BY <1>2, <1>3, <2>1 DEF SafeImport
<1>5. ImportsSafe'
  <2>1. DOMAIN imports = ImportSlots
    BY DEF ImportInv, ImportsSafe
  <2>2. DOMAIN imports' = ImportSlots /\ imports'[i] = rest
    BY <1>1, <2>1
  <2>3. \A j \in ImportSlots : j # i => imports'[j] = imports[j]
    BY <1>1, <2>1
  <2> HIDE DEF rest
  <2> QED BY <1>4, <2>2, <2>3 DEF ImportInv, ImportsSafe
<1>6. SafeByDefault'
  <2>1. /\ MonitorOf(i).operation = Head(left) /\ MonitorOf(i).from = imports[i].from
        /\ MonitorOf(i).post = imports[i].post /\ MonitorOf(i).environment = imports[i].environment
    BY DEF MonitorOf
  <2>2. SafeOperation(Head(left), imports[i].from, imports[i].post) /\ imports[i].environment # "production"
    BY <1>2, <1>3 DEF SafeImport
  <2> QED BY <1>1, <2>1, <2>2 DEF ImportInv, SafeByDefault, SafeOperation
<1>7. DocumentsRead'
  BY <1>1 DEF ImportInv, DocumentsRead
<1> QED BY <1>5, <1>6, <1>7 DEF ImportInv

LEMMA ImportOver ==
  ASSUME ImportInv, NEW i \in ImportSlots, ImportEnds(i)
  PROVE  ImportInv'
<1>1. /\ imports' = [imports EXCEPT ![i] = NoImport]
      /\ UNCHANGED <<source, parsed, fetches, includePost, created>>
  BY DEF ImportEnds
<1>2. SafeImport(NoImport)
  BY NoneIsList DEF SafeImport, NoImport
<1>3. ImportsSafe'
  BY <1>1, <1>2 DEF ImportInv, ImportsSafe
<1>4. DocumentsRead' /\ SafeByDefault'
  BY <1>1 DEF ImportInv, DocumentsRead, SafeByDefault
<1> QED BY <1>3, <1>4 DEF ImportInv

(* However documents, controls and imports were interleaved, a monitor is   *)
(* created only for a concrete GET or HEAD operation, or for a POST when    *)
(* the box for them was ticked as the import was started, at an address,    *)
(* and never in production.                                                 *)
THEOREM SafeByDefaultHolds == ImportSpec => []SafeByDefault
<1>1. ImportInit => ImportInv
  <2> SUFFICES ASSUME ImportInit PROVE ImportInv
    OBVIOUS
  <2>1. SafeImport(NoImport)
    BY NoneIsList DEF SafeImport, NoImport
  <2>2. DocumentsRead
    BY DEF ImportInit, DocumentsRead, NothingParsed, NoFetch
  <2> QED BY <2>1, <2>2 DEF ImportInit, ImportInv, ImportsSafe, SafeByDefault
<1>2. ImportInv /\ [ImportNext]_importVars => ImportInv'
  BY PageMoves, ImportBegins, ImportMoves, ImportOver
<1>3. ImportInv => SafeByDefault
  BY DEF ImportInv
<1> QED BY <1>1, <1>2, <1>3, PTL DEF ImportSpec

-----------------------------------------------------------------------------
(* The health of a route.                                                   *)

Dated(r) == "started" \in DOMAIN r /\ r.started \in Nat
HealthInv ==
  /\ IsList(attempted) /\ IsList(sends) /\ ticks \in Nat
  /\ \A r \in ToSet(sends) : Dated(r)

LEMMA SendIs ==
  ASSUME HealthInv
  PROVE  /\ Len(sends) \in Nat /\ DOMAIN sends = 1..Len(sends)
         /\ \A i \in DOMAIN sends : sends[i] \in ToSet(sends) /\ Dated(sends[i])
         /\ Len(attempted) \in Nat /\ DOMAIN attempted = 1..Len(attempted)
<1>1. Len(sends) \in Nat /\ DOMAIN sends = 1..Len(sends)
  BY LenProperties DEF HealthInv, IsList
<1>2. Len(attempted) \in Nat /\ DOMAIN attempted = 1..Len(attempted)
  BY LenProperties DEF HealthInv, IsList
<1>3. \A i \in DOMAIN sends : sends[i] \in ToSet(sends)
  BY DEF ToSet
<1> QED BY <1>1, <1>2, <1>3 DEF HealthInv

LEMMA RowIs ==
  ASSUME NEW e, NEW target, NEW sequence \in Nat, NEW kind, NEW state, NEW code, ticks \in Nat
  PROVE  Dated(Row(e, target, sequence, kind, state, code))
BY DEF Row, Dated

LEMMA RequestRecorded ==
  ASSUME HealthInv, NEW e, NEW request, NEW code, Ingest(e, request, code)
  PROVE  HealthInv'
<1>1. ASSUME NEW status
      PROVE  IsList(Append(attempted, Inspected(e, request, status)))
  BY AppendedList DEF HealthInv
<1>2. CASE \E status : /\ attempted' = Append(attempted, Inspected(e, request, status))
                       /\ UNCHANGED <<sends, ticks>>
  BY <1>1, <1>2 DEF HealthInv
<1>3. CASE Observe(e, request, code)
  <2> DEFINE r == Row(e, Aimed[1], 1, "forward", IF code < 300 THEN "succeeded" ELSE "failed", code)
  <2>1. Dated(r)
    BY RowIs DEF HealthInv
  <2>2. sends' = Append(sends, r) /\ ticks' = ticks + 1
        /\ attempted' = Append(attempted, Inspected(e, request, code))
    BY <1>3 DEF Observe
  <2> HIDE DEF r
  <2>3. IsList(Append(sends, r)) /\ ToSet(Append(sends, r)) = ToSet(sends) \cup {r}
    BY AppendedList DEF HealthInv
  <2> QED BY <1>1, <2>1, <2>2, <2>3 DEF HealthInv
<1>4. CASE Protect(e, request) /\ RowsOf(e) = <<>>
  <2> DEFINE rows == [i \in DOMAIN Aimed |-> Row(e, Aimed[i], i, "forward", "queued", 0)]
  <2>1. sends' = sends \o rows /\ ticks' = ticks + Len(Aimed)
        /\ attempted' = Append(attempted, Inspected(e, request, 202))
    BY <1>4 DEF Protect
  <2>2. Len(Aimed) \in Nat /\ DOMAIN Aimed = 1..Len(Aimed)
    BY HealthAssumption
  <2>3. \A i \in 1..Len(Aimed) : Dated(rows[i])
    BY <2>2, RowIs DEF HealthInv
  <2>4. DOMAIN rows = 1..Len(Aimed) /\ rows \in [1..Len(Aimed) -> ToSet(rows)]
    BY <2>2 DEF ToSet
  <2> HIDE DEF rows
  <2>5. IsList(rows) /\ \A r \in ToSet(rows) : Dated(r)
    <3>1. rows \in Seq(ToSet(rows))
      BY <2>2, <2>4, SeqDef
    <3> QED BY <2>3, <2>4, <3>1 DEF IsList, ToSet
  <2>6. IsList(sends \o rows) /\ \A r \in ToSet(sends \o rows) : Dated(r)
    BY <2>5, JoinedList DEF HealthInv
  <2> QED BY <1>1, <2>1, <2>2, <2>6 DEF HealthInv
<1> QED BY <1>2, <1>3, <1>4 DEF Ingest, Reject, Trial, Protect

LEMMA RowChanged ==
  ASSUME HealthInv, NEW i \in DOMAIN sends, NEW r, Dated(r)
  PROVE  /\ IsList([sends EXCEPT ![i] = r])
         /\ \A other \in ToSet([sends EXCEPT ![i] = r]) : Dated(other)
BY ChangedList DEF HealthInv

LEMMA Delivered ==
  ASSUME HealthInv, NEW i \in DOMAIN sends, NEW code, BeginDelivery(i) \/ EndDelivery(i, code)
  PROVE  HealthInv'
<1>1. Dated(sends[i]) /\ ticks \in Nat /\ ticks + 1 \in Nat
  BY SendIs DEF HealthInv
<1>2. CASE BeginDelivery(i)
  <2> DEFINE r == [sends[i] EXCEPT !.state = "delivering", !.started = ticks + 1]
  <2>1. Dated(r)
    BY <1>1 DEF Dated
  <2>2. sends' = [sends EXCEPT ![i] = r] /\ ticks' = ticks + 1 /\ UNCHANGED attempted
    BY <1>2 DEF BeginDelivery
  <2> HIDE DEF r
  <2> QED BY <1>1, <2>1, <2>2, RowChanged DEF HealthInv
<1>3. CASE EndDelivery(i, code)
  <2> DEFINE ended(state) == [sends[i] EXCEPT !.state = state, !.code = code]
             settled(state) == [sends EXCEPT ![i] = ended(state)]
  <2>1. ASSUME NEW state
        PROVE  /\ IsList(settled(state)) /\ \A r \in ToSet(settled(state)) : Dated(r)
               /\ settled(state) = [sends EXCEPT ![i].state = state, ![i].code = code]
    <3>1. Dated(ended(state))
      BY <1>1 DEF Dated
    <3>2. settled(state) = [sends EXCEPT ![i].state = state, ![i].code = code]
      OBVIOUS
    <3> HIDE DEF ended
    <3> QED BY <3>1, <3>2, RowChanged
  <2>2. UNCHANGED attempted
    BY <1>3 DEF EndDelivery
  <2>3. CASE UNCHANGED ticks /\ \E state : sends' = [sends EXCEPT ![i].state = state, ![i].code = code]
    <3>1. PICK state : sends' = settled(state)
      BY <2>1, <2>3
    <3> HIDE DEF settled
    <3> QED BY <2>1, <2>2, <2>3, <3>1 DEF HealthInv
  <2>4. CASE /\ ticks' = ticks + 1
             /\ \E state, next : sends' = Append([sends EXCEPT ![i].state = state, ![i].code = code],
                 [sends[i] EXCEPT !.kind = "retry", !.state = "queued", !.tries = @ + 1,
                                  !.sequence = next, !.started = ticks + 1])
    <3>0. PICK state, next : sends' = Append([sends EXCEPT ![i].state = state, ![i].code = code],
                 [sends[i] EXCEPT !.kind = "retry", !.state = "queued", !.tries = @ + 1,
                                  !.sequence = next, !.started = ticks + 1])
      BY <2>4
    <3> DEFINE retry == [sends[i] EXCEPT !.kind = "retry", !.state = "queued", !.tries = @ + 1,
                                  !.sequence = next, !.started = ticks + 1]
    <3>2. Dated(retry)
      BY <1>1 DEF Dated
    <3> HIDE DEF settled
    <3>1. sends' = Append(settled(state), retry)
      BY <2>1, <3>0
    <3> HIDE DEF retry
    <3>3. IsList(Append(settled(state), retry))
          /\ ToSet(Append(settled(state), retry)) = ToSet(settled(state)) \cup {retry}
      BY <2>1, AppendedList
    <3> QED BY <1>1, <2>1, <2>2, <2>4, <3>1, <3>2, <3>3 DEF HealthInv, retry
  <2> QED BY <1>3, <2>3, <2>4 DEF EndDelivery
<1> QED BY <1>2, <1>3

-----------------------------------------------------------------------------
(* A part of a score is nothing only if nothing is wrong.                   *)

LEMMA TwoNumbers ==
  ASSUME NEW a \in Int, NEW b \in Int
  PROVE  /\ Max({a, b}) = IF a >= b THEN a ELSE b
         /\ Min({a, b}) = IF a <= b THEN a ELSE b
<1>1. (IF a >= b THEN a ELSE b) \in {a, b} /\ (IF a <= b THEN a ELSE b) \in {a, b}
  OBVIOUS
<1>2. \E x \in {a, b} : \A y \in {a, b} : x >= y
  OBVIOUS
<1>3. \E x \in {a, b} : \A y \in {a, b} : x <= y
  OBVIOUS
<1>4. Max({a, b}) \in {a, b} /\ \A y \in {a, b} : Max({a, b}) >= y
  BY <1>2 DEF Max
<1>5. Min({a, b}) \in {a, b} /\ \A y \in {a, b} : Min({a, b}) <= y
  BY <1>3 DEF Min
<1> QED BY <1>4, <1>5

LEMMA Deducted ==
  ASSUME NEW most \in Nat \ {0}, NEW n \in Nat
  PROVE  Min({most, n}) \in Nat /\ (Min({most, n}) = 0 => n = 0)
<1>1. Min({most, n}) = IF most <= n THEN most ELSE n
  BY TwoNumbers
<1> QED BY <1>1

LEMMA PartIs ==
  ASSUME NEW part \in Nat, NEW whole \in Nat
  PROVE  PartOf(part, whole, 35) \in Nat /\ (PartOf(part, whole, 35) = 0 => part = 0)
<1> DEFINE m == Max({1, whole})
           n == part * 35 + m - 1
<1>1. m \in Nat /\ m >= 1
  BY TwoNumbers
<1> HIDE DEF m
<1>2. n \in Nat /\ (part # 0 => n >= m)
  BY <1>1
<1> HIDE DEF n
<1>3. n \div m \in Nat /\ (n \div m = 0 => n < m)
  BY <1>1, <1>2
<1>4. PartOf(part, whole, 35) = n \div m
  BY DEF PartOf, m, n
<1> QED BY <1>2, <1>3, <1>4, <1>1

LEMMA NoneOf ==
  ASSUME NEW n \in Nat, NEW S, S \subseteq 1..n
  PROVE  Cardinality(S) \in Nat /\ (Cardinality(S) = 0 => S = {})
<1>1. IsFiniteSet(1..n)
  BY FS_Interval
<1>2. IsFiniteSet(S)
  BY <1>1, FS_Subset
<1> QED BY <1>2, FS_CardinalityType, FS_EmptySet

(* A history no longer than the score looks at is looked at as a whole.     *)
LEMMA AllRecent ==
  ASSUME HealthInv, Len(attempted) <= ScoreDepth, Len(sends) <= ScoreDepth
  PROVE  /\ RecentRows = DOMAIN sends /\ DOMAIN RecentAttempts = DOMAIN attempted
         /\ \A i \in DOMAIN attempted : RecentAttempts[i] = attempted[i]
<1>1. ScoreDepth \in Nat \ {0}
  BY HealthAssumption
<1>2. RecentRows = DOMAIN sends
  <2>1. ASSUME NEW i \in DOMAIN sends
        PROVE  Cardinality({j \in DOMAIN sends : sends[j].started > sends[i].started}) < ScoreDepth
    <3> DEFINE later == {j \in DOMAIN sends : sends[j].started > sends[i].started}
    <3>1. Len(sends) \in Nat /\ DOMAIN sends = 1..Len(sends) /\ sends[i].started \in Nat
      BY SendIs DEF Dated
    <3>2. later \subseteq DOMAIN sends /\ i \notin later
      BY <3>1
    <3> HIDE DEF later
    <3>3. /\ IsFiniteSet(1..Len(sends)) /\ Cardinality(1..Len(sends)) = Len(sends)
      <4>1. 1 \in Int /\ Len(sends) \in Int
        BY <3>1
      <4>2. /\ IsFiniteSet(1..Len(sends))
            /\ Cardinality(1..Len(sends)) = IF 1 > Len(sends) THEN 0 ELSE Len(sends) - 1 + 1
        BY <4>1, FS_Interval
      <4> QED BY <3>1, <4>2
    <3>4. Cardinality(later) <= Len(sends) /\ Cardinality(later) # Len(sends) /\ Cardinality(later) \in Nat
      BY <3>1, <3>2, <3>3, FS_Subset, FS_CardinalityType
    <3> QED BY <1>1, <3>1, <3>4 DEF later
  <2> QED BY <2>1 DEF RecentRows
<1>3. RecentAttempts = SubSeq(attempted, 1, Len(attempted))
  <2>1. Len(attempted) - ScoreDepth + 1 \in Int /\ 1 >= Len(attempted) - ScoreDepth + 1
    BY <1>1, SendIs
  <2>2. Max({1, Len(attempted) - ScoreDepth + 1}) = 1
    BY <2>1, TwoNumbers
  <2> QED BY <2>2 DEF RecentAttempts
<1>4. attempted \in Seq(ToSet(attempted)) /\ Len(attempted) \in Nat /\ DOMAIN attempted = 1..Len(attempted)
  BY SendIs DEF HealthInv, IsList
<1>5. /\ RecentAttempts \in Seq(ToSet(attempted)) /\ Len(RecentAttempts) = Len(attempted)
      /\ \A i \in 1..Len(attempted) : RecentAttempts[i] = attempted[i]
  <2>1. \A i \in 1..Len(attempted) : attempted[i] \in ToSet(attempted)
    BY <1>4 DEF ToSet
  <2> QED BY <1>3, <1>4, <2>1, SubSeqProperties
<1>6. DOMAIN RecentAttempts = DOMAIN attempted
  BY <1>4, <1>5, LenProperties
<1> QED BY <1>2, <1>4, <1>5, <1>6

LEMMA FullScore ==
  ASSUME HealthInv, Len(attempted) <= ScoreDepth, Len(sends) <= ScoreDepth, calculateWebhookScore = 100
  PROVE  /\ \A r \in ToSet(sends) : r.state \notin ScoredFailures
         /\ \A a \in ToSet(attempted) : a.signature \notin Unsigned /\ ~OutOfContract(a)
<1> DEFINE Where(states) == {i \in DOMAIN sends : sends[i].state \in states}
           again == {i \in DOMAIN sends : sends[i].kind = "retry"}
           unsigned == {i \in DOMAIN attempted : attempted[i].signature \in Unsigned}
           broken == {i \in DOMAIN attempted : OutOfContract(attempted[i])}
           failures == Where(ScoredFailures)
           dead == Where({"dead_letter"})
<1>1. /\ Len(sends) \in Nat /\ DOMAIN sends = 1..Len(sends)
      /\ Len(attempted) \in Nat /\ DOMAIN attempted = 1..Len(attempted)
  BY SendIs
<1>2. /\ RowsIn(ScoredFailures) = Cardinality(failures) /\ RowsIn({"dead_letter"}) = Cardinality(dead)
      /\ Cardinality({i \in RecentRows : sends[i].kind = "retry"}) = Cardinality(again)
      /\ Cardinality(RecentRows) = Cardinality(DOMAIN sends)
  BY AllRecent DEF RowsIn
<1>3. /\ AttemptsWhere(LAMBDA a : a.signature \in Unsigned) = Cardinality(unsigned)
      /\ AttemptsWhere(OutOfContract) = Cardinality(broken)
  <2>1. /\ unsigned = {i \in DOMAIN RecentAttempts : RecentAttempts[i].signature \in Unsigned}
        /\ broken = {i \in DOMAIN RecentAttempts : OutOfContract(RecentAttempts[i])}
    BY AllRecent
  <2> HIDE DEF unsigned, broken
  <2> QED BY <2>1 DEF AttemptsWhere
<1>4. /\ Cardinality(failures) \in Nat /\ (Cardinality(failures) = 0 => failures = {})
      /\ Cardinality(unsigned) \in Nat /\ (Cardinality(unsigned) = 0 => unsigned = {})
      /\ Cardinality(broken) \in Nat /\ (Cardinality(broken) = 0 => broken = {})
      /\ Cardinality(again) \in Nat /\ Cardinality(dead) \in Nat /\ Cardinality(DOMAIN sends) \in Nat
  <2>1. /\ failures \subseteq 1..Len(sends) /\ dead \subseteq 1..Len(sends) /\ again \subseteq 1..Len(sends)
        /\ unsigned \subseteq 1..Len(attempted) /\ broken \subseteq 1..Len(attempted)
    BY <1>1
  <2> HIDE DEF failures, dead, again, unsigned, broken
  <2> QED BY <1>1, <2>1, NoneOf
<1> DEFINE lost == Min({35, PartOf(Cardinality(failures), Cardinality(DOMAIN sends), 35)})
           tried == Min({15, 3 * Cardinality(again)})
           given == Min({25, 15 * Cardinality(dead)})
           forged == Min({15, 5 * Cardinality(unsigned)})
           odd == Min({10, 2 * Cardinality(broken)})
           open == IF troubled THEN 15 ELSE 0
<1>5. calculateWebhookScore = Max({0, 100 - lost - tried - given - forged - odd - open})
  <2> HIDE DEF failures, dead, again, unsigned, broken
  <2> QED BY <1>2, <1>3 DEF calculateWebhookScore
<1> HIDE DEF failures, dead, again, unsigned, broken
<1>6. /\ lost \in Nat /\ (lost = 0 => Cardinality(failures) = 0)
      /\ forged \in Nat /\ (forged = 0 => Cardinality(unsigned) = 0)
      /\ odd \in Nat /\ (odd = 0 => Cardinality(broken) = 0)
      /\ tried \in Nat /\ given \in Nat /\ open \in Nat
  <2>1. /\ PartOf(Cardinality(failures), Cardinality(DOMAIN sends), 35) \in Nat
        /\ PartOf(Cardinality(failures), Cardinality(DOMAIN sends), 35) = 0 => Cardinality(failures) = 0
    BY <1>4, PartIs
  <2>2. lost \in Nat /\ (lost = 0 => Cardinality(failures) = 0)
    BY <2>1, Deducted
  <2>3. forged \in Nat /\ (forged = 0 => Cardinality(unsigned) = 0)
    BY <1>4, Deducted
  <2>4. odd \in Nat /\ (odd = 0 => Cardinality(broken) = 0)
    BY <1>4, Deducted
  <2>5. tried \in Nat /\ given \in Nat
    <3>1. 3 * Cardinality(again) \in Nat /\ 15 * Cardinality(dead) \in Nat
      BY <1>4
    <3> QED BY <3>1, Deducted
  <2> QED BY <2>2, <2>3, <2>4, <2>5
<1> HIDE DEF lost, tried, given, forged, odd, open
<1>7. lost = 0 /\ forged = 0 /\ odd = 0
  <2> DEFINE score == 100 - lost - tried - given - forged - odd - open
  <2>1. score \in Int
    BY <1>6
  <2>2. Max({0, score}) = IF 0 >= score THEN 0 ELSE score
    BY <2>1, TwoNumbers
  <2>3. score = 100
    <3> HIDE DEF score
    <3> QED BY <1>5, <2>2 DEF score
  <2> QED BY <1>6, <2>3
<1>8. failures = {} /\ unsigned = {} /\ broken = {}
  BY <1>4, <1>6, <1>7
<1> QED BY <1>8 DEF failures, unsigned, broken, ToSet

(* What a replay speaks of is on record.                                    *)
LEMMA OfTheEvent ==
  ASSUME HealthInv, NEW e
  PROVE  ToSet(RowsOf(e)) \subseteq ToSet(sends) /\ ToSet(AttemptsOf(e)) \subseteq ToSet(attempted)
<1> DEFINE rows == {i \in DOMAIN sends : sends[i].event = e}
           ofEvent == {i \in DOMAIN attempted : attempted[i].event = e}
<1>1. ToSet(RowsOf(e)) = {sends[i] : i \in rows}
  <2>1. rows \subseteq DOMAIN sends /\ RowsOf(e) = Selected(sends, rows)
    BY DEF RowsOf
  <2> HIDE DEF rows
  <2> QED BY <2>1, SelectedIs DEF HealthInv
<1>2. ToSet(AttemptsOf(e)) = {attempted[i] : i \in ofEvent}
  <2>1. ofEvent \subseteq DOMAIN attempted /\ AttemptsOf(e) = Selected(attempted, ofEvent)
    BY DEF AttemptsOf
  <2> HIDE DEF ofEvent
  <2> QED BY <2>1, SelectedIs DEF HealthInv
<1> QED BY <1>1, <1>2 DEF ToSet

(* While the history is within what a score looks at, a full score of a     *)
(* live route means that the replays have nothing to report: no rejected    *)
(* attempt, no failed delivery, no advice.                                  *)
THEOREM FullScoreIsCleanHolds == HealthSpec => []FullScoreIsClean
<1>1. HealthInit => HealthInv
  BY NoneIsList DEF HealthInit, HealthInv
<1>2. HealthInv /\ [HealthNext]_healthVars => HealthInv'
  <2> SUFFICES ASSUME HealthInv, [HealthNext]_healthVars
               PROVE  HealthInv'
    OBVIOUS
  <2>1. CASE UNCHANGED <<attempted, sends, ticks>>
    BY <2>1 DEF HealthInv
  <2> QED BY <2>1, RequestRecorded, Delivered DEF HealthNext, healthVars, analyzeEvent, ChangeRoute
<1>3. HealthInv => FullScoreIsClean
  <2> SUFFICES ASSUME HealthInv, calculateWebhookScore = 100,
                      Len(attempted) <= ScoreDepth, Len(sends) <= ScoreDepth,
                      NEW e, NEW replay \in Replays(e)
               PROVE  replay.integrity = "passed" /\ (RowsOf(e) # <<>> => replay.actions = {})
    BY DEF FullScoreIsClean
  <2>1. PICK last : /\ replay = ReplayOf(e, last)
                    /\ RowsOf(e) # <<>> => last \in ToSet(RowsOf(e))
    BY DEF Replays, LastByNumber, LastByStart
  <2>2. /\ \A r \in ToSet(RowsOf(e)) : r.state \notin ScoredFailures
        /\ \A a \in ToSet(AttemptsOf(e)) : a.signature \notin Unsigned /\ ~OutOfContract(a)
    BY FullScore, OfTheEvent
  <2>3. replay.integrity = "passed"
    BY <2>1, <2>2 DEF ReplayOf, Integrity
  <2>4. ASSUME RowsOf(e) # <<>>
        PROVE  replay.actions = {}
    <3>1. last.state \notin ScoredFailures /\ {r \in ToSet(RowsOf(e)) : r.state \in Failures} = {}
      BY <2>1, <2>2, <2>4 DEF Failures, ScoredFailures
    <3>2. Outcome(last, {}) # "recovered" /\ last.state # "dead_letter"
      BY <3>1 DEF Outcome, ScoredFailures
    <3>3. replay.actions = Runbook(AttemptsOf(e), last, {}, Outcome(last, {}))
      BY <2>1, <2>4, <3>1 DEF ReplayOf
    <3> QED BY <2>2, <3>2, <3>3 DEF Runbook
  <2> QED BY <2>3, <2>4
<1> QED BY <1>1, <1>2, <1>3, PTL DEF HealthSpec
=============================================================================
