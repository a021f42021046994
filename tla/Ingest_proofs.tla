---------------------------- MODULE Ingest_proofs ----------------------------
(***************************************************************************)
(* Proofs about Ingest, for any keys, requests, analyses and bounds: the   *)
(* attempts of an event are numbered without a gap or a repetition, the    *)
(* daily limit is exceeded by no more than the handlers at work, a report  *)
(* at rest is that of its rows, and the replay agrees with it.             *)
(***************************************************************************)
EXTENDS Ingest, FiniteSetTheorems, SequenceTheorems, TLAPS

-----------------------------------------------------------------------------
(* The inductive invariant.                                                *)

Stages == {"idle", "find", "count", "insert", "unset", "previous", "accept",
           "observe", "forward", "publish"}
Handler == [pc : Stages, key : Keys, generation : Nat, msg : Messages \cup {"plain"},
            mode : Modes \cup {"trial"}, sequence : Nat, row : Nat]
StoredAttempt == [sequence : Nat, body : {"b1", "b2"}, check : {"passed", "signature", "contract"},
            status : {"ok", "error"}, today : BOOLEAN]

Types ==
  /\ generation \in [Keys -> Nat]
  /\ attempts \in [Keys -> Seq(StoredAttempt)]
  /\ request \in [Requests -> Handler]

(* A row's number is its place.                                            *)
InOrder == \A k \in Keys : \A i \in 1 .. Len(attempts[k]) : attempts[k][i].sequence = i

(* A handler knows an event that is there or one that was removed, and the *)
(* number it will insert is the next one or is taken.                      *)
Claims ==
  \A r \in Requests :
    /\ request[r].generation <= generation[request[r].key]
    /\ request[r].pc = "insert" /\ request[r].generation = generation[request[r].key]
         => request[r].sequence \in 1 .. Len(attempts[request[r].key]) + 1

IngestInv == Types /\ InOrder /\ Claims

(* What the steps count and copy: an event's deliveries are a sequence, an *)
(* endpoint has a mode.                                                    *)
IsSequence(s) == \E S : s \in Seq(S)
Sources ==
  /\ mode \in [Keys -> Modes]
  /\ deliveries = [k \in Keys |-> deliveries[k]]
  /\ \A k \in Keys : IsSequence(deliveries[k])

-----------------------------------------------------------------------------
LEMMA OrderIsGapless == Types /\ InOrder => Gapless
<1> SUFFICES ASSUME Types, InOrder, NEW k \in Keys
             PROVE  {attempts[k][i].sequence : i \in DOMAIN attempts[k]} = 1 .. Len(attempts[k])
  BY DEF Gapless
<1>1. attempts[k] \in Seq(StoredAttempt) /\ DOMAIN attempts[k] = 1 .. Len(attempts[k])
  BY DEF Types
<1> QED BY <1>1 DEF InOrder

LEMMA IdleHandler == BoundsAssumption => NoRequest \in Handler /\ NoRequest.generation = 0
                                         /\ NoRequest.pc = "idle"
BY DEF BoundsAssumption, NoRequest, Handler, Stages

(* A handler goes on, or ends, and the rows keep their numbers.            *)
Renumbered ==
  /\ attempts' \in [Keys -> Seq(StoredAttempt)]
  /\ \A k \in Keys : /\ Len(attempts'[k]) = Len(attempts[k])
                     /\ \A i \in 1 .. Len(attempts[k]) :
                          attempts'[k][i].sequence = attempts[k][i].sequence

LEMMA StepKeeps ==
  ASSUME IngestInv, Renumbered, UNCHANGED generation,
         request' = request \/ \E r \in Requests, q \in Handler :
           /\ request' = [request EXCEPT ![r] = q]
           /\ q.generation <= generation[q.key] /\ q.pc # "insert"
  PROVE  IngestInv'
<1>1. Types'
  BY DEF IngestInv, Types, Renumbered
<1>2. InOrder'
  BY DEF IngestInv, InOrder, Renumbered
<1>3. Claims'
  <2>1. SUFFICES ASSUME NEW x \in Requests
                 PROVE  /\ request'[x].generation <= generation'[request'[x].key]
                        /\ request'[x].pc = "insert"
                             /\ request'[x].generation = generation'[request'[x].key]
                           => request'[x].sequence \in 1 .. Len(attempts'[request'[x].key]) + 1
    BY DEF Claims
  <2>2. CASE request'[x] = request[x]
    BY <2>2 DEF IngestInv, Types, Handler, Claims, Renumbered
  <2>3. CASE request'[x] # request[x]
    BY <2>3 DEF IngestInv, Types
  <2> QED BY <2>2, <2>3
<1> QED BY <1>1, <1>2, <1>3 DEF IngestInv

LEMMA SameRows == IngestInv /\ UNCHANGED attempts => Renumbered
BY DEF IngestInv, Types, Renumbered

LEMMA SetStatusRows ==
  ASSUME IngestInv, NEW r \in Requests, NEW status \in {"ok", "error"}, SetStatus(r, status)
  PROVE  Renumbered
<1> DEFINE k == request[r].key
           new == [i \in DOMAIN attempts[k] |->
                     IF attempts[k][i].sequence = request[r].sequence
                     THEN [attempts[k][i] EXCEPT !.status = status] ELSE attempts[k][i]]
<1>1. k \in Keys /\ attempts[k] \in Seq(StoredAttempt)
  BY DEF IngestInv, Types, Handler
<1>2. /\ new \in Seq(StoredAttempt) /\ Len(new) = Len(attempts[k])
      /\ \A i \in 1 .. Len(attempts[k]) : new[i].sequence = attempts[k][i].sequence
  <2>1. DOMAIN attempts[k] = 1 .. Len(attempts[k]) /\ Len(attempts[k]) \in Nat
    BY <1>1
  <2>2. ASSUME NEW i \in 1 .. Len(attempts[k])
        PROVE  new[i] \in StoredAttempt /\ new[i].sequence = attempts[k][i].sequence
    <3>1. PICK a \in StoredAttempt : a = attempts[k][i]
      BY <1>1
    <3>2. /\ [a EXCEPT !.status = status] \in StoredAttempt
          /\ [a EXCEPT !.status = status].sequence = a.sequence
      BY DEF StoredAttempt
    <3>3. new[i] \in {a, [a EXCEPT !.status = status]}
      BY <2>1, <3>1
    <3> QED BY <3>1, <3>2, <3>3
  <2>3. new \in [1 .. Len(attempts[k]) -> StoredAttempt]
    BY <2>1, <2>2
  <2> QED BY <2>1, <2>2, <2>3
<1>3. attempts' = attempts \/ attempts' = [attempts EXCEPT ![k] = new]
  BY DEF SetStatus
<1> QED BY <1>1, <1>2, <1>3 DEF IngestInv, Types, Renumbered

LEMMA CountKeeps ==
  ASSUME IngestInv, BoundsAssumption, NEW r \in Requests, CountAttempts(r)
  PROVE  IngestInv'
<1> DEFINE k == request[r].key
           n == IF Found(r) THEN Numbered(k) ELSE 1
<1>1. /\ request' = [request EXCEPT ![r].pc = "insert", ![r].sequence = n]
      /\ UNCHANGED <<generation, attempts>>
  BY DEF CountAttempts
<1>2. request[r] \in Handler /\ k \in Keys /\ Len(attempts[k]) \in Nat
  BY DEF IngestInv, Types, Handler
<1>3. n \in 1 .. Len(attempts[k]) + 1
  BY <1>2 DEF Numbered
<1> HIDE DEF n
<1>4. /\ request'[r] = [request[r] EXCEPT !.pc = "insert", !.sequence = n]
      /\ \A x \in Requests : x # r => request'[x] = request[x]
  BY <1>1 DEF IngestInv, Types
<1>5. /\ request'[r] \in Handler /\ request'[r].key = k /\ request'[r].sequence = n
      /\ request'[r].generation = request[r].generation
  <2>1. PICK q \in Handler : q = request[r]
    BY <1>2
  <2> DEFINE q1 == [q EXCEPT !.pc = "insert"]
             q2 == [q1 EXCEPT !.sequence = n]
  <2>2. n \in Nat /\ "insert" \in Stages
    BY <1>2, <1>3 DEF Stages
  <2>3. q1 \in Handler /\ q1.key = q.key /\ q1.generation = q.generation
    BY <2>2 DEF Handler
  <2> HIDE DEF q1
  <2>4. q2 \in Handler /\ q2.key = q.key /\ q2.generation = q.generation /\ q2.sequence = n
    BY <2>2, <2>3 DEF Handler
  <2>5. request'[r] = q2
    BY <1>4, <2>1 DEF q1
  <2> QED BY <2>1, <2>4, <2>5
<1>6. Types'
  BY <1>1, <1>4, <1>5 DEF IngestInv, Types
<1>7. Claims'
  <2>1. SUFFICES ASSUME NEW x \in Requests
                 PROVE  /\ request'[x].generation <= generation'[request'[x].key]
                        /\ request'[x].pc = "insert"
                             /\ request'[x].generation = generation'[request'[x].key]
                           => request'[x].sequence \in 1 .. Len(attempts'[request'[x].key]) + 1
    BY DEF Claims
  <2>2. CASE x = r
    BY <1>1, <1>3, <1>5, <2>2 DEF IngestInv, Claims
  <2>3. CASE x # r
    BY <1>1, <1>4, <2>3 DEF IngestInv, Claims
  <2> QED BY <2>2, <2>3
<1> QED BY <1>1, <1>6, <1>7 DEF IngestInv, InOrder

LEMMA InsertKeeps ==
  ASSUME IngestInv, BoundsAssumption, NEW r \in Requests, InsertAttempt(r)
  PROVE  IngestInv'
<1> DEFINE k == request[r].key
           n == request[r].sequence
<1>1. /\ request[r] \in Handler /\ k \in Keys /\ attempts[k] \in Seq(StoredAttempt)
      /\ request[r].generation <= generation[k] /\ generation[k] \in Nat
  BY DEF IngestInv, Types, Handler, Claims
<1>2. CASE ~(Found(r) /\ ~Taken(k, n))
  <2>1. request' = [request EXCEPT ![r] = NoRequest] /\ UNCHANGED <<generation, attempts>>
    BY <1>2 DEF InsertAttempt, Done
  <2>2. \A x \in Keys : generation[x] \in Nat
    BY DEF IngestInv, Types
  <2>3. NoRequest \in Handler /\ NoRequest.generation <= generation[NoRequest.key]
        /\ NoRequest.pc # "insert"
    BY <2>2, IdleHandler DEF Handler
  <2> QED BY <2>1, <2>3, SameRows, StepKeeps
<1>3. CASE Found(r) /\ ~Taken(k, n)
  <2>1. PICK row, pc : /\ attempts' = [attempts EXCEPT ![k] = Append(attempts[k], row)]
                       /\ row = [sequence |-> n, body |-> Body(request[r].msg),
                                 check |-> Check(request[r].msg), status |-> FirstStatus(r),
                                 today |-> TRUE]
                       /\ request' = [request EXCEPT ![r].pc = pc]
                       /\ pc \in AfterInsert(r)
    BY <1>3 DEF InsertAttempt, Advance
  <2>2. n \in 1 .. Len(attempts[k]) + 1
    BY <1>3 DEF Found, InsertAttempt, IngestInv, Claims
  <2>3. n = Len(attempts[k]) + 1
    <3>1. \A i \in 1 .. Len(attempts[k]) : attempts[k][i].sequence # n
      BY <1>1, <1>3 DEF Taken
    <3>2. n \notin 1 .. Len(attempts[k])
      BY <1>1, <3>1 DEF IngestInv, InOrder
    <3> QED BY <1>1, <2>2, <3>2
  <2>4. FirstStatus(r) \in {"ok", "error"}
    <3>1. ResolveScenarioStep(n) \in {"ok", "error"}
      BY <1>1, <2>2 DEF ResolveScenarioStep, BoundsAssumption
    <3> QED BY <3>1 DEF FirstStatus
  <2>5. row \in StoredAttempt /\ row.sequence = n
    BY <1>1, <2>1, <2>4 DEF StoredAttempt, Body, Check, Handler
  <2>6. pc \in Stages /\ pc # "insert"
    BY <2>1 DEF AfterInsert, Stages
  <2>7. /\ request'[r] = [request[r] EXCEPT !.pc = pc]
        /\ \A x \in Requests : x # r => request'[x] = request[x]
    BY <2>1 DEF IngestInv, Types
  <2>8. request'[r] \in Handler /\ request'[r].pc = pc /\ request'[r].key = k
        /\ request'[r].generation = request[r].generation
    BY <1>1, <2>6, <2>7 DEF Handler
  <2>9. UNCHANGED generation
    BY DEF InsertAttempt
  <2>10. /\ attempts'[k] = Append(attempts[k], row) /\ Len(attempts'[k]) = Len(attempts[k]) + 1
         /\ \A x \in Keys : x # k => attempts'[x] = attempts[x]
    BY <1>1, <2>1, <2>5 DEF IngestInv, Types
  <2>11. Types'
    BY <1>1, <2>1, <2>5, <2>7, <2>8, <2>9 DEF IngestInv, Types
  <2>12. InOrder'
    <3>1. ASSUME NEW i \in 1 .. Len(attempts'[k])
          PROVE  attempts'[k][i].sequence = i
      <4>1. CASE i \in 1 .. Len(attempts[k])
        <5>1. attempts'[k][i] = attempts[k][i]
          BY <1>1, <2>5, <2>10, <4>1
        <5> QED BY <1>1, <4>1, <5>1 DEF IngestInv, InOrder
      <4>2. CASE i = Len(attempts[k]) + 1
        <5>1. attempts'[k][i] = row
          BY <1>1, <2>5, <2>10, <4>2
        <5> QED BY <2>1, <2>3, <4>2, <5>1
      <4> QED BY <1>1, <2>10, <4>1, <4>2
    <3> QED BY <2>10, <3>1 DEF IngestInv, InOrder
  <2>13. Claims'
    <3>1. ASSUME NEW x \in Keys
          PROVE  /\ Len(attempts[x]) \in Nat /\ Len(attempts'[x]) \in Nat
                 /\ Len(attempts[x]) <= Len(attempts'[x])
      <4>1. attempts[x] \in Seq(StoredAttempt)
        BY DEF IngestInv, Types
      <4>2. CASE x = k
        BY <2>10, <4>1, <4>2
      <4>3. CASE x # k
        BY <2>10, <4>1, <4>3
      <4> QED BY <4>2, <4>3
    <3>2. \A x \in Requests : request[x].key \in Keys /\ request[x].sequence \in Nat
      BY DEF IngestInv, Types, Handler
    <3>3. SUFFICES ASSUME NEW x \in Requests
                   PROVE  /\ request'[x].generation <= generation'[request'[x].key]
                          /\ request'[x].pc = "insert"
                               /\ request'[x].generation = generation'[request'[x].key]
                             => request'[x].sequence \in 1 .. Len(attempts'[request'[x].key]) + 1
      BY DEF Claims
    <3>4. CASE x = r
      BY <1>1, <2>6, <2>8, <2>9, <3>4
    <3>5. CASE x # r
      <4>1. request'[x] = request[x] /\ generation' = generation
        BY <2>7, <2>9, <3>5
      <4> QED BY <3>1, <3>2, <4>1 DEF IngestInv, Claims
    <3> QED BY <3>4, <3>5
  <2> QED BY <2>11, <2>12, <2>13 DEF IngestInv
<1> QED BY <1>2, <1>3

-----------------------------------------------------------------------------
LEMMA CleanupKeeps ==
  ASSUME IngestInv, NEW k \in Keys, CleanupExpired(k)
  PROVE  IngestInv'
<1>1. /\ generation' = [generation EXCEPT ![k] = generation[k] + 1]
      /\ attempts' = [attempts EXCEPT ![k] = <<>>] /\ UNCHANGED request
  BY DEF CleanupExpired, Bump
<1>2. generation \in [Keys -> Nat] /\ attempts \in [Keys -> Seq(StoredAttempt)]
  BY DEF IngestInv, Types
<1>3. Types'
  BY <1>1 DEF IngestInv, Types
<1>4. InOrder'
  BY <1>1, <1>2 DEF IngestInv, InOrder
<1>5. Claims'
  <2>1. SUFFICES ASSUME NEW x \in Requests
                 PROVE  /\ request[x].generation <= generation'[request[x].key]
                        /\ request[x].pc = "insert"
                             /\ request[x].generation = generation'[request[x].key]
                           => request[x].sequence \in 1 .. Len(attempts'[request[x].key]) + 1
    BY <1>1 DEF Claims
  <2>2. request[x].key \in Keys /\ request[x].generation \in Nat
        /\ request[x].generation <= generation[request[x].key]
    BY DEF IngestInv, Types, Handler, Claims
  <2>3. CASE request[x].key = k
    BY <1>1, <1>2, <2>2, <2>3
  <2>4. CASE request[x].key # k
    BY <1>1, <1>2, <2>2, <2>4 DEF IngestInv, Claims
  <2> QED BY <2>3, <2>4
<1> QED BY <1>3, <1>4, <1>5 DEF IngestInv

LEMMA DayKeeps ==
  ASSUME IngestInv, DayEnds
  PROVE  IngestInv'
<1>1. ASSUME NEW k \in Keys
      PROVE  /\ attempts'[k] \in Seq(StoredAttempt) /\ Len(attempts'[k]) = Len(attempts[k])
             /\ \A i \in 1 .. Len(attempts[k]) : attempts'[k][i].sequence = attempts[k][i].sequence
  <2>1. attempts[k] \in Seq(StoredAttempt)
    BY DEF IngestInv, Types
  <2>2. attempts'[k] = [i \in 1 .. Len(attempts[k]) |-> [attempts[k][i] EXCEPT !.today = FALSE]]
    BY <2>1 DEF DayEnds
  <2>3. ASSUME NEW i \in 1 .. Len(attempts[k])
        PROVE  /\ [attempts[k][i] EXCEPT !.today = FALSE] \in StoredAttempt
               /\ [attempts[k][i] EXCEPT !.today = FALSE].sequence = attempts[k][i].sequence
    <3>1. PICK a \in StoredAttempt : a = attempts[k][i]
      BY <2>1
    <3>2. /\ [a EXCEPT !.today = FALSE] \in StoredAttempt
          /\ [a EXCEPT !.today = FALSE].sequence = a.sequence
      BY DEF StoredAttempt
    <3> QED BY <3>1, <3>2
  <2>4. /\ attempts'[k] \in [1 .. Len(attempts[k]) -> StoredAttempt]
        /\ \A i \in 1 .. Len(attempts[k]) : attempts'[k][i].sequence = attempts[k][i].sequence
    BY <2>2, <2>3
  <2>5. Len(attempts[k]) \in Nat
    BY <2>1
  <2> QED BY <2>4, <2>5
<1>2. attempts' \in [Keys -> Seq(StoredAttempt)]
  <2>1. attempts' = [k \in Keys |-> attempts'[k]]
    BY DEF DayEnds
  <2> QED BY <1>1, <2>1
<1> QED BY <1>1, <1>2, StepKeeps DEF DayEnds, Renumbered

LEMMA DoneKeeps ==
  ASSUME IngestInv, BoundsAssumption, NEW r \in Requests, Done(r), Renumbered,
         UNCHANGED generation
  PROVE  IngestInv'
<1>1. NoRequest.key \in Keys /\ generation[NoRequest.key] \in Nat
  BY IdleHandler DEF Handler, IngestInv, Types
<1>2. NoRequest \in Handler /\ NoRequest.generation <= generation[NoRequest.key]
      /\ NoRequest.pc # "insert"
  BY <1>1, IdleHandler
<1> QED BY <1>2, StepKeeps DEF Done

LEMMA AdvanceKeeps ==
  ASSUME IngestInv, NEW r \in Requests, NEW pc \in Stages \ {"insert"}, Advance(r, pc),
         Renumbered, UNCHANGED generation
  PROVE  IngestInv'
<1>1. PICK q \in Handler : q = request[r]
  BY DEF IngestInv, Types
<1> DEFINE p == [q EXCEPT !.pc = pc]
<1>2. p \in Handler /\ p.pc = pc /\ p.key = q.key /\ p.generation = q.generation
  BY DEF Handler
<1>3. request' = [request EXCEPT ![r] = p]
  BY <1>1 DEF Advance
<1>4. p.generation <= generation[p.key] /\ p.pc # "insert"
  BY <1>1, <1>2 DEF IngestInv, Claims
<1> HIDE DEF p
<1> QED BY <1>2, <1>3, <1>4, StepKeeps

LEMMA ReceiveKeeps ==
  ASSUME IngestInv, Sources, BoundsAssumption,
         NEW r \in Requests, NEW k \in Keys, NEW msg \in Messages, Receive(r, k, msg)
  PROVE  IngestInv'
<1>1. Renumbered /\ UNCHANGED generation
  BY SameRows DEF Receive, tables
<1>2. CASE UNCHANGED request
  BY <1>1, <1>2, StepKeeps
<1>3. CASE request' # request
  <2>1. PICK m \in Modes : m = mode[k]
    BY DEF Sources
  <2>2. PICK z \in Handler : z = NoRequest /\ z.generation = 0
    BY IdleHandler
  <2> DEFINE q1 == [z EXCEPT !.pc = "find"]
             q2 == [q1 EXCEPT !.key = k]
             q3 == [q2 EXCEPT !.msg = msg]
             q4 == [q3 EXCEPT !.mode = m]
  <2>3. request' = [request EXCEPT ![r] = q4]
    BY <1>3, <2>1, <2>2 DEF Receive
  <2>4. q1 \in Handler /\ q1.pc = "find" /\ q1.generation = 0
    BY <2>2 DEF Handler, Stages
  <2> HIDE DEF q1
  <2>5. q2 \in Handler /\ q2.pc = "find" /\ q2.generation = 0 /\ q2.key = k
    BY <2>4 DEF Handler
  <2> HIDE DEF q2
  <2>6. q3 \in Handler /\ q3.pc = "find" /\ q3.generation = 0 /\ q3.key = k
    BY <2>5 DEF Handler
  <2> HIDE DEF q3
  <2>7. q4 \in Handler /\ q4.pc = "find" /\ q4.generation = 0 /\ q4.key = k
    BY <2>6 DEF Handler
  <2> HIDE DEF q4
  <2>8. q4.generation <= generation[q4.key] /\ q4.pc # "insert"
    BY <2>7 DEF IngestInv, Types
  <2> QED BY <1>1, <2>3, <2>7, <2>8, StepKeeps
<1> QED BY <1>2, <1>3

LEMMA FindKeeps ==
  ASSUME IngestInv, NEW r \in Requests, FindEvent(r)
  PROVE  IngestInv'
<1>1. PICK p \in Handler : p = request[r]
  BY DEF IngestInv, Types
<1>2. PICK g \in Nat : g = generation[p.key]
  BY <1>1 DEF IngestInv, Types, Handler
<1> DEFINE q1 == [p EXCEPT !.pc = "count"]
           q2 == [q1 EXCEPT !.generation = g]
<1>3. q1 \in Handler /\ q1.pc = "count" /\ q1.key = p.key
  BY DEF Handler, Stages
<1>4. request' = [request EXCEPT ![r] = q2] /\ UNCHANGED <<generation, attempts>>
  BY <1>1, <1>2 DEF FindEvent
<1> HIDE DEF q1
<1>5. q2 \in Handler /\ q2.pc = "count" /\ q2.key = p.key /\ q2.generation = g
  BY <1>3 DEF Handler
<1> HIDE DEF q2
<1>6. q2.generation <= generation[q2.key] /\ q2.pc # "insert"
  BY <1>2, <1>5
<1>7. Renumbered /\ UNCHANGED generation
  BY <1>4, SameRows
<1>8. \E x \in Requests, q \in Handler : /\ request' = [request EXCEPT ![x] = q]
                                          /\ q.generation <= generation[q.key] /\ q.pc # "insert"
  BY <1>4, <1>5, <1>6
<1> QED BY <1>7, <1>8, StepKeeps

LEMMA ObserveInsertKeeps ==
  ASSUME IngestInv, Sources, BoundsAssumption, NEW r \in Requests, ObserveInsert(r)
  PROVE  IngestInv'
<1>1. Renumbered /\ UNCHANGED generation
  BY SameRows DEF ObserveInsert
<1>2. CASE Done(r)
  BY <1>1, <1>2, DoneKeeps
<1>3. CASE ~Done(r)
  <2>1. PICK p \in Handler : p = request[r]
    BY DEF IngestInv, Types
  <2>2. PICK n \in Nat : n = Len(deliveries[p.key]) + 1
    <3>1. PICK S : deliveries[p.key] \in Seq(S)
      BY <2>1 DEF Sources, IsSequence, Handler
    <3> QED BY <3>1
  <2> DEFINE q1 == [p EXCEPT !.pc = "forward"]
             q2 == [q1 EXCEPT !.row = n]
  <2>3. q1 \in Handler /\ q1.pc = "forward" /\ q1.key = p.key /\ q1.generation = p.generation
    BY DEF Handler, Stages
  <2>4. request' = [request EXCEPT ![r] = q2]
    BY <1>3, <2>1, <2>2 DEF ObserveInsert
  <2> HIDE DEF q1
  <2>5. q2 \in Handler /\ q2.pc = "forward" /\ q2.key = p.key /\ q2.generation = p.generation
    BY <2>3 DEF Handler
  <2> HIDE DEF q2
  <2>6. q2.generation <= generation[q2.key] /\ q2.pc # "insert"
    BY <2>1, <2>5 DEF IngestInv, Claims
  <2>7. \E x \in Requests, q \in Handler : /\ request' = [request EXCEPT ![x] = q]
                                            /\ q.generation <= generation[q.key] /\ q.pc # "insert"
    BY <2>4, <2>5, <2>6
  <2> QED BY <1>1, <2>7, StepKeeps
<1> QED BY <1>2, <1>3

(* The steps of a handler.                                                 *)
LEMMA HandlerKeeps ==
  ASSUME IngestInv, Sources, BoundsAssumption, NEW r \in Requests,
         RequestStep(r) \/ PublishThrows(r) \/ HandlerDies(r)
  PROVE  IngestInv'
<1> {"publish", "accept"} \subseteq Stages \ {"insert"}
  BY DEF Stages
<1>1. CASE ReplyUnset(r) \/ ObserveFailed(r) \/ PublishThrows(r)
  <2>1. SetStatus(r, "error") /\ Done(r) /\ UNCHANGED generation
    BY <1>1 DEF ReplyUnset, ObserveFailed, PublishThrows
  <2> QED BY <2>1, SetStatusRows, DoneKeeps
<1>2. CASE LookForDelivery(r)
  <2>1. PICK pc \in {"publish", "accept"} : Advance(r, pc)
    BY <1>2 DEF LookForDelivery
  <2> QED BY <1>2, <2>1, SameRows, AdvanceKeeps DEF LookForDelivery, tables
<1>3. CASE Accept(r)
  <2>1. Advance(r, "publish") \/ Done(r)
    BY <1>3 DEF Accept
  <2>2. UNCHANGED <<generation, attempts>>
    BY <1>3 DEF Accept
  <2> QED BY <2>1, <2>2, SameRows, AdvanceKeeps, DoneKeeps
<1>4. CASE ObserveAnswered(r)
  <2>1. PICK status \in {"ok", "error"} : SetStatus(r, status)
    BY <1>4 DEF ObserveAnswered
  <2>2. Advance(r, "publish") /\ UNCHANGED generation
    BY <1>4 DEF ObserveAnswered
  <2> QED BY <2>1, <2>2, SetStatusRows, AdvanceKeeps
<1>5. CASE Publish(r) \/ HandlerDies(r)
  <2>1. Done(r) /\ UNCHANGED <<generation, attempts>>
    BY <1>5 DEF Publish, HandlerDies, tables
  <2> QED BY <2>1, SameRows, DoneKeeps
<1> QED BY <1>1, <1>2, <1>3, <1>4, <1>5, FindKeeps, CountKeeps, InsertKeeps, ObserveInsertKeeps
        DEF RequestStep

(* The others leave handlers, attempts and generations alone.              *)
LEMMA RestKeeps ==
  ASSUME IngestInv, UNCHANGED <<request, attempts, generation>>
  PROVE  IngestInv'
BY DEF IngestInv, Types, InOrder, Claims

-----------------------------------------------------------------------------
(* Sources.                                                                *)

LEMMA SequenceSteps ==
  ASSUME NEW s, IsSequence(s), NEW e, NEW n
  PROVE  IsSequence(Append(s, e)) /\ IsSequence([s EXCEPT ![n] = e])
<1>1. PICK S : s \in Seq(S)
  BY DEF IsSequence
<1>2. s \in Seq(S \cup {e})
  BY <1>1
<1>3. Append(s, e) \in Seq(S \cup {e})
  BY <1>2
<1>4. [s EXCEPT ![n] = e] \in Seq(S \cup {e})
  <2>1. s \in [1 .. Len(s) -> S \cup {e}] /\ Len(s) \in Nat
    BY <1>2
  <2>2. [s EXCEPT ![n] = e] \in [1 .. Len(s) -> S \cup {e}]
    BY <2>1
  <2> QED BY <2>1, <2>2
<1> QED BY <1>3, <1>4 DEF IsSequence

LEMMA SourcesStep ==
  ASSUME Sources, UNCHANGED mode, NEW k \in Keys, NEW s, IsSequence(s),
         deliveries' = [deliveries EXCEPT ![k] = s]
  PROVE  Sources'
BY DEF Sources

LEMMA SourcesKept ==
  ASSUME Sources, IngestInv, [Next]_vars
  PROVE  Sources'
<1>1. CASE UNCHANGED <<mode, deliveries>>
  BY <1>1 DEF Sources
<1>2. ASSUME NEW r \in Requests, Accept(r) \/ ObserveInsert(r)
      PROVE  Sources'
  <2> DEFINE k == request[r].key
  <2>1. k \in Keys /\ IsSequence(deliveries[k]) /\ UNCHANGED mode
    BY <1>2 DEF IngestInv, Types, Handler, Sources, Accept, ObserveInsert
  <2>2. PICK d : \/ deliveries' = deliveries
                 \/ deliveries' = [deliveries EXCEPT ![k] = Append(deliveries[k], d)]
    BY <1>2 DEF Accept, ObserveInsert
  <2>3. IsSequence(Append(deliveries[k], d))
    BY <2>1, SequenceSteps
  <2> QED BY <1>1, <2>1, <2>2, <2>3, SourcesStep
<1>3. ASSUME NEW r \in Requests, ObserveAnswered(r) \/ ObserveFailed(r) \/ PublishThrows(r)
      PROVE  Sources'
  <2> DEFINE k == request[r].key
             n == request[r].row
  <2>1. k \in Keys /\ IsSequence(deliveries[k]) /\ UNCHANGED mode
    BY <1>3 DEF IngestInv, Types, Handler, Sources, ObserveAnswered, ObserveFailed, PublishThrows
  <2>2. PICK state : SetRow(r, state)
    BY <1>3 DEF ObserveAnswered, ObserveFailed, PublishThrows
  <2>3. deliveries' = deliveries \/ deliveries' = [deliveries EXCEPT ![k] =
          [deliveries[k] EXCEPT ![n] = [deliveries[k][n] EXCEPT !.state = state]]]
    BY <2>2 DEF SetRow
  <2>4. IsSequence([deliveries[k] EXCEPT ![n] = [deliveries[k][n] EXCEPT !.state = state]])
    BY <2>1, SequenceSteps
  <2> QED BY <1>1, <2>1, <2>3, <2>4, SourcesStep
<1>4. ASSUME NEW k \in Keys, NEW n \in DOMAIN deliveries[k], NEW outcome, Deliver(k, n, outcome)
      PROVE  Sources'
  <2> DEFINE s == [deliveries[k] EXCEPT ![n] = [deliveries[k][n] EXCEPT !.state = outcome]]
  <2>1. IsSequence(deliveries[k]) /\ UNCHANGED mode
    BY <1>4 DEF Sources, Deliver
  <2>2. IsSequence(s)
    BY <2>1, SequenceSteps
  <2>3. CASE deliveries' = [deliveries EXCEPT ![k] = s]
    BY <2>1, <2>2, <2>3, SourcesStep
  <2>4. CASE \E d : deliveries' = [deliveries EXCEPT ![k] = Append(s, d)]
    <3>1. PICK d : deliveries' = [deliveries EXCEPT ![k] = Append(s, d)]
      BY <2>4
    <3>2. IsSequence(Append(s, d))
      BY <2>2, SequenceSteps
    <3> QED BY <2>1, <3>1, <3>2, SourcesStep
  <2> QED BY <1>4, <2>3, <2>4 DEF Deliver
<1>5. ASSUME NEW k \in Keys, NEW n \in DOMAIN deliveries[k], RetryByHand(k, n)
      PROVE  Sources'
  <2>1. PICK d : deliveries' = [deliveries EXCEPT ![k] = Append(deliveries[k], d)]
    BY <1>5 DEF RetryByHand
  <2>2. IsSequence(Append(deliveries[k], d)) /\ UNCHANGED mode
    BY <1>5, SequenceSteps DEF RetryByHand, Sources
  <2> QED BY <2>1, <2>2, SourcesStep
<1>6. ASSUME NEW k \in Keys, NEW to \in Modes, SwitchMode(k, to)
      PROVE  Sources'
  BY <1>6 DEF SwitchMode, Sources, tables
<1>7. ASSUME NEW k \in Keys, CleanupExpired(k)
      PROVE  Sources'
  <2>1. <<>> \in Seq({}) /\ IsSequence(<<>>)
    BY DEF IsSequence
  <2> QED BY <1>7, <2>1, SourcesStep DEF CleanupExpired
<1> QED
  BY <1>1, <1>2, <1>3, <1>4, <1>5, <1>6, <1>7
  DEF Next, vars, tables, Provider, Receive, DeliveryWorker, Operator, RequestStep, FindEvent,
      CountAttempts, InsertAttempt, ReplyUnset, LookForDelivery, Publish, HandlerDies,
      AnalysisStep, TakeAnalysis, ReadAttempts, ReadDeliveries, WriteReport, WorkerDies, DayEnds

-----------------------------------------------------------------------------
(* The theorem.                                                            *)

LEMMA InitKeeps == BoundsAssumption /\ Init => IngestInv /\ Sources
<1> SUFFICES ASSUME BoundsAssumption, Init PROVE IngestInv /\ Sources
  OBVIOUS
<1>1. NoRequest \in Handler /\ NoRequest.generation = 0 /\ NoRequest.pc = "idle"
  BY IdleHandler
<1>2. Types
  BY <1>1 DEF Init, Types
<1>3. InOrder
  BY DEF Init, InOrder
<1>4. Claims
  BY <1>1 DEF Init, Claims, Handler
<1>5. Sources
  <2>1. <<>> \in Seq({}) /\ IsSequence(<<>>)
    BY DEF IsSequence
  <2> QED BY <2>1 DEF Init, Sources
<1> QED BY <1>2, <1>3, <1>4, <1>5 DEF IngestInv

LEMMA NextKeeps ==
  BoundsAssumption /\ IngestInv /\ Sources /\ [Next]_vars => IngestInv' /\ Sources'
<1> SUFFICES ASSUME BoundsAssumption, IngestInv, Sources, [Next]_vars
             PROVE  IngestInv'
  BY SourcesKept
<1>1. CASE UNCHANGED vars
  BY <1>1, RestKeeps DEF vars, tables
<1>2. CASE Provider
  BY <1>2, ReceiveKeeps DEF Provider
<1>3. CASE DeliveryWorker \/ Operator
  BY <1>3, RestKeeps DEF DeliveryWorker, Operator, Deliver, RetryByHand, SwitchMode, tables
<1>4. CASE \E a \in Analyst : AnalysisStep(a) \/ WorkerDies(a)
  BY <1>4, RestKeeps DEF AnalysisStep, TakeAnalysis, ReadAttempts, ReadDeliveries, WriteReport,
                         WorkerDies, tables
<1> QED BY <1>1, <1>2, <1>3, <1>4, HandlerKeeps, CleanupKeeps, DayKeeps DEF Next

(* An event's attempts are numbered 1, 2, 3, ... without a gap, for any    *)
(* number of requests at once.                                             *)
THEOREM GaplessHolds == Spec => []Gapless
<1>1. IngestInv => Gapless
  BY OrderIsGapless DEF IngestInv
<1> QED BY <1>1, InitKeeps, NextKeeps, BoundsAssumption, PTL DEF Spec

-----------------------------------------------------------------------------
-----------------------------------------------------------------------------
(* The daily quota.                                                        *)

(* The attempts that count today, and the handlers that passed the quota   *)
(* and have not stored theirs.                                             *)
Counted == {x \in Keys \X (1 .. MaxRequests) :
              x[2] \in DOMAIN attempts[x[1]] /\ attempts[x[1]][x[2]].today}
Admitted == {r \in Requests : request[r].pc \in {"find", "count", "insert"}}

(* The last request that passed found fewer attempts than the limit.       *)
QuotaInv ==
  DailyLimit > 0 => Cardinality(Counted) + Cardinality(Admitted)
                      < DailyLimit + Cardinality(Requests)

LEMMA QuotaSets ==
  ASSUME BoundsAssumption
  PROVE  /\ IsFiniteSet(Counted) /\ IsFiniteSet(Admitted) /\ IsFiniteSet(Requests)
         /\ Cardinality(Counted) \in Nat /\ Cardinality(Admitted) \in Nat
         /\ Cardinality(Requests) \in Nat /\ DailyLimit \in Nat
         /\ Cardinality(Admitted) <= Cardinality(Requests)
         /\ Usage = Cardinality(Counted)
<1>1. IsFiniteSet(Keys \X (1 .. MaxRequests))
  <2>1. IsFiniteSet(1 .. MaxRequests) /\ IsFiniteSet(Keys)
    BY FS_Interval DEF BoundsAssumption
  <2> QED BY <2>1, FS_Product
<1>2. Counted \in SUBSET (Keys \X (1 .. MaxRequests)) /\ Admitted \in SUBSET Requests
  BY DEF Counted, Admitted
<1>3. IsFiniteSet(Counted) /\ IsFiniteSet(Admitted) /\ IsFiniteSet(Requests)
      /\ Cardinality(Admitted) <= Cardinality(Requests)
  BY <1>1, <1>2, FS_Subset DEF BoundsAssumption
<1> QED BY <1>3, FS_CardinalityType DEF BoundsAssumption, Usage, Counted

LEMMA FewerCounted ==
  ASSUME BoundsAssumption, QuotaInv, Counted' \subseteq Counted, Admitted' \subseteq Admitted
  PROVE  QuotaInv'
<1>1. Cardinality(Counted') <= Cardinality(Counted) /\ Cardinality(Admitted') <= Cardinality(Admitted)
      /\ Cardinality(Counted') \in Nat /\ Cardinality(Admitted') \in Nat
  BY QuotaSets, FS_Subset, FS_CardinalityType
<1> QED BY <1>1, QuotaSets DEF QuotaInv

(* A step that leaves the day of every attempt as it is.                   *)
SameDays ==
  \A k \in Keys : /\ DOMAIN attempts'[k] = DOMAIN attempts[k]
                  /\ \A i \in DOMAIN attempts[k] :
                       attempts'[k][i].today = attempts[k][i].today
LEMMA SameDaysCounted == SameDays => Counted' = Counted
BY DEF SameDays, Counted

LEMMA StatusKeepsDays ==
  ASSUME IngestInv, NEW r \in Requests, NEW status, SetStatus(r, status)
  PROVE  SameDays
<1> DEFINE k == request[r].key
           new == [i \in DOMAIN attempts[k] |->
                     IF attempts[k][i].sequence = request[r].sequence
                     THEN [attempts[k][i] EXCEPT !.status = status] ELSE attempts[k][i]]
<1>1. k \in Keys /\ attempts[k] \in Seq(StoredAttempt) /\ attempts \in [Keys -> Seq(StoredAttempt)]
  BY DEF IngestInv, Types, Handler
<1>2. \A i \in DOMAIN attempts[k] : new[i].today = attempts[k][i].today
  <2>1. \A a \in StoredAttempt : [a EXCEPT !.status = status].today = a.today
    BY DEF StoredAttempt
  <2> QED BY <1>1, <2>1
<1>3. DOMAIN new = DOMAIN attempts[k]
  OBVIOUS
<1>4. attempts' = attempts \/ attempts' = [attempts EXCEPT ![k] = new]
  BY DEF SetStatus
<1> HIDE DEF new
<1> QED BY <1>1, <1>2, <1>3, <1>4 DEF SameDays

(* A handler goes on or ends.                                              *)
LEMMA AdmittedLess ==
  ASSUME IngestInv, BoundsAssumption,
         \/ UNCHANGED request
         \/ \E r \in Requests : Done(r)
         \/ \E r \in Requests, pc \in Stages \ {"find", "count", "insert"} : Advance(r, pc)
         \/ \E r \in Requests : FindEvent(r) \/ CountAttempts(r) \/ ObserveInsert(r)
  PROVE  Admitted' \subseteq Admitted
<1>0. request \in [Requests -> Handler]
  BY DEF IngestInv, Types
<1>1. CASE UNCHANGED request
  BY <1>1 DEF Admitted
<1>2. ASSUME NEW r \in Requests, Done(r)
      PROVE  Admitted' \subseteq Admitted
  BY <1>0, <1>2, IdleHandler DEF Done, Admitted
<1>3. ASSUME NEW r \in Requests, NEW pc \in Stages \ {"find", "count", "insert"}, Advance(r, pc)
      PROVE  Admitted' \subseteq Admitted
  BY <1>0, <1>3 DEF Advance, Admitted, Handler
<1>4. ASSUME NEW r \in Requests, FindEvent(r) \/ CountAttempts(r)
      PROVE  Admitted' \subseteq Admitted
  <2>1. r \in Admitted
    BY <1>4 DEF FindEvent, CountAttempts, Admitted
  <2>2. \A x \in Requests \ {r} : request'[x] = request[x]
    BY <1>0, <1>4 DEF FindEvent, CountAttempts
  <2> QED BY <2>1, <2>2 DEF Admitted
<1>5. ASSUME NEW r \in Requests, ObserveInsert(r)
      PROVE  Admitted' \subseteq Admitted
  <2>1. CASE Done(r)
    BY <1>2, <2>1
  <2>2. CASE ~Done(r)
    <3>1. PICK n : request' = [request EXCEPT ![r].pc = "forward", ![r].row = n]
      BY <1>5, <2>2 DEF ObserveInsert
    <3>2. request' = [request EXCEPT ![r] = [request[r] EXCEPT !.pc = "forward", !.row = n]]
      BY <1>0, <3>1
    <3>3. request'[r].pc = "forward" /\ \A x \in Requests \ {r} : request'[x] = request[x]
      BY <1>0, <3>2 DEF Handler
    <3> QED BY <3>3 DEF Admitted
  <2> QED BY <2>1, <2>2
<1> QED BY <1>1, <1>2, <1>3, <1>4, <1>5

LEMMA QuotaKept ==
  ASSUME BoundsAssumption, IngestInv, QuotaInv, [Next]_vars
  PROVE  QuotaInv'
<1>0. request \in [Requests -> Handler] /\ attempts \in [Keys -> Seq(StoredAttempt)]
  BY DEF IngestInv, Types
<1>1. ASSUME UNCHANGED attempts,
             \/ UNCHANGED request
             \/ \E r \in Requests : Done(r)
             \/ \E r \in Requests, pc \in Stages \ {"find", "count", "insert"} : Advance(r, pc)
             \/ \E r \in Requests : FindEvent(r) \/ CountAttempts(r) \/ ObserveInsert(r)
      PROVE  QuotaInv'
  BY <1>1, AdmittedLess, FewerCounted DEF Counted
<1>2. ASSUME NEW r \in Requests,
             \/ ReplyUnset(r) \/ ObserveAnswered(r) \/ ObserveFailed(r) \/ PublishThrows(r)
      PROVE  QuotaInv'
  <2>1. \E status : SetStatus(r, status)
    BY <1>2 DEF ReplyUnset, ObserveAnswered, ObserveFailed, PublishThrows
  <2>2. Done(r) \/ Advance(r, "publish")
    BY <1>2 DEF ReplyUnset, ObserveAnswered, ObserveFailed, PublishThrows
  <2>3. "publish" \in Stages \ {"find", "count", "insert"}
    BY DEF Stages
  <2> QED BY <2>1, <2>2, <2>3, StatusKeepsDays, SameDaysCounted, AdmittedLess, FewerCounted
<1>3. ASSUME NEW r \in Requests, NEW k \in Keys, NEW msg \in Messages, Receive(r, k, msg)
      PROVE  QuotaInv'
  <2>1. CASE UNCHANGED request
    BY <1>1, <1>3, <2>1 DEF Receive, tables
  <2>2. CASE ~UNCHANGED request
    <3>1. ~OverQuota /\ Counted' = Counted
      BY <1>3, <2>2 DEF Receive, tables, Counted
    <3>2. DailyLimit > 0 => Cardinality(Counted) < DailyLimit
      BY <3>1, QuotaSets DEF OverQuota
    <3>3. Admitted' \in SUBSET Requests
      BY DEF Admitted
    <3>4. Cardinality(Admitted') <= Cardinality(Requests) /\ Cardinality(Admitted') \in Nat
      BY <3>3, QuotaSets, FS_Subset, FS_CardinalityType
    <3> QED BY <3>1, <3>2, <3>4, QuotaSets DEF QuotaInv
  <2> QED BY <2>1, <2>2
<1>4. ASSUME NEW r \in Requests, InsertAttempt(r)
      PROVE  QuotaInv'
  <2> DEFINE k == request[r].key
  <2>1. CASE Done(r) /\ UNCHANGED attempts
    BY <1>1, <2>1
  <2>2. CASE ~(Done(r) /\ UNCHANGED attempts)
    <3> DEFINE row == [sequence |-> request[r].sequence, body |-> Body(request[r].msg),
                       check |-> Check(request[r].msg), status |-> FirstStatus(r),
                       today |-> TRUE]
    <3>1. PICK pc \in AfterInsert(r) :
            /\ attempts' = [attempts EXCEPT ![k] = Append(@, row)] /\ Advance(r, pc)
      BY <1>4, <2>2 DEF InsertAttempt
    <3> HIDE DEF row
    <3>2. pc \notin {"find", "count", "insert"}
      BY <3>1 DEF AfterInsert
    <3>3. r \in Admitted /\ k \in Keys /\ attempts[k] \in Seq(StoredAttempt)
      BY <1>0, <1>4 DEF InsertAttempt, Admitted, Handler
    <3>4. /\ request' = [request EXCEPT ![r] = [request[r] EXCEPT !.pc = pc]]
          /\ [request[r] EXCEPT !.pc = pc].pc = pc
      BY <1>0, <3>1 DEF Advance, Handler
    <3>5. Admitted' = Admitted \ {r}
      BY <1>0, <3>2, <3>4 DEF Admitted
    <3> DEFINE n == Len(attempts[k]) + 1
    <3>6. Counted' \subseteq Counted \cup {<<k, n>>}
      <4>1. /\ attempts'[k] = Append(attempts[k], row)
            /\ \A x \in Keys \ {k} : attempts'[x] = attempts[x]
        BY <1>0, <3>1, <3>3
      <4>2. \A i \in DOMAIN attempts'[k] : 
              i = n \/ (i \in DOMAIN attempts[k] /\ attempts'[k][i] = attempts[k][i])
        <5>1. PICK s \in Seq(StoredAttempt \cup {row}) : s = attempts[k]
          BY <3>3
        <5>2. DOMAIN Append(s, row) = 1 .. Len(s) + 1 /\ DOMAIN s = 1 .. Len(s) /\ Len(s) \in Nat
          BY <5>1
        <5>3. \A i \in 1 .. Len(s) : Append(s, row)[i] = s[i]
          BY <5>1
        <5>4. attempts'[k] = Append(s, row) /\ n = Len(s) + 1
          BY <4>1, <5>1
        <5> HIDE DEF n
        <5>5. ASSUME NEW i \in 1 .. Len(s) + 1
              PROVE  i = n \/ (i \in DOMAIN s /\ Append(s, row)[i] = s[i])
          BY <5>2, <5>3, <5>4
        <5> QED BY <5>1, <5>2, <5>4, <5>5
      <4>3. ASSUME NEW x \in Keys, NEW i \in 1 .. MaxRequests, <<x, i>> \in Counted', <<x, i>> # <<k, n>>
            PROVE  <<x, i>> \in Counted
        <5>1. i \in DOMAIN attempts'[x] /\ attempts'[x][i].today
          BY <4>3 DEF Counted
        <5>2. CASE x = k
          BY <4>2, <4>3, <5>1, <5>2 DEF Counted
        <5>3. CASE x # k
          BY <4>1, <5>1, <5>3 DEF Counted
        <5> QED BY <5>2, <5>3
      <4>4. Counted' \subseteq Keys \X (1 .. MaxRequests)
        BY DEF Counted
      <4> QED BY <4>3, <4>4
    <3>7. /\ IsFiniteSet(Counted \cup {<<k, n>>})
          /\ Cardinality(Counted \cup {<<k, n>>}) <= Cardinality(Counted) + 1
      <4>1. IsFiniteSet(Counted) /\ Cardinality(Counted) \in Nat
        BY QuotaSets
      <4>2. \A x : /\ IsFiniteSet(Counted \cup {x})
                   /\ Cardinality(Counted \cup {x}) =
                        IF x \in Counted THEN Cardinality(Counted) ELSE Cardinality(Counted) + 1
        BY <4>1, FS_AddElement
      <4>3. PICK x : x = <<k, n>>
        OBVIOUS
      <4>4. /\ IsFiniteSet(Counted \cup {x}) /\ Cardinality(Counted \cup {x}) <= Cardinality(Counted) + 1
        <5>1. /\ IsFiniteSet(Counted \cup {x})
              /\ \/ Cardinality(Counted \cup {x}) = Cardinality(Counted)
                 \/ Cardinality(Counted \cup {x}) = Cardinality(Counted) + 1
          BY <4>2, Zenon
        <5> QED BY <4>1, <5>1
      <4> QED BY <4>3, <4>4
    <3>8. /\ Cardinality(Counted') <= Cardinality(Counted) + 1 /\ Cardinality(Counted') \in Nat
      <4>1. /\ Cardinality(Counted') <= Cardinality(Counted \cup {<<k, n>>})
            /\ IsFiniteSet(Counted')
        BY <3>6, <3>7, FS_Subset
      <4>2. Cardinality(Counted') \in Nat /\ Cardinality(Counted \cup {<<k, n>>}) \in Nat
        BY <3>7, <4>1, FS_CardinalityType
      <4> QED BY <3>7, <4>1, <4>2, QuotaSets
    <3>9. Cardinality(Admitted') = Cardinality(Admitted) - 1
      BY <3>3, <3>5, QuotaSets, FS_RemoveElement
    <3> QED BY <3>8, <3>9, QuotaSets DEF QuotaInv
  <2> QED BY <2>1, <2>2
<1>5. ASSUME NEW k \in Keys, CleanupExpired(k)
      PROVE  QuotaInv'
  <2>1. attempts' = [attempts EXCEPT ![k] = <<>>] /\ UNCHANGED request
    BY <1>5 DEF CleanupExpired
  <2>2. Counted' \subseteq Counted
    BY <1>0, <2>1 DEF Counted
  <2> QED BY <2>1, <2>2, AdmittedLess, FewerCounted
<1>6. CASE DayEnds
  <2>1. /\ attempts' = [k \in Keys |-> [i \in DOMAIN attempts[k] |->
                                         [attempts[k][i] EXCEPT !.today = FALSE]]]
        /\ UNCHANGED request
    BY <1>6 DEF DayEnds
  <2>2. \A a \in StoredAttempt : ~[a EXCEPT !.today = FALSE].today
    BY DEF StoredAttempt
  <2>3. \A k \in Keys : \A i \in DOMAIN attempts'[k] : ~attempts'[k][i].today
    BY <1>0, <2>1, <2>2
  <2>4. Counted' \subseteq Counted
    BY <2>3 DEF Counted
  <2> QED BY <2>1, <2>4, AdmittedLess, FewerCounted
<1>7. ASSUME NEW r \in Requests,
             FindEvent(r) \/ CountAttempts(r) \/ LookForDelivery(r) \/ Accept(r)
             \/ ObserveInsert(r) \/ Publish(r) \/ HandlerDies(r)
      PROVE  QuotaInv'
  <2>1. UNCHANGED attempts
    BY <1>7 DEF FindEvent, CountAttempts, LookForDelivery, Accept, ObserveInsert, Publish,
       HandlerDies, tables
  <2>2. {"publish", "accept"} \subseteq Stages \ {"find", "count", "insert"}
    BY DEF Stages
  <2>3. \/ FindEvent(r) \/ CountAttempts(r) \/ ObserveInsert(r) \/ Done(r)
        \/ Advance(r, "publish") \/ Advance(r, "accept")
    BY <1>7 DEF LookForDelivery, Accept, Publish, HandlerDies
  <2> QED BY <1>1, <2>1, <2>2, <2>3
<1>8. CASE \/ UNCHANGED vars \/ DeliveryWorker \/ Operator
           \/ \E a \in Analyst : AnalysisStep(a) \/ WorkerDies(a)
  <2>1. UNCHANGED <<attempts, request>>
    BY <1>8 DEF vars, tables, DeliveryWorker, Deliver, Operator, RetryByHand, SwitchMode,
       AnalysisStep, TakeAnalysis, ReadAttempts, ReadDeliveries, WriteReport, WorkerDies
  <2> QED BY <1>1, <2>1
<1> QED BY <1>2, <1>3, <1>4, <1>5, <1>6, <1>7, <1>8 DEF Next, Provider, RequestStep

(* The daily limit is exceeded by fewer attempts than the handlers the     *)
(* ingestor runs at once, for any limit and number of handlers: each       *)
(* checks the quota some statements before it stores its attempt.          *)
THEOREM WithinQuotaHolds == Spec => []WithinQuota
<1>1. BoundsAssumption /\ Init => QuotaInv
  <2> SUFFICES ASSUME BoundsAssumption, Init, DailyLimit > 0
               PROVE  Cardinality(Counted) + Cardinality(Admitted)
                        < DailyLimit + Cardinality(Requests)
    BY DEF QuotaInv
  <2>1. Counted = {} /\ Admitted = {}
    BY IdleHandler DEF Init, Counted, Admitted
  <2>2. Requests = {} \/ Cardinality(Requests) \in Nat
    BY QuotaSets
  <2>3. Cardinality({}) = 0
    BY FS_EmptySet
  <2> QED BY <2>1, <2>3, QuotaSets
<1>2. BoundsAssumption /\ IngestInv /\ QuotaInv /\ [Next]_vars => QuotaInv'
  BY QuotaKept
<1>3. BoundsAssumption /\ QuotaInv => WithinQuota
  BY QuotaSets DEF QuotaInv, WithinQuota
<1> QED BY <1>1, <1>2, <1>3, InitKeeps, NextKeeps, BoundsAssumption, PTL DEF Spec

-----------------------------------------------------------------------------
(* Reports.                                                                *)

(* What an analysis of the attempts looks at.                              *)
SameReading(s, t) ==
  /\ Len(s) = Len(t)
  /\ \A i \in 1 .. Len(s) : /\ s[i].sequence = t[i].sequence /\ s[i].body = t[i].body
                            /\ s[i].check = t[i].check /\ s[i].status = t[i].status

AnalysisRecord ==
  [pc : {"idle", "attempts", "deliveries", "write"}, key : Keys, generation : Nat,
   read : Seq(StoredAttempt), verdict : {"pending", "passed", "failed"}, late : BOOLEAN]
AnalysisTypes ==
  /\ analysis \in [Analyst -> AnalysisRecord]
  /\ jobs \in [Keys -> Nat] /\ doubtful \in [Keys -> BOOLEAN]
  /\ reports = [k \in Keys |-> reports[k]] /\ event = [k \in Keys |-> event[k]]

(* An event has an analysis to come, for which something was asked or will *)
(* be, or one under way.                                                   *)
Work(k) ==
  \/ jobs[k] > 0
  \/ \E r \in Requests : Stored(r) /\ request[r].key = k /\ Found(r)
  \/ \E i \in DOMAIN deliveries[k] : deliveries[k][i].state \in {"queued", "delivering"}
Busy(a, k) ==
  analysis[a].pc # "idle" /\ analysis[a].key = k /\ analysis[a].generation = generation[k]

(* What an analysis under way has read is what there is, or it is known to *)
(* be late.                                                                *)
UpToDate(a, k) ==
  \/ analysis[a].late \/ analysis[a].pc = "attempts"
  \/ analysis[a].pc = "deliveries" /\ SameReading(analysis[a].read, attempts[k])
  \/ analysis[a].pc = "write" /\ analysis[a].verdict \in Verdicts(attempts[k], deliveries[k])

(* The report of an event that nobody attends is fresh, and an analysis    *)
(* that nothing follows is up to date.                                     *)
Attended(k) ==
  attempts[k] # <<>> =>
    /\ \/ doubtful[k] \/ Work(k) \/ \E a \in Analyst : Busy(a, k)
       \/ reports[k] \in Verdicts(attempts[k], deliveries[k])
    /\ \A a \in Analyst : Busy(a, k) =>
         UpToDate(a, k) \/ Work(k) \/ \E b \in Analyst \ {a} : Busy(b, k)

FreshInv == AnalysisTypes /\ \A k \in Keys : Attended(k)

LEMMA SameVerdicts ==
  ASSUME NEW s \in Seq(StoredAttempt), NEW t \in Seq(StoredAttempt), SameReading(s, t),
         \A i \in 1 .. Len(t) : t[i].sequence = i, NEW rows
  PROVE  Verdicts(s, rows) = Verdicts(t, rows)
<1>1. DOMAIN s = 1 .. Len(s) /\ DOMAIN t = 1 .. Len(s) /\ Len(s) \in Nat
  BY DEF SameReading
<1>2. Clean(s) = Clean(t)
  <2>1. ASSUME NEW i \in 1 .. Len(s)
        PROVE  /\ s[i].check = t[i].check /\ s[i].body = t[i].body /\ s[1].body = t[1].body
    <3>1. 1 \in 1 .. Len(s)
      BY <1>1
    <3> QED BY <3>1 DEF SameReading
  <2> QED BY <1>1, <2>1 DEF Clean
<1>3. ASSUME NEW u \in Seq(StoredAttempt), u # <<>>, \A i \in 1 .. Len(u) : u[i].sequence = i
      PROVE  LastAttempt(u) = u[Len(u)]
  <2>1. DOMAIN u = 1 .. Len(u) /\ Len(u) \in 1 .. Len(u)
    BY <1>3
  <2>2. \A i \in DOMAIN u : (\A j \in DOMAIN u : u[j].sequence <= u[i].sequence) <=> i = Len(u)
    BY <1>3, <2>1
  <2>3. (CHOOSE i \in DOMAIN u : \A j \in DOMAIN u : u[j].sequence <= u[i].sequence) = Len(u)
    BY <2>1, <2>2, Zenon
  <2> QED BY <2>3 DEF LastAttempt
<1>4. LastAttempt(s).status = LastAttempt(t).status
  <2>1. CASE s = <<>>
    <3>1. s = t
      BY <2>1, <1>1
    <3> QED BY <3>1
  <2>2. CASE s # <<>>
    <3>1. t # <<>> /\ Len(s) = Len(t) /\ Len(s) \in 1 .. Len(s)
      BY <1>1, <2>2 DEF SameReading
    <3>2. LastAttempt(s) = s[Len(s)] /\ LastAttempt(t) = t[Len(s)]
      BY <1>3, <2>2, <3>1 DEF SameReading
    <3> QED BY <3>1, <3>2 DEF SameReading
  <2> QED BY <2>1, <2>2
<1>5. \A f : StatusOf(s, rows, f) = StatusOf(t, rows, f)
  BY <1>2, <1>4 DEF StatusOf, Recovered
<1> QED BY <1>5 DEF Verdicts

(* What a row keeps while one handler moves on or ends.                    *)
LEMMA WorkKept ==
  ASSUME NEW k \in Keys, jobs'[k] = jobs[k], deliveries'[k] = deliveries[k],
         generation'[k] = generation[k], event[k] # "none" => event'[k] # "none",
         NEW r, \A x \in Requests \ {r} : request'[x] = request[x],
         \/ ~(Stored(r) /\ request[r].key = k /\ Found(r))
         \/ Stored(r)' /\ request'[r].key = k /\ Found(r)',
         Work(k)
  PROVE  Work(k)'
<1>1. ASSUME NEW x \in Requests, Stored(x), request[x].key = k, Found(x)
      PROVE  Work(k)'
  <2>1. CASE x = r
    BY <1>1, <2>1 DEF Work
  <2>2. CASE x # r
    <3>1. Stored(x)' /\ request'[x].key = k /\ Found(x)'
      BY <1>1, <2>2 DEF Stored, Found
    <3> QED BY <3>1 DEF Work
  <2> QED BY <2>1, <2>2
<1> QED BY <1>1 DEF Work

(* A step that leaves an event's rows, report and analyses alone.          *)
LEMMA Unaffected ==
  ASSUME IngestInv, IngestInv', NEW k \in Keys, Attended(k),
         generation'[k] = generation[k], deliveries'[k] = deliveries[k], reports'[k] = reports[k],
         doubtful'[k] = doubtful[k], SameReading(attempts[k], attempts'[k]), Work(k) => Work(k)',
         \A a \in Analyst : \/ analysis'[a] = analysis[a]
                            \/ ~Busy(a, k) /\ ~Busy(a, k)'
  PROVE  Attended(k)'
<1>1. /\ attempts[k] \in Seq(StoredAttempt) /\ attempts'[k] \in Seq(StoredAttempt)
      /\ \A i \in 1 .. Len(attempts[k]) : attempts[k][i].sequence = i
      /\ \A i \in 1 .. Len(attempts'[k]) : attempts'[k][i].sequence = i
  BY DEF IngestInv, Types, InOrder
<1>2. Verdicts(attempts[k], deliveries[k]) = Verdicts(attempts'[k], deliveries'[k])
  <2>1. ASSUME NEW s \in Seq(StoredAttempt), NEW t \in Seq(StoredAttempt), SameReading(s, t),
               \A i \in 1 .. Len(t) : t[i].sequence = i
        PROVE  Verdicts(s, deliveries[k]) = Verdicts(t, deliveries[k])
    BY <2>1, SameVerdicts
  <2>2. Verdicts(attempts[k], deliveries[k]) = Verdicts(attempts'[k], deliveries[k])
    BY <1>1, <2>1
  <2> QED BY <2>2
<1>3. attempts'[k] # <<>> => attempts[k] # <<>>
  BY <1>1 DEF SameReading
<1>4. \A a \in Analyst : Busy(a, k)' <=> Busy(a, k)
  BY DEF Busy
<1>5. \A a \in Analyst : Busy(a, k) => analysis'[a] = analysis[a]
  OBVIOUS
<1>6. ASSUME NEW a \in Analyst, Busy(a, k), UpToDate(a, k)
      PROVE  UpToDate(a, k)'
  <2>1. analysis'[a] = analysis[a]
    BY <1>5, <1>6
  <2>2. ASSUME SameReading(analysis[a].read, attempts[k])
        PROVE  SameReading(analysis[a].read, attempts'[k])
    BY <2>2, <1>1 DEF SameReading
  <2> QED BY <1>2, <1>6, <2>1, <2>2 DEF UpToDate
<1>7. SUFFICES ASSUME attempts'[k] # <<>>
      PROVE  /\ \/ doubtful[k] \/ Work(k)' \/ \E a \in Analyst : Busy(a, k)'
                \/ reports[k] \in Verdicts(attempts[k], deliveries[k])
             /\ \A a \in Analyst : Busy(a, k)' =>
                  UpToDate(a, k)' \/ Work(k)' \/ \E b \in Analyst \ {a} : Busy(b, k)'
  BY <1>2 DEF Attended
<1>8. \/ doubtful[k] \/ Work(k) \/ \E a \in Analyst : Busy(a, k)
      \/ reports[k] \in Verdicts(attempts[k], deliveries[k])
  BY <1>3, <1>7 DEF Attended
<1>9. \A a \in Analyst : Busy(a, k) =>
        UpToDate(a, k) \/ Work(k) \/ \E b \in Analyst \ {a} : Busy(b, k)
  BY <1>3, <1>7 DEF Attended
<1> QED BY <1>4, <1>6, <1>8, <1>9

(* There is work to do for the event.                                      *)
LEMMA WorkAttends == ASSUME NEW k, Work(k)' PROVE Attended(k)'
BY DEF Attended

(* The event is doubtful and whatever analyses it is late.                 *)
LEMMA LateAttends ==
  ASSUME NEW k, doubtful'[k], \A a \in Analyst : Busy(a, k)' => analysis'[a].late
  PROVE  Attended(k)'
BY DEF Attended, UpToDate

(* An analysis has just begun.                                             *)
LEMMA BegunAttends ==
  ASSUME NEW k, NEW a \in Analyst, Busy(a, k)',
         \/ analysis'[a].pc = "attempts"
         \/ analysis'[a].pc = "deliveries" /\ analysis'[a].read = attempts'[k]
  PROVE  Attended(k)'
<1>1. UpToDate(a, k)'
  BY DEF UpToDate, SameReading
<1> QED BY <1>1 DEF Attended

(* Analyses and events as they are, and one handler that moves on or ends, *)
(* with nothing stored that it still asks an analysis for.                 *)
LEMMA OthersUnaffected ==
  ASSUME IngestInv, IngestInv', NEW k \in Keys, Attended(k),
         UNCHANGED <<generation, reports>>, jobs'[k] = jobs[k],
         deliveries'[k] = deliveries[k], attempts'[k] = attempts[k],
         event[k] # "none" => event'[k] # "none", doubtful'[k] = doubtful[k],
         \A a \in Analyst : \/ analysis'[a] = analysis[a]
                            \/ ~Busy(a, k) /\ ~Busy(a, k)',
         NEW r, \A x \in Requests \ {r} : request'[x] = request[x],
         \/ ~(Stored(r) /\ request[r].key = k /\ Found(r))
         \/ Stored(r)' /\ request'[r].key = k /\ Found(r)'
  PROVE  Attended(k)'
<1>1. Work(k) => Work(k)'
  BY WorkKept
<1>2. SameReading(attempts[k], attempts'[k])
  BY DEF SameReading
<1> QED BY <1>1, <1>2, Unaffected

-----------------------------------------------------------------------------
LEMMA Nothing == BoundsAssumption => NoAnalysis \in AnalysisRecord /\ NoAnalysis.pc = "idle"
<1>1. BoundsAssumption => (CHOOSE k \in Keys : TRUE) \in Keys /\ <<>> \in Seq(StoredAttempt)
  BY DEF BoundsAssumption
<1> QED BY <1>1 DEF NoAnalysis, AnalysisRecord

LEMMA LateRecord ==
  ASSUME NEW x \in AnalysisRecord, NEW y, y = [x EXCEPT !.late = TRUE]
  PROVE  /\ y \in AnalysisRecord /\ y.late /\ y.pc = x.pc /\ y.key = x.key
         /\ y.generation = x.generation
BY DEF AnalysisRecord

LEMMA WrittenRecord ==
  ASSUME NEW x \in AnalysisRecord, NEW v \in {"pending", "passed", "failed"}, NEW y,
         y = [x EXCEPT !.pc = "write", !.read = <<>>, !.verdict = v]
  PROVE  /\ y \in AnalysisRecord /\ y.pc = "write" /\ y.key = x.key /\ y.verdict = v
         /\ y.generation = x.generation /\ y.late = x.late
<1>1. <<>> \in Seq(StoredAttempt)
  OBVIOUS
<1> QED BY <1>1 DEF AnalysisRecord

(* Only the analyses of one event become late.                             *)
LEMMA UnanalysedIs ==
  ASSUME BoundsAssumption, AnalysisTypes, NEW k \in Keys, Unanalysed(k)
  PROVE  /\ doubtful' \in [Keys -> BOOLEAN] /\ analysis' \in [Analyst -> AnalysisRecord]
         /\ doubtful'[k] /\ \A x \in Keys \ {k} : doubtful'[x] = doubtful[x]
         /\ \A a \in Analyst :
              /\ analysis'[a].pc # "idle" /\ analysis'[a].key = k => analysis'[a].late
              /\ analysis[a].key # k => analysis'[a] = analysis[a]
              /\ analysis'[a].key = analysis[a].key
<1>1. \A a \in Analyst :
        analysis'[a] = IF analysis[a].pc # "idle" /\ analysis[a].key = k
                       THEN [analysis[a] EXCEPT !.late = TRUE] ELSE analysis[a]
  BY DEF Unanalysed
<1>2. \A a \in Analyst : analysis[a] \in AnalysisRecord
  BY DEF AnalysisTypes
<1>3. \A a \in Analyst : analysis'[a] \in AnalysisRecord
  BY <1>1, <1>2, LateRecord
<1>4. analysis' \in [Analyst -> AnalysisRecord]
  BY <1>3 DEF Unanalysed
<1>5. ASSUME NEW a \in Analyst
      PROVE  /\ analysis'[a].pc # "idle" /\ analysis'[a].key = k => analysis'[a].late
             /\ analysis[a].key # k => analysis'[a] = analysis[a]
             /\ analysis'[a].key = analysis[a].key
  <2>1. analysis'[a] = analysis[a] \/ analysis'[a] = [analysis[a] EXCEPT !.late = TRUE]
    BY <1>1
  <2> QED BY <1>1, <1>2, <2>1, LateRecord
<1> QED BY <1>4, <1>5 DEF Unanalysed, AnalysisTypes

LEMMA BeginIs ==
  ASSUME BoundsAssumption, AnalysisTypes, IngestInv, NEW a \in Analyst, NEW k \in Keys, Begin(a, k)
  PROVE  /\ analysis' \in [Analyst -> AnalysisRecord]
         /\ \A x \in Analyst \ {a} : analysis'[x] = analysis[x]
         /\ \/ /\ attempts[k] = <<>> \/ (a = Delivery /\ analysis[a].generation # generation[k])
               /\ analysis'[a].pc = "idle"
            \/ /\ analysis'[a].pc = "deliveries" /\ analysis'[a].key = k
               /\ analysis'[a].generation = generation[k] /\ analysis'[a].read = attempts[k]
<1>1. generation[k] \in Nat /\ attempts[k] \in Seq(StoredAttempt)
  BY DEF IngestInv, Types
<1> DEFINE x == [NoAnalysis EXCEPT !.pc = "deliveries", !.key = k, !.generation = generation[k],
                   !.read = attempts[k]]
           none == attempts[k] = <<>> \/ (a = Delivery /\ analysis[a].generation # generation[k])
<1>2. /\ x \in AnalysisRecord /\ x.pc = "deliveries" /\ x.key = k
      /\ x.generation = generation[k] /\ x.read = attempts[k]
  BY <1>1, Nothing DEF AnalysisRecord
<1>3. analysis' = [analysis EXCEPT ![a] = IF none THEN NoAnalysis ELSE x]
  BY DEF Begin
<1> HIDE DEF x
<1>4. analysis'[a] = IF none THEN NoAnalysis ELSE x
  BY <1>3 DEF AnalysisTypes
<1> QED BY <1>2, <1>3, <1>4, Nothing DEF AnalysisTypes

(* The handlers of the ingestor.                                           *)

LEMMA DoneIs ==
  ASSUME BoundsAssumption, IngestInv, NEW r \in Requests, Done(r)
  PROVE  ~Stored(r)' /\ \A x \in Requests \ {r} : request'[x] = request[x]
BY IdleHandler DEF Done, Stored, IngestInv, Types

LEMMA AdvanceIs ==
  ASSUME IngestInv, NEW r \in Requests, NEW pc, Advance(r, pc)
  PROVE  /\ request'[r].pc = pc /\ request'[r].key = request[r].key
         /\ request'[r].generation = request[r].generation
         /\ \A x \in Requests \ {r} : request'[x] = request[x]
<1>1. request[r] \in Handler /\ request \in [Requests -> Handler]
  BY DEF IngestInv, Types
<1>2. request' = [request EXCEPT ![r] = [request[r] EXCEPT !.pc = pc]]
  BY <1>1 DEF Advance
<1>3. /\ [request[r] EXCEPT !.pc = pc].pc = pc
      /\ [request[r] EXCEPT !.pc = pc].key = request[r].key
      /\ [request[r] EXCEPT !.pc = pc].generation = request[r].generation
  BY <1>1 DEF Handler
<1> QED BY <1>1, <1>2, <1>3

(* A handler whose event is gone does not change its rows.                 *)
LEMMA LostStatus ==
  ASSUME IngestInv, NEW r \in Requests, NEW status, SetStatus(r, status), NEW k \in Keys,
         k # request[r].key \/ ~Found(r)
  PROVE  attempts'[k] = attempts[k]
BY DEF SetStatus, IngestInv, Types
LEMMA LostRow ==
  ASSUME Sources, NEW r \in Requests, NEW state, SetRow(r, state), NEW k \in Keys,
         k # request[r].key \/ ~Found(r)
  PROVE  deliveries'[k] = deliveries[k]
BY DEF SetRow, Sources

(* A handler that gives up: what it stored is not analysed.                *)
LEMMA GivenUpAttends ==
  ASSUME BoundsAssumption, IngestInv, IngestInv', Sources, AnalysisTypes, NEW k \in Keys, Attended(k),
         NEW r \in Requests, Done(r), Unanalysed(request[r].key),
         UNCHANGED <<event, generation, reports, jobs>>,
         k # request[r].key => attempts'[k] = attempts[k] /\ deliveries'[k] = deliveries[k]
  PROVE  Attended(k)'
<1>1. /\ ~Stored(r)' /\ \A x \in Requests \ {r} : request'[x] = request[x]
      /\ request[r].key \in Keys
  BY DoneIs DEF IngestInv, Types, Handler
<1>2. CASE k = request[r].key
  <2>1. doubtful'[k] /\ \A a \in Analyst : analysis'[a].pc # "idle" /\ analysis'[a].key = k
                                           => analysis'[a].late
    BY <1>1, <1>2, UnanalysedIs
  <2> QED BY <2>1, LateAttends DEF Busy
<1>3. CASE k # request[r].key
  <2>1. /\ doubtful'[k] = doubtful[k]
        /\ \A a \in Analyst : \/ analysis'[a] = analysis[a]
                              \/ analysis[a].key # k /\ analysis'[a].key # k
    BY <1>1, <1>3, UnanalysedIs
  <2>2. \A a \in Analyst : analysis'[a] = analysis[a] \/ (~Busy(a, k) /\ ~Busy(a, k)')
    BY <2>1 DEF Busy
  <2> QED BY <1>1, <1>3, <2>1, <2>2, OthersUnaffected
<1> QED BY <1>2, <1>3

LEMMA HandlerAttends ==
  ASSUME BoundsAssumption, IngestInv, IngestInv', Sources, AnalysisTypes, NEW k \in Keys, Attended(k),
         NEW r \in Requests, RequestStep(r) \/ PublishThrows(r) \/ HandlerDies(r)
  PROVE  Attended(k)'
<1>0. /\ request[r] \in Handler /\ request \in [Requests -> Handler] /\ request[r].key \in Keys
      /\ event = [x \in Keys |-> event[x]] /\ jobs \in [Keys -> Nat]
  BY DEF IngestInv, Types, Handler, AnalysisTypes
<1>a. ASSUME UNCHANGED <<generation, attempts, deliveries, reports, jobs, analysis, doubtful>>,
             event[k] # "none" => event'[k] # "none",
             \A x \in Requests \ {r} : request'[x] = request[x],
             \/ ~(Stored(r) /\ request[r].key = k /\ Found(r))
             \/ Stored(r)' /\ request'[r].key = k /\ Found(r)'
      PROVE  Attended(k)'
  BY <1>a, OthersUnaffected
<1>1. CASE FindEvent(r) \/ CountAttempts(r)
  <2>1. ~Stored(r) /\ \A x \in Requests \ {r} : request'[x] = request[x]
    BY <1>0, <1>1 DEF FindEvent, CountAttempts, Stored
  <2>2. event[k] # "none" => event'[k] # "none"
    BY <1>0, <1>1 DEF FindEvent, CountAttempts
  <2> QED BY <1>1, <1>a, <2>1, <2>2 DEF FindEvent, CountAttempts
<1>2. CASE InsertAttempt(r)
  <2>1. CASE Done(r) /\ UNCHANGED attempts
    BY <1>2, <1>a, <2>1, DoneIs DEF InsertAttempt, Stored
  <2>2. CASE ~(Done(r) /\ UNCHANGED attempts)
    <3>1. PICK pc \in AfterInsert(r) : Advance(r, pc)
      BY <1>2, <2>2 DEF InsertAttempt
    <3>2. /\ Found(r) /\ UNCHANGED <<event, generation, deliveries, reports, jobs, analysis, doubtful>>
          /\ \E row : attempts' = [attempts EXCEPT ![request[r].key] = Append(@, row)]
      BY <1>2, <2>2 DEF InsertAttempt
    <3>3. pc \in {"publish", "unset", "previous", "observe"}
      BY <3>1 DEF AfterInsert
    <3>4. /\ request'[r].pc = pc /\ request'[r].key = request[r].key
          /\ request'[r].generation = request[r].generation
          /\ \A x \in Requests \ {r} : request'[x] = request[x]
      BY <3>1, AdvanceIs
    <3>5. Stored(r)' /\ Found(r)'
      BY <3>2, <3>3, <3>4 DEF Stored, Found
    <3>6. CASE k = request[r].key
      BY <3>4, <3>5, <3>6, WorkAttends DEF Work
    <3>7. CASE k # request[r].key
      <4>1. attempts'[k] = attempts[k]
        BY <3>2, <3>7 DEF IngestInv, Types
      <4> QED BY <3>2, <3>4, <3>7, <4>1, OthersUnaffected
    <3> QED BY <3>6, <3>7
  <2> QED BY <2>1, <2>2
<1>3. CASE ReplyUnset(r)
  <2>1. k # request[r].key => attempts'[k] = attempts[k]
    BY <1>3, LostStatus DEF ReplyUnset
  <2> QED BY <1>3, <2>1, GivenUpAttends DEF ReplyUnset
<1>4. CASE ObserveFailed(r) \/ PublishThrows(r)
  <2>1. k # request[r].key => attempts'[k] = attempts[k] /\ deliveries'[k] = deliveries[k]
    BY <1>4, LostStatus, LostRow DEF ObserveFailed, PublishThrows
  <2> QED BY <1>4, <2>1, GivenUpAttends DEF ObserveFailed, PublishThrows
<1>5. CASE HandlerDies(r)
  <2>1. CASE Stored(r)
    BY <1>5, <2>1, GivenUpAttends DEF HandlerDies, tables
  <2>2. CASE ~Stored(r)
    BY <1>5, <1>a, <2>2, DoneIs DEF HandlerDies, tables
  <2> QED BY <2>1, <2>2
<1>6. CASE LookForDelivery(r)
  <2>1. PICK pc \in {"publish", "accept"} : Advance(r, pc)
    BY <1>6 DEF LookForDelivery
  <2>2. UNCHANGED <<event, generation, attempts, deliveries, reports, jobs, analysis, doubtful>>
    BY <1>6 DEF LookForDelivery, tables
  <2>3. /\ request'[r].pc = pc /\ request'[r].key = request[r].key
        /\ request'[r].generation = request[r].generation
        /\ \A x \in Requests \ {r} : request'[x] = request[x]
    BY <2>1, AdvanceIs
  <2>4. Stored(r)' /\ (Found(r) => Found(r)')
    BY <2>1, <2>2, <2>3 DEF Stored, Found
  <2> QED BY <1>a, <2>2, <2>3, <2>4
<1>7. CASE Accept(r) \/ ObserveInsert(r)
  <2>1. UNCHANGED <<event, generation, attempts, reports, jobs, analysis, doubtful>>
    BY <1>7 DEF Accept, ObserveInsert
  <2>2. CASE ~Found(r)
    <3>1. Done(r) /\ UNCHANGED deliveries
      BY <1>7, <2>2 DEF Accept, ObserveInsert
    <3> QED BY <1>a, <2>1, <2>2, <3>1, DoneIs
  <2>3. CASE Found(r)
    <3>1. PICK d : /\ deliveries' = [deliveries EXCEPT ![request[r].key] =
                                       Append(deliveries[request[r].key], d)]
                   /\ d.state \in {"queued", "delivering"}
      <4>1. CASE Accept(r)
        <5>1. PICK strategy \in Strategies :
                deliveries' = [deliveries EXCEPT ![request[r].key] =
                  Append(deliveries[request[r].key],
                         NewDelivery(1, "target", "queued", "forward", strategy))]
          BY <2>3, <4>1 DEF Accept
        <5>2. NewDelivery(1, "target", "queued", "forward", strategy).state = "queued"
          BY DEF NewDelivery
        <5> QED BY <5>1, <5>2, Zenon
      <4>2. CASE ObserveInsert(r)
        <5>1. deliveries' = [deliveries EXCEPT ![request[r].key] =
                Append(deliveries[request[r].key],
                       NewDelivery(1, "primary", "delivering", "forward", "none"))]
          BY <2>3, <4>2 DEF ObserveInsert
        <5>2. NewDelivery(1, "primary", "delivering", "forward", "none").state = "delivering"
          BY DEF NewDelivery
        <5> QED BY <5>1, <5>2, Zenon
      <4> QED BY <1>7, <4>1, <4>2
    <3>2. \A x \in Requests \ {r} : request'[x] = request[x]
      BY <1>0, <1>7, <2>3 DEF Accept, ObserveInsert, Advance
    <3>3. CASE k = request[r].key
      <4>1. PICK S : deliveries[k] \in Seq(S)
        BY DEF Sources, IsSequence
      <4>2. deliveries'[k] = Append(deliveries[k], d)
        BY <3>1, <3>3 DEF Sources
      <4>3. /\ Len(deliveries[k]) + 1 \in DOMAIN deliveries'[k]
            /\ deliveries'[k][Len(deliveries[k]) + 1] = d
        <5>1. deliveries[k] \in Seq(S \cup {d})
          BY <4>1
        <5> QED BY <4>2, <5>1
      <4> QED BY <3>1, <4>3, WorkAttends DEF Work
    <3>4. CASE k # request[r].key
      <4>1. deliveries'[k] = deliveries[k]
        BY <3>1, <3>4 DEF Sources
      <4> QED BY <2>1, <3>2, <3>4, <4>1, OthersUnaffected
    <3> QED BY <3>3, <3>4
  <2> QED BY <2>2, <2>3
<1>8. CASE ObserveAnswered(r)
  <2>1. PICK status, state : SetStatus(r, status) /\ SetRow(r, state)
    BY <1>8 DEF ObserveAnswered
  <2>2. /\ UNCHANGED <<event, generation, reports, jobs, analysis, doubtful>>
        /\ Advance(r, "publish")
    BY <1>8 DEF ObserveAnswered
  <2>3. /\ request'[r].pc = "publish" /\ request'[r].key = request[r].key
        /\ request'[r].generation = request[r].generation
        /\ \A x \in Requests \ {r} : request'[x] = request[x]
    BY <2>2, AdvanceIs
  <2>4. CASE k = request[r].key /\ Found(r)
    <3>1. Stored(r)' /\ Found(r)'
      BY <2>2, <2>3, <2>4 DEF Stored, Found
    <3> QED BY <2>3, <2>4, <3>1, WorkAttends DEF Work
  <2>5. CASE ~(k = request[r].key /\ Found(r))
    <3>1. attempts'[k] = attempts[k] /\ deliveries'[k] = deliveries[k]
      BY <2>1, <2>5, LostStatus, LostRow
    <3> QED BY <2>2, <2>3, <2>5, <3>1, OthersUnaffected
  <2> QED BY <2>4, <2>5
<1>9. CASE Publish(r)
  <2>1. /\ UNCHANGED <<event, generation, attempts, deliveries, reports, analysis, doubtful>>
        /\ Done(r) /\ jobs' = IF Found(r) THEN Bump(jobs, request[r].key) ELSE jobs
    BY <1>9 DEF Publish, tables
  <2>2. CASE ~Found(r)
    BY <1>a, <2>1, <2>2, DoneIs
  <2>3. CASE Found(r) /\ k = request[r].key
    <3>1. jobs'[k] > 0
      BY <1>0, <2>1, <2>3 DEF Bump
    <3> QED BY <3>1, WorkAttends DEF Work
  <2>4. CASE Found(r) /\ k # request[r].key
    <3>1. jobs'[k] = jobs[k]
      BY <1>0, <2>1, <2>4 DEF Bump
    <3> QED BY <2>1, <2>4, <3>1, DoneIs, OthersUnaffected
  <2> QED BY <2>2, <2>3, <2>4
<1> QED BY <1>1, <1>2, <1>3, <1>4, <1>5, <1>6, <1>7, <1>8, <1>9 DEF RequestStep

(* A step that leaves the handlers and the rows of the event alone.        *)
LEMMA RestUnaffected ==
  ASSUME IngestInv, IngestInv', NEW k \in Keys, Attended(k), UNCHANGED <<request, generation, event>>,
         jobs'[k] = jobs[k], deliveries'[k] = deliveries[k], attempts'[k] = attempts[k],
         reports'[k] = reports[k], doubtful'[k] = doubtful[k],
         \A a \in Analyst : \/ analysis'[a] = analysis[a]
                            \/ ~Busy(a, k) /\ ~Busy(a, k)'
  PROVE  Attended(k)'
<1>1. Work(k) => Work(k)'
  BY DEF Work, Stored, Found
<1>2. SameReading(attempts[k], attempts'[k])
  BY DEF SameReading
<1> QED BY <1>1, <1>2, Unaffected

LEMMA DeliveryAttends ==
  ASSUME BoundsAssumption, IngestInv, IngestInv', Sources, AnalysisTypes, NEW k \in Keys, Attended(k),
         NEW x \in Keys, NEW n \in DOMAIN deliveries[x],
         (\E outcome : Deliver(x, n, outcome)) \/ RetryByHand(x, n)
  PROVE  Attended(k)'
<1>0. Delivery \in Analyst /\ analysis \in [Analyst -> AnalysisRecord]
  BY DEF Analyst, AnalysisTypes
<1>1. ASSUME NEW outcome, Deliver(x, n, outcome)
      PROVE  Attended(k)'
  <2> DEFINE y == [NoAnalysis EXCEPT !.pc = "attempts", !.key = x, !.generation = generation[x]]
  <2>1. y.pc = "attempts" /\ y.key = x /\ y.generation = generation[x]
    BY Nothing DEF AnalysisRecord, IngestInv, Types
  <2>2. /\ analysis' = [analysis EXCEPT ![Delivery] = y] /\ analysis[Delivery].pc = "idle"
        /\ UNCHANGED <<request, generation, event, attempts, reports, jobs, doubtful>>
    BY <1>1 DEF Deliver
  <2> HIDE DEF y
  <2>3. analysis'[Delivery] = y /\ \A a \in Analyst \ {Delivery} : analysis'[a] = analysis[a]
    BY <1>0, <2>2
  <2>4. CASE k = x
    BY <1>0, <2>1, <2>2, <2>3, <2>4, BegunAttends DEF Busy
  <2>5. CASE k # x
    <3>1. deliveries'[k] = deliveries[k]
      BY <1>1, <2>5 DEF Deliver, Sources
    <3>2. ~Busy(Delivery, k) /\ ~Busy(Delivery, k)'
      BY <2>1, <2>2, <2>3, <2>5 DEF Busy
    <3> QED BY <2>2, <2>3, <3>1, <3>2, RestUnaffected
  <2> QED BY <2>4, <2>5
<1>2. CASE RetryByHand(x, n)
  <2>1. PICK d : /\ deliveries' = [deliveries EXCEPT ![x] = Append(deliveries[x], d)]
                 /\ d.state = "queued"
    <3> DEFINE d == NewDelivery(NextNumber(x), "primary", "queued", "retry", "none")
    <3>1. d.state = "queued"
      BY DEF NewDelivery
    <3>2. deliveries' = [deliveries EXCEPT ![x] = Append(deliveries[x], d)]
      BY <1>2 DEF RetryByHand
    <3> HIDE DEF d
    <3> QED BY <3>1, <3>2
  <2>2. UNCHANGED <<request, generation, event, attempts, reports, jobs, analysis, doubtful>>
    BY <1>2 DEF RetryByHand
  <2>3. CASE k = x
    <3>1. PICK S : deliveries[k] \in Seq(S)
      BY DEF Sources, IsSequence
    <3>2. deliveries'[k] = Append(deliveries[k], d)
      BY <2>1, <2>3 DEF Sources
    <3>3. /\ Len(deliveries[k]) + 1 \in DOMAIN deliveries'[k]
          /\ deliveries'[k][Len(deliveries[k]) + 1] = d
      <4>1. deliveries[k] \in Seq(S \cup {d})
        BY <3>1
      <4> QED BY <3>2, <4>1
    <3> QED BY <2>1, <3>3, WorkAttends DEF Work
  <2>4. CASE k # x
    <3>1. deliveries'[k] = deliveries[k]
      BY <2>1, <2>4 DEF Sources
    <3> QED BY <2>2, <3>1, RestUnaffected
  <2> QED BY <2>3, <2>4
<1> QED BY <1>1, <1>2

(* The analyses of the worker.                                             *)

LEMMA BeginAttends ==
  ASSUME BoundsAssumption, IngestInv, IngestInv', AnalysisTypes, NEW k \in Keys, Attended(k),
         NEW a \in Analyst, NEW x \in Keys, Begin(a, x),
         \/ analysis[a].pc = "idle" /\ a # Delivery
         \/ analysis[a].key = x,
         UNCHANGED <<request, generation, event, attempts, deliveries, reports, doubtful>>,
         k # x => jobs'[k] = jobs[k],
         jobs' # jobs => a # Delivery
  PROVE  Attended(k)'
<1>1. /\ \A y \in Analyst \ {a} : analysis'[y] = analysis[y]
      /\ \/ /\ attempts[x] = <<>> \/ (a = Delivery /\ analysis[a].generation # generation[x])
            /\ analysis'[a].pc = "idle"
         \/ /\ analysis'[a].pc = "deliveries" /\ analysis'[a].key = x
            /\ analysis'[a].generation = generation[x] /\ analysis'[a].read = attempts[x]
  BY BeginIs
<1>2. CASE k # x
  <2>1. ~Busy(a, k) /\ ~Busy(a, k)'
    BY <1>1, <1>2 DEF Busy
  <2> QED BY <1>1, <1>2, <2>1, RestUnaffected
<1>3. CASE k = x /\ attempts[x] = <<>>
  BY <1>3 DEF Attended
<1>4. CASE k = x /\ analysis'[a].pc = "deliveries"
  BY <1>1, <1>4, BegunAttends DEF Busy
<1>5. CASE k = x /\ a = Delivery /\ analysis[a].generation # generation[x] /\ analysis'[a].pc = "idle"
  <2>1. ~Busy(a, k) /\ ~Busy(a, k)'
    BY <1>5 DEF Busy
  <2> QED BY <1>1, <1>5, <2>1, RestUnaffected
<1> QED BY <1>1, <1>2, <1>3, <1>4, <1>5

LEMMA VerdictValues ==
  ASSUME NEW read, NEW rows
  PROVE  Verdicts(read, rows) \subseteq {"pending", "passed", "failed"}
BY DEF Verdicts, StatusOf

LEMMA ReadAttends ==
  ASSUME BoundsAssumption, IngestInv, IngestInv', AnalysisTypes, NEW k \in Keys, Attended(k),
         NEW a \in Analyst, ReadDeliveries(a)
  PROVE  Attended(k)'
<1>1. PICK v \in Verdicts(analysis[a].read, Rows(a, deliveries)) :
        analysis' = [analysis EXCEPT ![a].pc = "write", ![a].read = <<>>, ![a].verdict = v]
  BY DEF ReadDeliveries
<1>2. /\ analysis[a].pc = "deliveries"
      /\ UNCHANGED <<request, generation, event, attempts, deliveries, reports, jobs, doubtful>>
  BY DEF ReadDeliveries, tables
<1> DEFINE y == [analysis[a] EXCEPT !.pc = "write", !.read = <<>>, !.verdict = v]
<1>3. v \in {"pending", "passed", "failed"} /\ analysis[a] \in AnalysisRecord
  BY <1>1, VerdictValues DEF AnalysisTypes
<1>4. /\ y.pc = "write" /\ y.key = analysis[a].key /\ y.verdict = v
      /\ y.generation = analysis[a].generation /\ y.late = analysis[a].late
  BY <1>3 DEF AnalysisRecord
<1>5. analysis' = [analysis EXCEPT ![a] = y]
  BY <1>1
<1> HIDE DEF y
<1>6. analysis'[a] = y /\ \A b \in Analyst \ {a} : analysis'[b] = analysis[b]
  BY <1>5 DEF AnalysisTypes
<1>7. CASE ~Busy(a, k)
  <2>1. ~Busy(a, k)'
    BY <1>2, <1>4, <1>6, <1>7 DEF Busy
  <2> QED BY <1>2, <1>6, <1>7, <2>1, RestUnaffected
<1>8. CASE Busy(a, k)
  <2>1. analysis[a].key = k /\ Rows(a, deliveries) = deliveries[k] /\ Busy(a, k)'
    BY <1>2, <1>4, <1>6, <1>8 DEF Busy, Rows
  <2>2. \A b \in Analyst : Busy(b, k)' <=> Busy(b, k)
    BY <1>2, <1>6, <1>8, <2>1 DEF Busy
  <2>3. Work(k)' <=> Work(k)
    BY <1>2 DEF Work, Stored, Found
  <2>4. ASSUME UpToDate(a, k)
        PROVE  UpToDate(a, k)'
    <3>1. CASE analysis[a].late
      BY <1>4, <1>6, <3>1 DEF UpToDate
    <3>2. CASE SameReading(analysis[a].read, attempts[k])
      <4>1. /\ analysis[a].read \in Seq(StoredAttempt) /\ attempts[k] \in Seq(StoredAttempt)
            /\ \A i \in 1 .. Len(attempts[k]) : attempts[k][i].sequence = i
        BY <1>3 DEF IngestInv, Types, InOrder, AnalysisRecord
      <4>2. ASSUME NEW s \in Seq(StoredAttempt), NEW t \in Seq(StoredAttempt), SameReading(s, t),
                   \A i \in 1 .. Len(t) : t[i].sequence = i
            PROVE  Verdicts(s, deliveries[k]) = Verdicts(t, deliveries[k])
        BY <4>2, SameVerdicts
      <4>3. Verdicts(analysis[a].read, deliveries[k]) = Verdicts(attempts[k], deliveries[k])
        BY <3>2, <4>1, <4>2
      <4>4. v \in Verdicts(attempts[k], deliveries[k])
        BY <1>1, <2>1, <4>3
      <4> QED BY <1>2, <1>4, <1>6, <4>4 DEF UpToDate
    <3> QED BY <1>2, <2>4, <3>1, <3>2 DEF UpToDate
  <2>5. ASSUME NEW b \in Analyst \ {a}, UpToDate(b, k)
        PROVE  UpToDate(b, k)'
    BY <1>2, <1>6, <2>5 DEF UpToDate
  <2> QED BY <1>2, <1>8, <2>2, <2>3, <2>4, <2>5 DEF Attended
<1> QED BY <1>7, <1>8

LEMMA WriteAttends ==
  ASSUME BoundsAssumption, IngestInv, IngestInv', AnalysisTypes, NEW k \in Keys, Attended(k),
         NEW a \in Analyst, WriteReport(a)
  PROVE  Attended(k)'
<1> DEFINE x == analysis[a].key
<1>0. /\ analysis \in [Analyst -> AnalysisRecord] /\ x \in Keys /\ NoAnalysis.pc = "idle"
      /\ UNCHANGED <<request, generation, event, attempts, deliveries, jobs>>
      /\ analysis[a].pc = "write"
  BY Nothing DEF AnalysisTypes, AnalysisRecord, WriteReport
<1>1. CASE analysis[a].generation # generation[x]
  <2>1. analysis' = [analysis EXCEPT ![a] = NoAnalysis] /\ UNCHANGED <<reports, doubtful>>
    BY <1>1 DEF WriteReport
  <2>2. analysis'[a].pc = "idle" /\ \A b \in Analyst \ {a} : analysis'[b] = analysis[b]
    BY <1>0, <2>1
  <2>3. ~Busy(a, k) /\ ~Busy(a, k)'
    BY <1>1, <2>2 DEF Busy
  <2> QED BY <1>0, <2>1, <2>2, <2>3, RestUnaffected
<1>2. CASE analysis[a].generation = generation[x]
  <2>1. /\ reports' = [reports EXCEPT ![x] = analysis[a].verdict]
        /\ doubtful' = [doubtful EXCEPT ![x] = analysis[a].late]
    BY <1>2 DEF WriteReport, Upserted
  <2>2. \A b \in Analyst :
          analysis'[b] = IF b = a THEN NoAnalysis
                         ELSE IF analysis[b].pc \in {"deliveries", "write"} /\ analysis[b].key = x
                         THEN [analysis[b] EXCEPT !.late = TRUE] ELSE analysis[b]
    BY <1>2 DEF WriteReport
  <2>3. CASE k # x
    <3>1. reports'[k] = reports[k] /\ doubtful'[k] = doubtful[k]
      BY <2>1, <2>3 DEF AnalysisTypes
    <3>2. ASSUME NEW b \in Analyst
          PROVE  analysis'[b] = analysis[b] \/ (~Busy(b, k) /\ ~Busy(b, k)')
      <4>1. CASE b = a
        BY <1>0, <2>2, <2>3, <4>1 DEF Busy
      <4>2. CASE b # a /\ analysis[b].pc \in {"deliveries", "write"} /\ analysis[b].key = x
        <5>1. analysis'[b].key = x
          BY <1>0, <2>2, <4>2, LateRecord
        <5> QED BY <2>3, <4>2, <5>1 DEF Busy
      <4> QED BY <2>2, <4>1, <4>2
    <3> QED BY <1>0, <3>1, <3>2, RestUnaffected
  <2>4. CASE k = x
    <3>1. reports'[k] = analysis[a].verdict /\ doubtful'[k] = analysis[a].late
      BY <1>0, <2>1, <2>4 DEF AnalysisTypes
    <3>2. ~Busy(a, k)' /\ Busy(a, k)
      BY <1>0, <1>2, <2>2, <2>4 DEF Busy
    <3>3. ASSUME NEW b \in Analyst \ {a}
          PROVE  /\ Busy(b, k)' <=> Busy(b, k)
                 /\ Busy(b, k) => UpToDate(b, k)'
      <4>1. CASE analysis[b].pc \in {"deliveries", "write"} /\ analysis[b].key = x
        <5>1. /\ analysis'[b].late /\ analysis'[b].pc = analysis[b].pc
              /\ analysis'[b].key = analysis[b].key
              /\ analysis'[b].generation = analysis[b].generation
          BY <1>0, <2>2, <4>1, LateRecord
        <5> QED BY <1>0, <5>1 DEF Busy, UpToDate
      <4>2. CASE ~(analysis[b].pc \in {"deliveries", "write"} /\ analysis[b].key = x)
        <5>1. analysis'[b] = analysis[b]
          BY <2>2, <4>2
        <5>2. Busy(b, k) => analysis[b].pc = "attempts"
          BY <1>0, <2>4, <4>2 DEF Busy, AnalysisRecord
        <5> QED BY <1>0, <5>1, <5>2 DEF Busy, UpToDate
      <4> QED BY <4>1, <4>2
    <3>4. Work(k)' <=> Work(k)
      BY <1>0 DEF Work, Stored, Found
    <3>5. attempts[k] # <<>> =>
            UpToDate(a, k) \/ Work(k) \/ \E b \in Analyst \ {a} : Busy(b, k)
      BY <3>2 DEF Attended
    <3>6. UpToDate(a, k) => \/ doubtful'[k]
                            \/ reports'[k] \in Verdicts(attempts'[k], deliveries'[k])
      BY <1>0, <3>1 DEF UpToDate
    <3> QED BY <1>0, <3>2, <3>3, <3>4, <3>5, <3>6 DEF Attended
  <2> QED BY <2>3, <2>4
<1> QED BY <1>1, <1>2

LEMMA WorkerDiesAttends ==
  ASSUME BoundsAssumption, IngestInv, IngestInv', AnalysisTypes, NEW k \in Keys, Attended(k),
         NEW a \in Analyst, WorkerDies(a)
  PROVE  Attended(k)'
<1> DEFINE x == analysis[a].key
<1>0. /\ analysis \in [Analyst -> AnalysisRecord] /\ x \in Keys /\ NoAnalysis.pc = "idle"
      /\ UNCHANGED <<request, generation, event, attempts, deliveries, reports>>
      /\ jobs \in [Keys -> Nat]
  BY Nothing DEF AnalysisTypes, AnalysisRecord, WorkerDies, tables
<1>1. \A b \in Analyst :
        analysis'[b] = IF b = a THEN NoAnalysis
                       ELSE IF a = Delivery /\ analysis[b].key = x /\ analysis[b].pc # "idle"
                       THEN [analysis[b] EXCEPT !.late = TRUE] ELSE analysis[b]
  BY DEF WorkerDies
<1>2. CASE a = Delivery /\ k = x
  <2>1. doubtful'[k]
    BY <1>0, <1>2 DEF WorkerDies, AnalysisTypes
  <2>2. ASSUME NEW b \in Analyst, Busy(b, k)'
        PROVE  analysis'[b].late
    <3>1. b # a
      BY <1>0, <1>1, <2>2 DEF Busy
    <3>2. CASE analysis[b].key = x /\ analysis[b].pc # "idle"
      BY <1>0, <1>1, <1>2, <3>1, <3>2, LateRecord
    <3>3. CASE ~(analysis[b].key = x /\ analysis[b].pc # "idle")
      BY <1>1, <1>2, <2>2, <3>1, <3>3 DEF Busy
    <3> QED BY <3>2, <3>3
  <2> QED BY <2>1, <2>2, LateAttends
<1>3. CASE k # x
  <2>1. doubtful'[k] = doubtful[k] /\ jobs'[k] = jobs[k]
    BY <1>0, <1>3 DEF WorkerDies, AnalysisTypes, Bump
  <2>2. ASSUME NEW b \in Analyst
        PROVE  analysis'[b] = analysis[b] \/ (~Busy(b, k) /\ ~Busy(b, k)')
    <3>1. CASE b = a
      BY <1>0, <1>1, <1>3, <3>1 DEF Busy
    <3>2. CASE b # a /\ a = Delivery /\ analysis[b].key = x /\ analysis[b].pc # "idle"
      <4>1. analysis'[b].key = x
        BY <1>0, <1>1, <3>2, LateRecord
      <4> QED BY <1>3, <3>2, <4>1 DEF Busy
    <3> QED BY <1>1, <3>1, <3>2
  <2> QED BY <1>0, <2>1, <2>2, RestUnaffected
<1>4. CASE a # Delivery /\ k = x
  <2>1. \A b \in Analyst \ {a} : analysis'[b] = analysis[b]
    BY <1>1, <1>4
  <2>2. CASE analysis[a].generation = generation[x]
    <3>1. jobs'[k] > 0
      BY <1>0, <1>4, <2>2 DEF WorkerDies, Bump
    <3> QED BY <3>1, WorkAttends DEF Work
  <2>3. CASE analysis[a].generation # generation[x]
    <3>1. UNCHANGED <<jobs, doubtful>>
      BY <1>4, <2>3 DEF WorkerDies
    <3>2. ~Busy(a, k) /\ ~Busy(a, k)'
      BY <1>0, <1>1, <1>4, <2>3 DEF Busy
    <3> QED BY <1>0, <2>1, <3>1, <3>2, RestUnaffected
  <2> QED BY <2>2, <2>3
<1> QED BY <1>2, <1>3, <1>4

LEMMA OtherStepsAttend ==
  ASSUME BoundsAssumption, IngestInv, IngestInv', Sources, AnalysisTypes, NEW k \in Keys, Attended(k),
         \/ \E r \in Requests, x \in Keys, msg \in Messages : Receive(r, x, msg)
         \/ \E x \in Keys, to \in Modes : SwitchMode(x, to)
         \/ \E x \in Keys : CleanupExpired(x)
         \/ DayEnds
  PROVE  Attended(k)'
<1>0. /\ request \in [Requests -> Handler] /\ generation \in [Keys -> Nat]
      /\ attempts \in [Keys -> Seq(StoredAttempt)] /\ event = [x \in Keys |-> event[x]]
      /\ jobs \in [Keys -> Nat] /\ doubtful \in [Keys -> BOOLEAN]
      /\ reports = [x \in Keys |-> reports[x]] /\ deliveries = [x \in Keys |-> deliveries[x]]
  BY DEF IngestInv, Types, AnalysisTypes, Sources
<1>1. ASSUME NEW r \in Requests, NEW x \in Keys, NEW msg \in Messages, Receive(r, x, msg)
      PROVE  Attended(k)'
  <2>1. /\ ~Stored(r) /\ \A y \in Requests \ {r} : request'[y] = request[y]
        /\ UNCHANGED <<event, generation, attempts, deliveries, reports, jobs, analysis, doubtful>>
    BY <1>0, <1>1 DEF Receive, Stored, tables
  <2> QED BY <2>1, OthersUnaffected
<1>2. ASSUME NEW x \in Keys, NEW to \in Modes, SwitchMode(x, to)
      PROVE  Attended(k)'
  <2>1. UNCHANGED <<event, generation, attempts, deliveries, reports, jobs, request, analysis,
                    doubtful>>
    BY <1>2 DEF SwitchMode, tables
  <2> QED BY <2>1, RestUnaffected
<1>3. ASSUME NEW x \in Keys, CleanupExpired(x)
      PROVE  Attended(k)'
  <2>1. CASE k = x
    BY <1>0, <1>3, <2>1 DEF CleanupExpired, Attended
  <2>2. CASE k # x
    <3>1. /\ generation'[k] = generation[k] /\ attempts'[k] = attempts[k]
          /\ deliveries'[k] = deliveries[k] /\ reports'[k] = reports[k] /\ event'[k] = event[k]
          /\ doubtful'[k] = doubtful[k] /\ jobs'[k] = jobs[k] /\ UNCHANGED <<request, analysis>>
      BY <1>0, <1>3, <2>2 DEF CleanupExpired, Bump
    <3>2. Work(k) => Work(k)'
      BY <3>1 DEF Work, Stored, Found
    <3>3. SameReading(attempts[k], attempts'[k])
      BY <3>1 DEF SameReading
    <3> QED BY <3>1, <3>2, <3>3, Unaffected
  <2> QED BY <2>1, <2>2
<1>4. CASE DayEnds
  <2>1. /\ event'[k] = IF event[k] = "none" THEN "none" ELSE "old"
        /\ UNCHANGED <<generation, deliveries, reports, jobs, request, analysis, doubtful>>
        /\ attempts'[k] = [i \in DOMAIN attempts[k] |-> [attempts[k][i] EXCEPT !.today = FALSE]]
    BY <1>4 DEF DayEnds
  <2>2. Work(k) => Work(k)'
    BY <2>1 DEF Work, Stored, Found
  <2>3. SameReading(attempts[k], attempts'[k])
    <3>1. /\ attempts[k] \in Seq(StoredAttempt) /\ attempts'[k] \in Seq(StoredAttempt)
          /\ DOMAIN attempts[k] = 1 .. Len(attempts[k])
      BY <1>0 DEF IngestInv, Types
    <3>2. DOMAIN attempts'[k] = DOMAIN attempts[k]
      BY <2>1
    <3>3. Len(attempts'[k]) = Len(attempts[k])
      BY <3>1, <3>2
    <3>4. \A a \in StoredAttempt : LET b == [a EXCEPT !.today = FALSE]
            IN  b.sequence = a.sequence /\ b.body = a.body /\ b.check = a.check /\ b.status = a.status
      BY DEF StoredAttempt
    <3>5. \A i \in 1 .. Len(attempts[k]) : attempts[k][i] \in StoredAttempt
      BY <3>1
    <3> QED BY <2>1, <3>1, <3>3, <3>4, <3>5 DEF SameReading
  <2> QED BY <2>1, <2>2, <2>3, Unaffected
<1> QED BY <1>1, <1>2, <1>3, <1>4

(* One analysis is replaced.                                               *)
LEMMA ReplacedTypes ==
  ASSUME AnalysisTypes, UNCHANGED <<event, reports, doubtful>>, jobs' \in [Keys -> Nat],
         NEW a \in Analyst, NEW y \in AnalysisRecord, analysis' = [analysis EXCEPT ![a] = y]
  PROVE  AnalysisTypes'
BY DEF AnalysisTypes

LEMMA AnalysisTypesKept ==
  ASSUME BoundsAssumption, IngestInv, AnalysisTypes, [Next]_vars
  PROVE  AnalysisTypes'
<1>0. /\ analysis \in [Analyst -> AnalysisRecord] /\ jobs \in [Keys -> Nat]
      /\ doubtful \in [Keys -> BOOLEAN] /\ reports = [k \in Keys |-> reports[k]]
      /\ event = [k \in Keys |-> event[k]]
  BY DEF AnalysisTypes
<1>1. ASSUME NEW r \in Requests,
             RequestStep(r) \/ PublishThrows(r) \/ HandlerDies(r)
      PROVE  AnalysisTypes'
  <2>1. request[r].key \in Keys
    BY DEF IngestInv, Types, Handler
  <2>2. UNCHANGED reports /\ event' = [k \in Keys |-> event'[k]]
    BY <1>0, <1>1 DEF RequestStep, FindEvent, CountAttempts, InsertAttempt, ReplyUnset, LookForDelivery,
       Accept, ObserveInsert, ObserveAnswered, ObserveFailed, Publish, PublishThrows, HandlerDies, tables
  <2>3. jobs' = jobs \/ jobs' = [jobs EXCEPT ![request[r].key] = jobs[request[r].key] + 1]
    BY <1>1 DEF RequestStep, FindEvent, CountAttempts, InsertAttempt, ReplyUnset, LookForDelivery,
       Accept, ObserveInsert, ObserveAnswered, ObserveFailed, Publish, PublishThrows, HandlerDies, Bump
  <2>4. UNCHANGED <<analysis, doubtful>> \/ Unanalysed(request[r].key)
    BY <1>1 DEF RequestStep, FindEvent, CountAttempts, InsertAttempt, ReplyUnset, LookForDelivery,
       Accept, ObserveInsert, ObserveAnswered, ObserveFailed, Publish, PublishThrows, HandlerDies, tables
  <2>5. analysis' \in [Analyst -> AnalysisRecord] /\ doubtful' \in [Keys -> BOOLEAN]
    BY <1>0, <2>1, <2>4, UnanalysedIs
  <2>6. reports' = [k \in Keys |-> reports'[k]] /\ jobs' \in [Keys -> Nat]
    BY <1>0, <2>1, <2>2, <2>3
  <2> QED BY <2>2, <2>5, <2>6, SMTT(30) DEF AnalysisTypes
<1>2. ASSUME NEW k \in Keys, NEW n, NEW outcome, Deliver(k, n, outcome)
      PROVE  AnalysisTypes'
  <2> DEFINE y == [NoAnalysis EXCEPT !.pc = "attempts", !.key = k, !.generation = generation[k]]
  <2>1. y \in AnalysisRecord
    BY Nothing DEF AnalysisRecord, IngestInv, Types
  <2>2. /\ analysis' = [analysis EXCEPT ![Delivery] = y]
        /\ UNCHANGED <<event, reports, doubtful, jobs>>
    BY <1>2 DEF Deliver
  <2> HIDE DEF y
  <2> QED BY <1>0, <2>1, <2>2, ReplacedTypes DEF Analyst
<1>3. ASSUME NEW a \in Analyst, NEW k \in Keys, Begin(a, k), UNCHANGED <<event, reports, doubtful>>,
             jobs' \in [Keys -> Nat]
      PROVE  AnalysisTypes'
  BY <1>0, <1>3, BeginIs DEF AnalysisTypes
<1>4. ASSUME NEW a \in Analyst, NEW k \in Keys, TakeAnalysis(a, k)
      PROVE  AnalysisTypes'
  <2>1. jobs' = [jobs EXCEPT ![k] = jobs[k] - 1] /\ jobs[k] > 0
        /\ Begin(a, k) /\ UNCHANGED <<event, reports, doubtful>>
    BY <1>4 DEF TakeAnalysis, tables
  <2>2. jobs[k] - 1 \in Nat
    BY <1>0, <2>1
  <2> QED BY <1>0, <1>3, <2>1, <2>2
<1>5. CASE ReadAttempts
  <2>1. Delivery \in Analyst /\ analysis[Delivery].key \in Keys
    BY <1>0 DEF Analyst, AnalysisRecord
  <2> QED BY <1>0, <1>3, <1>5, <2>1 DEF ReadAttempts, tables
<1>6. ASSUME NEW a \in Analyst, ReadDeliveries(a)
      PROVE  AnalysisTypes'
  <2>1. PICK v \in Verdicts(analysis[a].read, Rows(a, deliveries)) :
          analysis' = [analysis EXCEPT ![a].pc = "write", ![a].read = <<>>, ![a].verdict = v]
    BY <1>6 DEF ReadDeliveries
  <2> DEFINE y == [analysis[a] EXCEPT !.pc = "write", !.read = <<>>, !.verdict = v]
  <2>2. v \in {"pending", "passed", "failed"} /\ analysis[a] \in AnalysisRecord
        /\ <<>> \in Seq(StoredAttempt)
    BY <1>0, <2>1, VerdictValues
  <2>3. y \in AnalysisRecord
    BY <2>2 DEF AnalysisRecord
  <2>4. analysis' = [analysis EXCEPT ![a] = y]
    BY <2>1
  <2> HIDE DEF y
  <2> QED BY <1>0, <1>6, <2>3, <2>4, ReplacedTypes DEF ReadDeliveries, tables
<1>7. ASSUME NEW a \in Analyst, WriteReport(a) \/ WorkerDies(a)
      PROVE  AnalysisTypes'
  <2> DEFINE x == analysis[a].key
  <2>1. x \in Keys /\ analysis[a].late \in BOOLEAN /\ NoAnalysis \in AnalysisRecord
    BY <1>0, Nothing DEF AnalysisRecord
  <2>2. UNCHANGED event /\ reports' = [k \in Keys |-> reports'[k]]
    BY <1>0, <1>7 DEF WriteReport, WorkerDies, tables
  <2>3. doubtful' \in [Keys -> BOOLEAN]
    BY <1>0, <1>7, <2>1 DEF WriteReport, WorkerDies
  <2>4. jobs' \in [Keys -> Nat]
    <3>1. jobs' = jobs \/ jobs' = [jobs EXCEPT ![x] = jobs[x] + 1]
      BY <1>7 DEF WriteReport, WorkerDies, Bump
    <3>2. jobs[x] + 1 \in Nat
      BY <1>0, <2>1
    <3> QED BY <1>0, <3>1, <3>2
  <2>5. \A b \in Analyst : analysis'[b] \in {NoAnalysis, analysis[b], [analysis[b] EXCEPT !.late = TRUE]}
    BY <1>0, <1>7 DEF WriteReport, WorkerDies
  <2>6. ASSUME NEW b \in Analyst
        PROVE  analysis'[b] \in AnalysisRecord
    <3>1. \A y : y = [analysis[b] EXCEPT !.late = TRUE] => y \in AnalysisRecord
      BY <1>0, LateRecord
    <3> QED BY <1>0, <2>1, <2>5, <3>1
  <2>7. analysis' = [b \in Analyst |-> analysis'[b]]
    BY <1>0, <1>7 DEF WriteReport, WorkerDies
  <2> QED BY <1>0, <2>2, <2>3, <2>4, <2>6, <2>7 DEF AnalysisTypes
<1>8. ASSUME NEW k \in Keys, CleanupExpired(k)
      PROVE  AnalysisTypes'
  BY <1>0, <1>8 DEF CleanupExpired, AnalysisTypes
<1>9. ASSUME \/ UNCHANGED vars \/ Provider \/ DayEnds
             \/ \E k \in Keys : \E n \in DOMAIN deliveries[k] : RetryByHand(k, n)
             \/ \E k \in Keys, to \in Modes : SwitchMode(k, to)
      PROVE  AnalysisTypes'
  BY <1>0, <1>9 DEF AnalysisTypes, vars, tables, Provider, Receive, DayEnds, RetryByHand, SwitchMode
<1> QED BY <1>1, <1>2, <1>4, <1>5, <1>6, <1>7, <1>8, <1>9
        DEF Next, DeliveryWorker, Operator, AnalysisStep

LEMMA FreshInvKept ==
  ASSUME BoundsAssumption, IngestInv, IngestInv', Sources, FreshInv, [Next]_vars
  PROVE  FreshInv'
<1>1. SUFFICES ASSUME NEW k \in Keys, Attended(k), AnalysisTypes
      PROVE  Attended(k)'
  BY AnalysisTypesKept DEF FreshInv
<1>2. CASE UNCHANGED vars
  BY <1>1, <1>2, RestUnaffected DEF vars, tables
<1>3. CASE DeliveryWorker \/ \E x \in Keys : \E n \in DOMAIN deliveries[x] : RetryByHand(x, n)
  BY <1>1, <1>3, DeliveryAttends DEF DeliveryWorker
<1>4. ASSUME NEW a \in Analyst, NEW x \in Keys, TakeAnalysis(a, x)
      PROVE  Attended(k)'
  <2>1. /\ Begin(a, x) /\ analysis[a].pc = "idle" /\ a # Delivery
        /\ UNCHANGED <<request, generation, event, attempts, deliveries, reports, doubtful>>
        /\ k # x => jobs'[k] = jobs[k]
    BY <1>1, <1>4, BoundsAssumption DEF TakeAnalysis, tables, BoundsAssumption, AnalysisTypes
  <2> QED BY <1>1, <2>1, BeginAttends
<1>5. CASE ReadAttempts
  <2>1. Delivery \in Analyst /\ analysis[Delivery].key \in Keys
    BY <1>1 DEF Analyst, AnalysisTypes, AnalysisRecord
  <2>2. /\ Begin(Delivery, analysis[Delivery].key)
        /\ UNCHANGED <<request, generation, event, attempts, deliveries, reports, doubtful, jobs>>
    BY <1>5 DEF ReadAttempts, tables
  <2> QED BY <1>1, <2>1, <2>2, BeginAttends
<1>6. CASE \E r \in Requests : RequestStep(r) \/ PublishThrows(r) \/ HandlerDies(r)
  BY <1>1, <1>6, HandlerAttends
<1>7. CASE \E a \in Analyst : ReadDeliveries(a) \/ WriteReport(a) \/ WorkerDies(a)
  BY <1>1, <1>7, ReadAttends, WriteAttends, WorkerDiesAttends
<1>8. CASE \/ Provider \/ DayEnds \/ \E x \in Keys : CleanupExpired(x)
           \/ \E x \in Keys, to \in Modes : SwitchMode(x, to)
  BY <1>1, <1>8, OtherStepsAttend DEF Provider
<1> QED BY <1>2, <1>3, <1>4, <1>5, <1>6, <1>7, <1>8 DEF Next, Operator, AnalysisStep

LEMMA FreshInit == BoundsAssumption /\ Init => FreshInv
<1> SUFFICES ASSUME BoundsAssumption, Init PROVE FreshInv
  OBVIOUS
<1>1. NoAnalysis \in AnalysisRecord
  BY Nothing
<1> QED BY <1>1 DEF Init, FreshInv, AnalysisTypes, Attended

LEMMA RestIsFresh == FreshInv => ReportFresh
<1> SUFFICES ASSUME FreshInv, NEW k \in Keys, Quiet(k), attempts[k] # <<>>, ~doubtful[k]
             PROVE  reports[k] \in Verdicts(attempts[k], deliveries[k])
  BY DEF ReportFresh
<1>1. ~Work(k)
  BY DEF Quiet, Work
<1>2. \A a \in Analyst : ~Busy(a, k)
  BY DEF Quiet, Busy
<1> QED BY <1>1, <1>2 DEF FreshInv, Attended

(* The report of an event that nothing is under way for is the verdict on  *)
(* its rows as they are, unless its last change had no analysis to itself: *)
(* for any number of requests and analyses at once, with deaths of either  *)
(* process, removed events, manual retries and changes of mode.            *)
THEOREM ReportFreshHolds == Spec => []ReportFresh
<1>1. IngestInv /\ Sources /\ FreshInv /\ [Next]_vars => IngestInv' /\ Sources' /\ FreshInv'
  BY NextKeeps, FreshInvKept, BoundsAssumption
<1> QED BY <1>1, InitKeeps, FreshInit, RestIsFresh, BoundsAssumption, PTL DEF Spec
-----------------------------------------------------------------------------
(* Report and replay.                                                      *)

(* A row without a strategy that is numbered 1 may end as failed; every    *)
(* other one that failed was handed over, to a row with a greater number.  *)
First(row) == row.sequence = 1 /\ ~row.failover
Greatest(rows, i) == \A j \in DOMAIN rows : rows[j].sequence <= rows[i].sequence
GoodRows(rows) ==
  /\ rows \in Seq(Row)
  /\ rows # <<>> => \E i \in DOMAIN rows : Greatest(rows, i)
  /\ \A i \in DOMAIN rows :
       rows[i].state = "failed" => First(rows[i]) \/ ~Greatest(rows, i)

(* A handler of Observe that may still mark its row failed has one.        *)
Forwards(r) ==
  \/ request[r].pc = "forward"
  \/ request[r].pc = "publish" /\ request[r].mode = "observe" /\ Check(request[r].msg) = "passed"
Pointed(r) ==
  LET k == request[r].key
  IN  /\ request[r].pc \in {"previous", "accept"} => request[r].mode # "observe"
      /\ Forwards(r) /\ request[r].generation = generation[k]
           => request[r].row \in DOMAIN deliveries[k] /\ First(deliveries[k][request[r].row])

RowsInv ==
  /\ deliveries = [k \in Keys |-> deliveries[k]]
  /\ \A k \in Keys : GoodRows(deliveries[k])
  /\ \A r \in Requests : Pointed(r)

(* What a change of an event's rows leaves to those who point at them.     *)
Kept(old, new) ==
  \A i \in DOMAIN old : /\ i \in DOMAIN new /\ new[i].sequence = old[i].sequence
                        /\ new[i].failover = old[i].failover

LEMMA RowAppended ==
  ASSUME NEW rows, GoodRows(rows), NEW d \in Row, d.state # "failed",
         d.sequence = 1 \/ \A j \in DOMAIN rows : rows[j].sequence < d.sequence
  PROVE  GoodRows(Append(rows, d)) /\ Kept(rows, Append(rows, d))
<1> DEFINE new == Append(rows, d)
           n == Len(rows) + 1
<1>1. rows \in Seq(Row) /\ Len(rows) \in Nat /\ DOMAIN rows = 1 .. Len(rows)
  BY DEF GoodRows
<1>2. /\ new \in Seq(Row) /\ DOMAIN new = 1 .. n /\ new[n] = d
      /\ \A j \in DOMAIN rows : new[j] = rows[j]
  BY <1>1
<1> HIDE DEF new
<1>3. /\ \A j \in DOMAIN rows : rows[j].sequence \in Nat \ {0}
      /\ d.sequence \in Nat \ {0}
  <2>1. \A x \in Row : x.sequence \in Nat \ {0}
    BY DEF Row
  <2>2. \A j \in DOMAIN rows : rows[j] \in Row
    BY <1>1
  <2> QED BY <2>1, <2>2
<1>4. \A j \in 1 .. n : j \in DOMAIN rows \/ j = n
  BY <1>1
<1>5. \E i \in DOMAIN new : Greatest(new, i)
  <2>1. CASE \A j \in DOMAIN rows : rows[j].sequence < d.sequence
    <3>1. Greatest(new, n) /\ n \in DOMAIN new
      BY <1>1, <1>2, <1>3, <1>4, <2>1 DEF Greatest
    <3> QED BY <3>1
  <2>2. CASE d.sequence = 1 /\ rows # <<>>
    <3>1. PICK i \in DOMAIN rows : Greatest(rows, i)
      BY <2>2 DEF GoodRows
    <3>2. Greatest(new, i) /\ i \in DOMAIN new
      BY <1>1, <1>2, <1>3, <1>4, <2>2, <3>1 DEF Greatest
    <3> QED BY <3>2
  <2>3. CASE rows = <<>>
    <3>1. \A j \in DOMAIN rows : FALSE
      BY <2>3
    <3> QED BY <2>1, <3>1
  <2> QED BY <2>1, <2>2, <2>3
<1>6. ASSUME NEW i \in DOMAIN new, new[i].state = "failed"
      PROVE  First(new[i]) \/ ~Greatest(new, i)
  <2>1. i \in DOMAIN rows /\ new[i] = rows[i]
    BY <1>2, <1>4, <1>6
  <2>2. First(rows[i]) \/ ~Greatest(rows, i)
    BY <1>6, <2>1 DEF GoodRows
  <2>3. DOMAIN rows \subseteq DOMAIN new
    BY <1>1, <1>2
  <2> QED BY <1>2, <2>1, <2>2, <2>3 DEF Greatest
<1>7. Kept(rows, new)
  BY <1>1, <1>2 DEF Kept
<1> QED BY <1>2, <1>5, <1>6, <1>7 DEF GoodRows, new

(* A row changes its state.                                                *)
Moved(rows, n, state) == [rows EXCEPT ![n] = [rows[n] EXCEPT !.state = state]]
LEMMA RowMoved ==
  ASSUME NEW rows, GoodRows(rows), NEW n \in DOMAIN rows,
         NEW state \in {"queued", "delivering", "succeeded", "failed", "retrying", "dead_letter"}
  PROVE  LET new == Moved(rows, n, state) IN
         /\ new \in Seq(Row) /\ DOMAIN new = DOMAIN rows /\ Kept(rows, new)
         /\ \A i \in DOMAIN rows : Greatest(new, i) <=> Greatest(rows, i)
         /\ \A i \in DOMAIN rows : First(new[i]) <=> First(rows[i])
         /\ \A i \in DOMAIN rows \ {n} : new[i] = rows[i]
         /\ new[n].state = state
<1> DEFINE new == Moved(rows, n, state)
<1>1. rows \in Seq(Row) /\ Len(rows) \in Nat /\ DOMAIN rows = 1 .. Len(rows) /\ rows[n] \in Row
  BY DEF GoodRows
<1> DEFINE d == [rows[n] EXCEPT !.state = state]
<1>2. /\ d \in Row /\ d.sequence = rows[n].sequence /\ d.failover = rows[n].failover
      /\ d.state = state
  BY <1>1 DEF Row
<1> HIDE DEF d
<1>3. /\ new \in Seq(Row) /\ DOMAIN new = DOMAIN rows /\ new[n] = d
      /\ \A i \in DOMAIN rows \ {n} : new[i] = rows[i]
  <2>1. new = [rows EXCEPT ![n] = d]
    BY DEF d, Moved
  <2>2. rows \in [1 .. Len(rows) -> Row]
    BY <1>1
  <2>3. new \in [1 .. Len(rows) -> Row]
    BY <1>2, <2>1, <2>2
  <2> QED BY <1>1, <2>1, <2>2, <2>3
<1>4. \A i \in DOMAIN rows : new[i].sequence = rows[i].sequence /\ new[i].failover = rows[i].failover
  BY <1>2, <1>3
<1> QED BY <1>2, <1>3, <1>4 DEF Kept, Greatest, First

LEMMA RowEnded ==
  ASSUME NEW rows, GoodRows(rows), NEW n \in DOMAIN rows,
         NEW state \in {"succeeded", "failed", "dead_letter"},
         state = "failed" => First(rows[n])
  PROVE  GoodRows(Moved(rows, n, state)) /\ Kept(rows, Moved(rows, n, state))
<1> DEFINE new == Moved(rows, n, state)
<1>0. state \in {"queued", "delivering", "succeeded", "failed", "retrying", "dead_letter"}
  OBVIOUS
<1>1. /\ new \in Seq(Row) /\ DOMAIN new = DOMAIN rows /\ Kept(rows, new)
      /\ \A i \in DOMAIN rows : Greatest(new, i) <=> Greatest(rows, i)
      /\ \A i \in DOMAIN rows : First(new[i]) <=> First(rows[i])
      /\ \A i \in DOMAIN rows \ {n} : new[i] = rows[i]
      /\ new[n].state = state
  BY <1>0, RowMoved
<1> HIDE DEF new
<1>2. rows # <<>>
  OBVIOUS
<1>3. \E i \in DOMAIN new : Greatest(new, i)
  BY <1>1, <1>2 DEF GoodRows
<1>4. ASSUME NEW i \in DOMAIN new, new[i].state = "failed"
      PROVE  First(new[i]) \/ ~Greatest(new, i)
  BY <1>1, <1>4 DEF GoodRows
<1> QED BY <1>1, <1>3, <1>4 DEF GoodRows, new

(* A new row's number is greater than those of all the others.             *)
LEMMA NextIsGreatest ==
  ASSUME NEW k \in Keys, GoodRows(deliveries[k]), deliveries[k] # <<>>
  PROVE  /\ NextNumber(k) \in Nat \ {0}
         /\ \A j \in DOMAIN deliveries[k] : deliveries[k][j].sequence < NextNumber(k)
<1> DEFINE rows == deliveries[k]
           S == {rows[i].sequence : i \in DOMAIN rows}
<1>1. \A j \in DOMAIN rows : rows[j].sequence \in Nat \ {0}
  <2>1. \A x \in Row : x.sequence \in Nat \ {0}
    BY DEF Row
  <2>2. \A j \in DOMAIN rows : rows[j] \in Row
    BY DEF GoodRows
  <2> QED BY <2>1, <2>2
<1>2. PICK i \in DOMAIN rows : Greatest(rows, i)
  BY DEF GoodRows
<1>3. rows[i].sequence \in S /\ \A y \in S : rows[i].sequence >= y
  BY <1>1, <1>2 DEF Greatest
<1>4. Max(S) \in S /\ \A y \in S : Max(S) >= y
  BY <1>3, Zenon DEF Max
<1>5. NextNumber(k) = Max(S) + 1
  BY DEF NextNumber
<1>6. /\ Max(S) \in Nat \ {0}
      /\ \A j \in DOMAIN rows : rows[j].sequence \in S /\ Max(S) >= rows[j].sequence
  BY <1>1, <1>4
<1> HIDE DEF S
<1> QED BY <1>1, <1>5, <1>6

(* A row is exhausted and another one takes its place.                     *)
LEMMA RowReplaced ==
  ASSUME NEW rows, GoodRows(rows), NEW n \in DOMAIN rows,
         NEW state \in {"failed", "retrying"}, NEW d \in Row, d.state # "failed",
         \A j \in DOMAIN rows : rows[j].sequence < d.sequence
  PROVE  /\ GoodRows(Append(Moved(rows, n, state), d))
         /\ Kept(rows, Append(Moved(rows, n, state), d))
<1> DEFINE moved == Moved(rows, n, state)
           m == Len(rows) + 1
           new == Append(moved, d)
<1>0. state \in {"queued", "delivering", "succeeded", "failed", "retrying", "dead_letter"}
  OBVIOUS
<1>1. moved \in Seq(Row) /\ DOMAIN moved = DOMAIN rows /\ Kept(rows, moved)
  BY <1>0, RowMoved
<1> HIDE DEF moved
<1>2. /\ DOMAIN rows = 1 .. Len(rows) /\ Len(rows) \in Nat /\ Len(moved) = Len(rows)
      /\ \A j \in DOMAIN rows : rows[j].sequence \in Nat
  <2>1. \A x \in Row : x.sequence \in Nat
    BY DEF Row
  <2>2. rows \in Seq(Row)
    BY DEF GoodRows
  <2> QED BY <1>1, <2>1, <2>2
<1>3. /\ new \in Seq(Row) /\ DOMAIN new = 1 .. m /\ new[m] = d
      /\ \A j \in DOMAIN rows : new[j] = moved[j]
  BY <1>1, <1>2
<1> HIDE DEF new
<1>4. Kept(rows, new)
  BY <1>1, <1>2, <1>3 DEF Kept
<1>5. d.sequence \in Nat
  BY DEF Row
<1>6. \A j \in DOMAIN new : new[j].sequence <= d.sequence /\ (j # m => new[j].sequence < d.sequence)
  BY <1>2, <1>3, <1>4, <1>5 DEF Kept
<1>7. Greatest(new, m) /\ m \in DOMAIN new
  BY <1>2, <1>3, <1>6 DEF Greatest
<1>8. \A j \in DOMAIN new : Greatest(new, j) => j = m
  BY <1>2, <1>3, <1>4, <1>5, <1>6, <1>7 DEF Greatest, Kept
<1>9. \A j \in DOMAIN new : new[j].state = "failed" => First(new[j]) \/ ~Greatest(new, j)
  BY <1>3, <1>8
<1> QED BY <1>3, <1>4, <1>7, <1>9 DEF GoodRows, new, moved

(* What a step must show: the rows it changes stay good and in place, and  *)
(* the handler that takes it points at its own.                            *)
LEMMA RowsStep ==
  ASSUME Sources, RowsInv, IngestInv, NEW k \in Keys, NEW rows,
         UNCHANGED generation, deliveries' = [deliveries EXCEPT ![k] = rows],
         GoodRows(rows), Kept(deliveries[k], rows)
  PROVE  /\ \A x \in Keys : GoodRows(deliveries'[x]) /\ Kept(deliveries[x], deliveries'[x])
         /\ \A r \in Requests : request'[r] = request[r] => Pointed(r)'
<1>1. \A x \in Keys : deliveries'[x] = IF x = k THEN rows ELSE deliveries[x]
  BY DEF Sources
<1>2. \A x \in Keys : Kept(deliveries[x], deliveries[x])
  BY DEF Kept
<1>3. \A x \in Keys : GoodRows(deliveries'[x]) /\ Kept(deliveries[x], deliveries'[x])
  BY <1>1, <1>2 DEF RowsInv
<1>4. ASSUME NEW r \in Requests, request'[r] = request[r]
      PROVE  Pointed(r)'
  <2>1. request[r].key \in Keys /\ Pointed(r)
    BY DEF IngestInv, Types, Handler, RowsInv
  <2>2. Kept(deliveries[request[r].key], deliveries'[request[r].key])
    BY <1>3, <2>1
  <2> QED BY <1>4, <2>1, <2>2 DEF Pointed, Forwards, Kept, First
<1> QED BY <1>3, <1>4

LEMMA RowsStay ==
  ASSUME Sources, RowsInv, IngestInv, UNCHANGED <<deliveries, generation>>
  PROVE  /\ \A x \in Keys : GoodRows(deliveries'[x])
         /\ \A r \in Requests : request'[r] = request[r] => Pointed(r)'
BY DEF RowsInv, Pointed, Forwards

LEMMA NewRow ==
  ASSUME NEW sequence \in Nat \ {0}, NEW target \in {"target", "backup", "primary"},
         NEW state \in {"queued", "delivering"}, NEW kind \in {"forward", "retry", "failover"},
         NEW strategy
  PROVE  /\ NewDelivery(sequence, target, state, kind, strategy) \in Row
         /\ NewDelivery(sequence, target, state, kind, strategy).state # "failed"
         /\ NewDelivery(sequence, target, state, kind, strategy).sequence = sequence
         /\ NewDelivery(sequence, target, state, kind, strategy).failover = (strategy = "failover")
BY DEF NewDelivery, Row

(* A handler that is done, or not past its insert, points at nothing.      *)
LEMMA PointsNowhere ==
  ASSUME NEW r, request[r].pc \notin {"previous", "accept", "forward", "publish"}
  PROVE  Pointed(r)
BY DEF Pointed, Forwards

(* The destination's answer, or its silence, ends the handler's own row.   *)
LEMMA AnswerRows ==
  ASSUME BoundsAssumption, Sources, RowsInv, IngestInv, NEW r \in Requests, Forwards(r),
         NEW state \in {"succeeded", "failed"}, SetRow(r, state), UNCHANGED generation
  PROVE  /\ \A x \in Keys : GoodRows(deliveries'[x]) /\ Kept(deliveries[x], deliveries'[x])
         /\ \A x \in Requests : request'[x] = request[x] => Pointed(x)'
<1> DEFINE k == request[r].key
           n == request[r].row
<1>0. k \in Keys /\ Pointed(r) /\ GoodRows(deliveries[k])
  BY DEF IngestInv, Types, Handler, RowsInv
<1>1. CASE Found(r)
  <2>1. n \in DOMAIN deliveries[k] /\ First(deliveries[k][n])
    BY <1>0, <1>1 DEF Pointed, Found
  <2>2. deliveries' = [deliveries EXCEPT ![k] = Moved(deliveries[k], n, state)]
    BY <1>1 DEF SetRow, Moved
  <2>3. state \in {"succeeded", "failed", "dead_letter"}
    OBVIOUS
  <2>4. GoodRows(Moved(deliveries[k], n, state))
        /\ Kept(deliveries[k], Moved(deliveries[k], n, state))
    BY <1>0, <2>1, <2>3, RowEnded
  <2> QED BY <1>0, <2>2, <2>4, RowsStep
<1>2. CASE ~Found(r)
  <2>1. deliveries' = deliveries
    BY <1>2 DEF SetRow
  <2>2. \A x \in Keys : Kept(deliveries[x], deliveries'[x])
    BY <2>1 DEF Kept
  <2>3. \A x \in Keys : GoodRows(deliveries'[x])
    BY <2>1, RowsStay
  <2> QED BY <2>1, <2>2, <2>3, RowsStay
<1> QED BY <1>1, <1>2

LEMMA HandlerRows ==
  ASSUME BoundsAssumption, Sources, RowsInv, IngestInv, NEW r \in Requests,
         RequestStep(r) \/ PublishThrows(r) \/ HandlerDies(r)
  PROVE  RowsInv'
<1> DEFINE k == request[r].key
<1>0. /\ request[r] \in Handler /\ request \in [Requests -> Handler] /\ k \in Keys
      /\ Pointed(r) /\ GoodRows(deliveries[k])
  BY DEF IngestInv, Types, Handler, RowsInv
<1>1. ASSUME \A x \in Keys : GoodRows(deliveries'[x]), deliveries' = [x \in Keys |-> deliveries'[x]],
             \A x \in Requests : request'[x] = request[x] => Pointed(x)',
             \A x \in Requests \ {r} : request'[x] = request[x],
             request'[r] # request[r] => Pointed(r)'
      PROVE  RowsInv'
  BY <1>1 DEF RowsInv
<1>2. ASSUME Done(r)
      PROVE  (\A x \in Requests \ {r} : request'[x] = request[x]) /\ Pointed(r)'
  BY <1>2, IdleHandler DEF Done, IngestInv, Types, Pointed, Forwards
<1>3. ASSUME UNCHANGED <<deliveries, generation>>, \A x \in Requests \ {r} : request'[x] = request[x],
             Pointed(r)'
      PROVE  RowsInv'
  <2>1. deliveries' = [x \in Keys |-> deliveries'[x]]
    BY <1>3 DEF Sources
  <2> QED BY <1>1, <1>3, <2>1, RowsStay
<1>4. CASE FindEvent(r) \/ CountAttempts(r)
  <2>1. /\ request'[r].pc \in {"count", "insert"}
        /\ \A x \in Requests \ {r} : request'[x] = request[x]
    BY <1>0, <1>4 DEF FindEvent, CountAttempts, Handler
  <2>2. Pointed(r)'
    BY <2>1 DEF Pointed, Forwards
  <2> QED BY <1>3, <1>4, <2>1, <2>2 DEF FindEvent, CountAttempts
<1>5. CASE InsertAttempt(r)
  <2>1. UNCHANGED <<deliveries, generation>>
    BY <1>5 DEF InsertAttempt
  <2>2. CASE Done(r)
    BY <1>2, <1>3, <2>1, <2>2
  <2>3. ASSUME NEW pc \in AfterInsert(r), Advance(r, pc)
        PROVE  RowsInv'
    <3>1. /\ request'[r].pc = pc /\ request'[r].mode = request[r].mode
          /\ request'[r].msg = request[r].msg /\ \A x \in Requests \ {r} : request'[x] = request[x]
      BY <1>0, <2>3 DEF Advance, Handler
    <3>2. Pointed(r)'
      BY <2>3, <3>1 DEF AfterInsert, Pointed, Forwards
    <3> QED BY <1>3, <2>1, <3>1, <3>2
  <2> QED BY <1>5, <2>2, <2>3 DEF InsertAttempt
<1>6. CASE ReplyUnset(r) \/ Publish(r) \/ HandlerDies(r)
  BY <1>2, <1>3, <1>6 DEF ReplyUnset, Publish, HandlerDies, tables
<1>7. CASE LookForDelivery(r)
  <2>1. PICK pc \in {"publish", "accept"} : Advance(r, pc)
    BY <1>7 DEF LookForDelivery
  <2>2. /\ request'[r].pc = pc /\ request'[r].mode = request[r].mode
        /\ \A x \in Requests \ {r} : request'[x] = request[x] /\ request[r].pc = "previous"
    BY <1>0, <1>7, <2>1 DEF Advance, Handler, LookForDelivery
  <2>3. Pointed(r)'
    BY <1>0, <1>7, <2>1, <2>2 DEF LookForDelivery, Pointed, Forwards
  <2> QED BY <1>3, <1>7, <2>2, <2>3 DEF LookForDelivery, tables
<1>8. CASE Accept(r)
  <2>1. CASE ~Found(r)
    BY <1>2, <1>3, <1>8, <2>1 DEF Accept
  <2>2. CASE Found(r)
    <3>1. PICK strategy \in Strategies :
            deliveries' = [deliveries EXCEPT ![k] =
              Append(deliveries[k], NewDelivery(1, "target", "queued", "forward", strategy))]
      BY <1>8, <2>2 DEF Accept
    <3> DEFINE d == NewDelivery(1, "target", "queued", "forward", strategy)
    <3>2. d \in Row /\ d.state # "failed" /\ d.sequence = 1
      BY NewRow
    <3>3. GoodRows(Append(deliveries[k], d)) /\ Kept(deliveries[k], Append(deliveries[k], d))
      BY <1>0, <3>2, RowAppended
    <3>4. Advance(r, "publish") /\ UNCHANGED generation /\ request[r].pc = "accept"
      BY <1>8, <2>2 DEF Accept
    <3>5. /\ request'[r].pc = "publish" /\ request'[r].mode = request[r].mode
          /\ \A x \in Requests \ {r} : request'[x] = request[x]
      BY <1>0, <3>4 DEF Advance, Handler
    <3>6. Pointed(r)'
      BY <1>0, <3>4, <3>5 DEF Pointed, Forwards
    <3>7. deliveries' = [x \in Keys |-> deliveries'[x]]
      BY <3>1 DEF Sources
    <3>8. /\ \A x \in Keys : GoodRows(deliveries'[x])
          /\ \A x \in Requests : request'[x] = request[x] => Pointed(x)'
      BY <1>0, <3>1, <3>3, <3>4, RowsStep
    <3> QED BY <1>1, <3>5, <3>6, <3>7, <3>8
  <2> QED BY <2>1, <2>2
<1>9. CASE ObserveInsert(r)
  <2>1. CASE ~Found(r)
    BY <1>2, <1>3, <1>9, <2>1 DEF ObserveInsert
  <2>2. CASE Found(r)
    <3> DEFINE d == NewDelivery(1, "primary", "delivering", "forward", "none")
               new == Append(deliveries[k], d)
               n == Len(deliveries[k]) + 1
    <3>1. /\ deliveries' = [deliveries EXCEPT ![k] = new] /\ UNCHANGED generation
          /\ request' = [request EXCEPT ![r] = [request[r] EXCEPT !.pc = "forward", !.row = n]]
      BY <1>9, <2>2 DEF ObserveInsert
    <3>2. d \in Row /\ d.state # "failed" /\ First(d)
      <4>1. /\ d \in Row /\ d.state # "failed" /\ d.sequence = 1
            /\ d.failover = ("none" = "failover")
        BY NewRow
      <4>2. ~("none" = "failover")
        OBVIOUS
      <4>3. d.failover = FALSE
        BY <4>1, <4>2
      <4> HIDE DEF d
      <4> QED BY <4>1, <4>3 DEF First
    <3>3. GoodRows(new) /\ Kept(deliveries[k], new)
      BY <1>0, <3>2, RowAppended DEF First
    <3>4. /\ request'[r].pc = "forward" /\ request'[r].row = n /\ request'[r].key = k
          /\ \A x \in Requests \ {r} : request'[x] = request[x]
      BY <1>0, <3>1 DEF Handler
    <3>5. n \in DOMAIN new /\ new[n] = d
      BY <1>0 DEF GoodRows
    <3>6. deliveries'[k] = new
      BY <1>0, <3>1 DEF Sources
    <3> HIDE DEF d, new, n
    <3>7. Pointed(r)'
      BY <3>2, <3>4, <3>5, <3>6 DEF Pointed
    <3>8. deliveries' = [x \in Keys |-> deliveries'[x]]
      BY <3>1 DEF Sources
    <3>9. /\ \A x \in Keys : GoodRows(deliveries'[x])
          /\ \A x \in Requests : request'[x] = request[x] => Pointed(x)'
      BY <1>0, <3>1, <3>3, RowsStep
    <3> QED BY <1>1, <3>4, <3>7, <3>8, <3>9
  <2> QED BY <2>1, <2>2
<1>10. ASSUME NEW state \in {"succeeded", "failed"}, SetRow(r, state), UNCHANGED generation, Forwards(r),
              Done(r) \/ (Advance(r, "publish") /\ request[r].pc = "forward")
       PROVE  RowsInv'
  <2>1. /\ \A x \in Keys : GoodRows(deliveries'[x]) /\ Kept(deliveries[x], deliveries'[x])
        /\ \A x \in Requests : request'[x] = request[x] => Pointed(x)'
    BY <1>10, AnswerRows
  <2>2. deliveries' = [x \in Keys |-> deliveries'[x]]
    BY <1>10 DEF SetRow, Sources
  <2>3. CASE Done(r)
    BY <1>1, <1>2, <2>1, <2>2, <2>3
  <2>4. CASE Advance(r, "publish") /\ request[r].pc = "forward"
    <3>1. /\ request'[r].pc = "publish" /\ request'[r].row = request[r].row /\ request'[r].key = k
          /\ request'[r].generation = request[r].generation
          /\ \A x \in Requests \ {r} : request'[x] = request[x]
      BY <1>0, <2>4 DEF Advance, Handler
    <3>2. Kept(deliveries[k], deliveries'[k])
      BY <1>0, <2>1
    <3>3. Pointed(r)'
      BY <1>0, <1>10, <3>1, <3>2 DEF Pointed, Forwards, Kept, First
    <3> QED BY <1>1, <2>1, <2>2, <3>1, <3>3
  <2> QED BY <1>10, <2>3, <2>4
<1>11. CASE ObserveAnswered(r)
  BY <1>10, <1>11 DEF ObserveAnswered, Forwards
<1>12. CASE ObserveFailed(r) \/ PublishThrows(r)
  BY <1>10, <1>12 DEF ObserveFailed, PublishThrows, Forwards
<1> QED BY <1>4, <1>5, <1>6, <1>7, <1>8, <1>9, <1>11, <1>12 DEF RequestStep

LEMMA ChangedRows ==
  ASSUME Sources, RowsInv, IngestInv, UNCHANGED request, NEW k \in Keys, NEW rows, GoodRows(rows),
         Kept(deliveries[k], rows), UNCHANGED generation,
         deliveries' = [deliveries EXCEPT ![k] = rows]
  PROVE  RowsInv'
<1>1. deliveries' = [x \in Keys |-> deliveries'[x]]
  BY DEF Sources
<1>2. /\ \A x \in Keys : GoodRows(deliveries'[x])
      /\ \A r \in Requests : Pointed(r)'
  BY RowsStep
<1> QED BY <1>1, <1>2 DEF RowsInv

LEMMA DeliverRows ==
  ASSUME Sources, RowsInv, IngestInv, UNCHANGED request, NEW k \in Keys,
         NEW n \in DOMAIN deliveries[k], NEW outcome, Deliver(k, n, outcome)
  PROVE  RowsInv'
<1>0. \A x \in Keys : GoodRows(deliveries[x])
  BY DEF RowsInv
<1> DEFINE rows == deliveries[k]
           row == deliveries[k][n]
<1>1. /\ NextNumber(k) \in Nat \ {0}
      /\ \A j \in DOMAIN rows : rows[j].sequence < NextNumber(k)
  <2>1. rows # <<>>
    OBVIOUS
  <2> QED BY <1>0, <2>1, NextIsGreatest
<1>2. row \in Row /\ UNCHANGED generation
  BY <1>0 DEF GoodRows, Deliver
<1>3. CASE outcome \in {"succeeded", "dead_letter"}
  <2>1. deliveries' = [deliveries EXCEPT ![k] = Moved(rows, n, outcome)]
    BY <1>3 DEF Deliver, Moved
  <2>2. outcome \in {"succeeded", "failed", "dead_letter"} /\ outcome # "failed"
    BY <1>3
  <2>3. GoodRows(Moved(rows, n, outcome)) /\ Kept(rows, Moved(rows, n, outcome))
    BY <1>0, <2>2, RowEnded
  <2> QED BY ChangedRows, <1>2, <2>1, <2>3
<1>4. CASE outcome = "retrying"
  <2> DEFINE d == [row EXCEPT !.sequence = NextNumber(k), !.kind = "retry"]
  <2>1. deliveries' = [deliveries EXCEPT ![k] = Append(Moved(rows, n, "retrying"), d)]
    BY <1>4 DEF Deliver, Moved
  <2>2. row.state = "queued"
    BY DEF Deliver
  <2>3. d \in Row /\ d.state # "failed" /\ d.sequence = NextNumber(k)
    BY <1>1, <1>2, <2>2 DEF Row
  <2> HIDE DEF d
  <2>4. /\ GoodRows(Append(Moved(rows, n, "retrying"), d))
        /\ Kept(rows, Append(Moved(rows, n, "retrying"), d))
    BY <1>0, <1>1, <2>3, RowReplaced
  <2> QED BY ChangedRows, <1>2, <2>1, <2>4
<1>5. CASE outcome = "failed"
  <2> DEFINE d == NewDelivery(NextNumber(k), "backup", "queued", "failover", "failover")
  <2>1. deliveries' = [deliveries EXCEPT ![k] = Append(Moved(rows, n, "failed"), d)]
    BY <1>5 DEF Deliver, Moved
  <2>2. d \in Row /\ d.state # "failed" /\ d.sequence = NextNumber(k)
    BY <1>1, NewRow
  <2> HIDE DEF d
  <2>3. /\ GoodRows(Append(Moved(rows, n, "failed"), d))
        /\ Kept(rows, Append(Moved(rows, n, "failed"), d))
    BY <1>0, <1>1, <2>2, RowReplaced
  <2> QED BY ChangedRows, <1>2, <2>1, <2>3
<1> QED BY <1>3, <1>4, <1>5 DEF Deliver

LEMMA RetryRows ==
  ASSUME Sources, RowsInv, IngestInv, UNCHANGED request, NEW k \in Keys,
         NEW n \in DOMAIN deliveries[k], RetryByHand(k, n)
  PROVE  RowsInv'
<1>0. \A x \in Keys : GoodRows(deliveries[x])
  BY DEF RowsInv
<1> DEFINE d == NewDelivery(NextNumber(k), "primary", "queued", "retry", "none")
           rows == deliveries[k]
<1>1. /\ NextNumber(k) \in Nat \ {0}
      /\ \A j \in DOMAIN rows : rows[j].sequence < NextNumber(k)
  <2>1. rows # <<>>
    OBVIOUS
  <2> QED BY <1>0, <2>1, NextIsGreatest
<1>2. d \in Row /\ d.state # "failed" /\ d.sequence = NextNumber(k)
  BY <1>1, NewRow
<1>3. deliveries' = [deliveries EXCEPT ![k] = Append(rows, d)] /\ UNCHANGED generation
  BY DEF RetryByHand
<1> HIDE DEF d
<1>4. GoodRows(Append(rows, d)) /\ Kept(rows, Append(rows, d))
  BY <1>0, <1>1, <1>2, RowAppended
<1> QED BY ChangedRows, <1>3, <1>4

LEMMA CleanupRows ==
  ASSUME Sources, RowsInv, IngestInv, UNCHANGED request, NEW k \in Keys, CleanupExpired(k)
  PROVE  RowsInv'
<1>0. \A x \in Keys : GoodRows(deliveries[x])
  BY DEF RowsInv
<1>1. /\ deliveries' = [deliveries EXCEPT ![k] = <<>>]
      /\ generation' = [generation EXCEPT ![k] = generation[k] + 1]
  BY DEF CleanupExpired, Bump
<1>2. GoodRows(<<>>)
  BY DEF GoodRows
<1>3. \A x \in Keys : GoodRows(deliveries'[x])
  BY <1>0, <1>1, <1>2 DEF Sources
<1>4. ASSUME NEW r \in Requests PROVE Pointed(r)'
  <2>1. /\ Pointed(r) /\ request[r].key \in Keys /\ request[r].generation \in Nat
        /\ generation[request[r].key] \in Nat
        /\ request[r].generation <= generation[request[r].key]
    BY DEF RowsInv, IngestInv, Types, Handler, Claims
  <2>2. CASE request[r].key = k
    <3>1. request[r].generation # generation'[k]
      BY <1>1, <2>1, <2>2 DEF IngestInv, Types
    <3> QED BY <2>1, <2>2, <3>1 DEF Pointed, Forwards
  <2>3. CASE request[r].key # k
    <3>1. /\ deliveries'[request[r].key] = deliveries[request[r].key]
          /\ generation'[request[r].key] = generation[request[r].key]
      BY <1>1, <2>1, <2>3 DEF Sources, IngestInv, Types
    <3> QED BY <2>1, <3>1 DEF Pointed, Forwards
  <2> QED BY <2>2, <2>3
<1> QED BY <1>1, <1>3, <1>4 DEF RowsInv, Sources

LEMMA UntouchedRows ==
  ASSUME Sources, RowsInv, IngestInv, UNCHANGED <<request, deliveries, generation>>
  PROVE  RowsInv'
BY RowsStay DEF RowsInv, Sources

LEMMA RowsInvKept ==
  ASSUME BoundsAssumption, Sources, RowsInv, IngestInv, [Next]_vars
  PROVE  RowsInv'
<1>1. CASE UNCHANGED vars
  BY <1>1, UntouchedRows DEF vars, tables
<1>2. ASSUME NEW r \in Requests, NEW k \in Keys, NEW msg \in Messages, Receive(r, k, msg)
      PROVE  RowsInv'
  <2>1. UNCHANGED <<deliveries, generation>>
    BY <1>2 DEF Receive, tables
  <2>2. CASE UNCHANGED request
    BY <2>1, <2>2, UntouchedRows
  <2>3. CASE request' = [request EXCEPT ![r] = [NoRequest EXCEPT
               !.pc = "find", !.key = k, !.msg = msg, !.mode = mode[k]]]
    <3>1. request'[r].pc = "find" /\ \A x \in Requests \ {r} : request'[x] = request[x]
      BY <2>3 DEF IngestInv, Types, NoRequest
    <3>2. Pointed(r)'
      BY <3>1 DEF Pointed, Forwards
    <3>3. deliveries' = [x \in Keys |-> deliveries'[x]]
      BY <2>1 DEF Sources
    <3> QED BY <2>1, <3>1, <3>2, <3>3, RowsStay DEF RowsInv
  <2> QED BY <1>2, <2>2, <2>3 DEF Receive
<1>3. CASE DeliveryWorker
  <2>1. PICK k \in Keys, outcome \in {"succeeded", "retrying", "failed", "dead_letter"} :
          \E n \in DOMAIN deliveries[k] : Deliver(k, n, outcome)
    BY <1>3 DEF DeliveryWorker
  <2>2. UNCHANGED request
    BY <2>1 DEF Deliver
  <2> QED BY <2>1, <2>2, DeliverRows
<1>4. CASE Operator
  <2>1. UNCHANGED request
    BY <1>4 DEF Operator, RetryByHand, SwitchMode
  <2>2. CASE \E k \in Keys : \E n \in DOMAIN deliveries[k] : RetryByHand(k, n)
    BY <2>1, <2>2, RetryRows
  <2>3. CASE \E k \in Keys : \E to \in Modes : SwitchMode(k, to)
    BY <2>1, <2>3, UntouchedRows DEF SwitchMode, tables
  <2> QED BY <1>4, <2>2, <2>3 DEF Operator
<1>5. CASE \E a \in Analyst : AnalysisStep(a) \/ WorkerDies(a)
  <2>1. UNCHANGED <<request, deliveries, generation>>
    BY <1>5 DEF AnalysisStep, TakeAnalysis, ReadAttempts, ReadDeliveries, WriteReport, WorkerDies, tables
  <2> QED BY <2>1, UntouchedRows
<1>6. CASE \E k \in Keys : CleanupExpired(k)
  <2>1. UNCHANGED request
    BY <1>6 DEF CleanupExpired
  <2> QED BY <1>6, <2>1, CleanupRows
<1>7. CASE DayEnds
  BY <1>7, UntouchedRows DEF DayEnds
<1> QED BY <1>1, <1>2, <1>3, <1>4, <1>5, <1>6, <1>7, HandlerRows DEF Next, Provider

LEMMA RowsInit == BoundsAssumption /\ Init => RowsInv
<1> SUFFICES ASSUME BoundsAssumption, Init PROVE RowsInv
  OBVIOUS
<1>1. GoodRows(<<>>)
  BY DEF GoodRows
<1> QED BY <1>1, IdleHandler DEF Init, RowsInv, Pointed, Forwards

(* The last row of an event whose verdict is passed whatever the order of  *)
(* equally numbered rows succeeded.                                        *)
LEMMA LastSucceeded ==
  ASSUME NEW k \in Keys, GoodRows(deliveries[k]), Ordered(k),
         "passed" \in Verdicts(attempts[k], deliveries[k]), NEW d \in LastRows(k)
  PROVE  d.state = "succeeded"
<1> DEFINE rows == deliveries[k]
           read == attempts[k]
<1>1. PICK i \in DOMAIN rows : d = rows[i] /\ Greatest(rows, i)
  BY DEF LastRows, Greatest
<1>2. d \in Row /\ \A j \in DOMAIN rows : rows[j] \in Row
  BY <1>1 DEF GoodRows
<1> DEFINE t == d.target
<1>3. t \in Targets(rows) /\ d \in LastOf(rows, t)
  BY <1>1 DEF Targets, LastOf, Greatest
<1>4. PICK g \in Finals(rows) : StatusOf(read, rows, g) = "passed"
  BY DEF Verdicts
<1> DEFINE f == [g EXCEPT ![t] = d]
<1>5. f \in Finals(rows) /\ t \in DOMAIN f /\ f[t] = d
  BY <1>3, <1>4 DEF Finals
<1> HIDE DEF f, t
<1>6. StatusOf(read, rows, f) = "passed"
  BY <1>4, <1>5 DEF Ordered, Verdicts
<1>7. Recovered(read, rows, f)
  BY <1>6 DEF StatusOf
<1>8. d.state \in {"succeeded", "failed"} /\ (~HasFailover(rows) => d.state = "succeeded")
  BY <1>2, <1>5, <1>7 DEF Recovered, Waiting, Row
<1>9. ASSUME HasFailover(rows), d.state = "failed"
      PROVE  FALSE
  <2>1. First(d)
    BY <1>1, <1>9 DEF GoodRows
  <2>2. \A x \in Row : x.sequence \in Nat \ {0}
    BY DEF Row
  <2>3. \A j \in DOMAIN rows : rows[j].sequence = rows[i].sequence
    BY <1>1, <1>2, <2>1, <2>2 DEF Greatest, First
  <2>4. OneLast(k)
    BY <1>9 DEF Ordered
  <2>5. \A j \in DOMAIN rows : j = i
    BY <1>1, <2>3, <2>4 DEF OneLast, Greatest
  <2>6. PICK j \in DOMAIN rows : rows[j].failover
    BY <1>9 DEF HasFailover
  <2>7. j = i
    BY <2>5
  <2> QED BY <1>1, <2>1, <2>6, <2>7 DEF First
<1> QED BY <1>8, <1>9

LEMMA ViewsAgree ==
  ASSUME NEW k \in Keys, GoodRows(deliveries[k]), Ordered(k),
         "passed" \in Verdicts(attempts[k], deliveries[k])
  PROVE  Outcomes(k) \subseteq {"delivered", "recovered"}
<1>1. CASE deliveries[k] # <<>>
  <2> SUFFICES ASSUME NEW d \in LastRows(k)
               PROVE  ReplayOutcome(k, d) \in {"delivered", "recovered"}
    BY <1>1 DEF Outcomes
  <2>1. d.state = "succeeded"
    BY LastSucceeded
  <2> QED BY <1>1, <2>1 DEF ReplayOutcome
<1>2. CASE deliveries[k] = <<>>
  <2>1. PICK g \in Finals(deliveries[k]) : StatusOf(attempts[k], deliveries[k], g) = "passed"
    BY DEF Verdicts
  <2>2. DOMAIN g = {}
    <3>1. DOMAIN g = Targets(deliveries[k])
      BY <2>1 DEF Finals
    <3>2. \A i \in DOMAIN deliveries[k] : FALSE
      BY <1>2
    <3> QED BY <3>1, <3>2 DEF Targets
  <2>3. LastAttempt(attempts[k]).status = "ok"
    BY <2>1, <2>2 DEF StatusOf, Recovered
  <2> QED BY <1>2, <2>3 DEF Outcomes, ReplayOutcome
<1> QED BY <1>1, <1>2

(* The replay of an event at rest does not contradict its report, for any  *)
(* keys, requests, policies and bounds.                                    *)
THEOREM ReplayAgreesHolds == Spec => []ReplayAgrees
<1>1. FreshInv /\ RowsInv => ReplayAgrees
  <2> SUFFICES ASSUME FreshInv, RowsInv, NEW k \in Keys, Quiet(k), attempts[k] # <<>>, ~doubtful[k],
                      Ordered(k), reports[k] = "passed"
               PROVE  Outcomes(k) \subseteq {"delivered", "recovered"}
    BY DEF ReplayAgrees
  <2>1. ReportFresh
    BY RestIsFresh
  <2>2. "passed" \in Verdicts(attempts[k], deliveries[k])
    BY <2>1 DEF ReportFresh
  <2> QED BY <2>2, ViewsAgree DEF RowsInv
<1>2. Init => IngestInv /\ Sources /\ FreshInv /\ RowsInv
  BY InitKeeps, FreshInit, RowsInit, BoundsAssumption
<1>3. IngestInv /\ Sources /\ FreshInv /\ RowsInv /\ [Next]_vars
        => IngestInv' /\ Sources' /\ FreshInv' /\ RowsInv'
  BY NextKeeps, FreshInvKept, RowsInvKept, BoundsAssumption
<1> QED BY <1>1, <1>2, <1>3, PTL DEF Spec
=============================================================================
