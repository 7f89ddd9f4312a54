-------------------------- MODULE RelayFetchProofs --------------------------
(***************************************************************************)
(* Proofs about RelayFetch for any number of turns and relays, any set of  *)
(* refused URLs and any answers.                                           *)
(***************************************************************************)
EXTENDS RelayFetch, FiniteSetTheorems, TLAPS

Asked(t, i) == t.legs[t.order[i]] # "none"

\* The candidate order names each relay once, and only its relays are asked.
OrderInv(t) ==
    /\ \A i, j \in 1..Len(t.order) : i # j => t.order[i] # t.order[j]
    /\ \A r \in Relays : t.legs[r] # "none" => \E i \in 1..Len(t.order) : r = t.order[i]

\* Before pos every candidate has been asked or refused; what is open is the
\* attempt at pos and, in a race, the one after it; beyond nothing is asked.
LoopInv(t) ==
    /\ t.pos >= 1
    /\ \A i \in 1..Len(t.order) : i < t.pos => Asked(t, i) \/ t.order[i] \in Malformed
    /\ t.phase = "idle" => t.pos = 1
    /\ t.phase \in {"idle", "bypass"} => t.order = <<>>
    /\ t.phase = "direct" => t.pos > Len(t.order)
    /\ t.phase \in {"solo", "grace", "race"} => t.pos <= Len(t.order)
    /\ t.phase \in {"grace", "race"} => t.pos < Len(t.order)
    /\ t.phase \notin {"race", "done"} => t.firstError = "none"
    /\ t.phase \in {"idle", "bypass", "pick", "direct"} => Open(t) = {}
    /\ t.phase \in {"solo", "grace"} => Open(t) = {Current(t)}
    /\ t.phase = "pick" =>
          \A i \in 1..Len(t.order) : i >= t.pos => ~Asked(t, i)
    /\ t.phase \in {"solo", "grace"} =>
          \A i \in 1..Len(t.order) : i > t.pos => ~Asked(t, i)
    /\ t.phase = "race" =>
          \A i \in 1..Len(t.order) : i > t.pos + 1 => ~Asked(t, i)

\* Both legs of a race are out, or one has failed and nobody is blamed yet.
RaceInv(t) ==
    t.phase = "race" =>
        /\ t.blame[Current(t)] = 0 /\ t.blame[Following(t)] = 0
        /\ IF t.firstError = "none"
           THEN Open(t) = {Current(t), Following(t)}
           ELSE \/ /\ Open(t) = {Current(t)}
                   /\ t.legs[Following(t)] \in {"failed", "withdrawn"}
                \/ /\ Open(t) = {Following(t)}
                   /\ t.legs[Current(t)] \in {"failed", "withdrawn"}

\* The response kept is what its leg brought, and 402 is remembered.
LastInv(t) ==
    \/ t.last = NoResponse
    \/ /\ t.last.from \in Relays
       /\ t.last.status \in Verdicts
       /\ t.legs[t.last.from] = t.last.status
       /\ t.lastRelay = t.last.from
       /\ t.last.status = "402" => t.disabled

\* Until the turn is over just the body of the response kept is open.
BodyInv(t) ==
    IF t.phase # "done"
    THEN /\ t.result = NoResponse
         /\ t.bodies = IF t.aborted \/ t.last = NoResponse THEN {} ELSE {t.last.from}
    ELSE /\ t.aborted \/ t.bodies =
               IF t.result.status \in {"thrown", "relay_disabled"} THEN {} ELSE {t.result.from}
         /\ t.result.status # "thrown" => t.served = t.result.from
         /\ t.result.status # "402"

BlameInv(t) ==
    \A r \in Relays :
        /\ t.blame[r] <= 1
        /\ t.blame[r] = 1 => t.legs[r] \in Faults \cup {"failed", "withdrawn"}
        /\ t.legs[r] \in Faults => t.blame[r] = 1

TurnInv(t) ==
    /\ t \in TurnStates
    /\ OrderInv(t) /\ LoopInv(t) /\ RaceInv(t)
    /\ LastInv(t) /\ BodyInv(t) /\ BlameInv(t)

\* The inductive invariant.
IInv ==
    /\ TypeOK
    /\ \A q \in Turns : TurnInv(turn[q])

-----------------------------------------------------------------------------
(* Types                                                                   *)

\* Every answer takes one of the branches.
LEMMA HeardVerdicts == Heard \subseteq Verdicts
BY RelayFetchAssumption
   DEF Heard, Replies, Verdict, Verdicts, Faults, IsRelayFault, IsRelayEdge404,
       IsRelayDeploymentDisabled, IsRelayAuthRejection, IsRetriableStatus, IsShapeVerdict429

\* Each helper that changes the record of a turn keeps its type: the fetch,
LEMMA SentType ==
    ASSUME NEW t \in TurnStates, NEW r \in Relays
    PROVE  Sent(t, r) \in TurnStates
BY DEF TurnStates, Sent, LegStates

\* the headers of an answer,
LEMMA ReceivedType ==
    ASSUME NEW t \in TurnStates, NEW r \in Relays, NEW v \in Verdicts
    PROVE  Received(t, r, v) \in TurnStates
BY DEF TurnStates, Received, LegStates

\* the error of a leg,
LEMMA FailedType ==
    ASSUME NEW t \in TurnStates, NEW r \in Relays
    PROVE  Failed(t, r) \in TurnStates
BY ZenonT(40) DEF TurnStates, Failed, LegStates

\* the cancelled body,
LEMMA LastCancelledType ==
    ASSUME NEW t \in TurnStates
    PROVE  LastCancelled(t) \in TurnStates
BY DEF TurnStates, LastCancelled

\* the response kept,
LEMMA HeldType ==
    ASSUME NEW t \in TurnStates, NEW r \in Relays, NEW v \in Verdicts
    PROVE  Held(t, r, v) \in TurnStates
BY DEF TurnStates, Held, LastCancelled, Response, Responses

\* the roll,
LEMMA RolledType ==
    ASSUME NEW t \in TurnStates
    PROVE  Rolled(t) \in TurnStates
<1>1. t.pos + (IF t.phase = "race" THEN 2 ELSE 1) \in Nat
  BY DEF TurnStates
<1> QED
  BY ZenonT(60), <1>1 DEF TurnStates, Rolled, Phases

\* the report,
LEMMA ReportedType ==
    ASSUME NEW t \in TurnStates
    PROVE  Reported(t) \in TurnStates
<1>1. t.attemptNo + 1 \in Nat
  BY DEF TurnStates
<1> QED
  BY <1>1 DEF TurnStates, Reported

\* the mark,
LEMMA BlamedType ==
    ASSUME NEW t \in TurnStates, NEW r \in Relays
    PROVE  Blamed(t, r) \in TurnStates
<1>1. [t.blame EXCEPT ![r] = @ + 1] \in [Relays -> Nat]
  BY DEF TurnStates
<1> QED
  BY <1>1 DEF TurnStates, Blamed

\* the response returned,
LEMMA EndedType ==
    ASSUME NEW t \in TurnStates, NEW issuer \in Relays \cup {Direct, Nobody}, NEW response \in Responses
    PROVE  Ended(t, issuer, response) \in TurnStates
BY DEF TurnStates, Ended, Phases

\* and the error thrown.
LEMMA ThrownType ==
    ASSUME NEW t \in TurnStates
    PROVE  Thrown(t) \in TurnStates
BY ZenonT(40) DEF TurnStates, Thrown, Phases, Response, Responses

\* A response of anybody with any outcome is one.
LEMMA ResponseType ==
    ASSUME NEW r \in Relays \cup {Direct, Nobody},
           NEW v \in Verdicts \cup {"none", "relay_disabled", "thrown"}
    PROVE  Response(r, v) \in Responses
BY DEF Response, Responses

\* A turn that has not begun is a turn.
LEMMA IdleType == Idle \in TurnStates
BY DEF Idle, TurnStates, Phases, LegStates, NoResponse, Response, Responses, Verdicts

\* A step of one turn leaves the others alone.
LEMMA BecomeType ==
    ASSUME TypeOK, NEW q \in Turns, NEW t \in TurnStates, Become(q, t)
    PROVE  /\ turn' \in [Turns -> TurnStates]
           /\ turn'[q] = t
           /\ \A p \in Turns \ {q} : turn'[p] = turn[p]
BY DEF TypeOK, Become

-----------------------------------------------------------------------------
(* What an answer does to the local state t of a turn, u its next one      *)

\* The legs of t once relay r has answered v.
Landed(t, u, r, v) ==
    \A x \in Relays : u.legs[x] = IF x = r THEN v
                                  ELSE IF t.legs[x] = "open" THEN "lost" ELSE t.legs[x]

Marked(t, u, S) ==
    \A x \in Relays : u.blame[x] = IF x \in S THEN t.blame[x] + 1 ELSE t.blame[x]

\* The response kept, and what goes with it, is the old one or that of r.
KeptOld(t, u) ==
    u.last = t.last /\ u.lastRelay = t.lastRelay /\ u.disabled = t.disabled
KeptNew(t, u, r, v) ==
    /\ u.last = Response(r, v) /\ u.lastRelay = r
    /\ u.disabled = (t.disabled \/ v = "402")
    /\ u.bodies = (t.bodies \cup {r}) \ {t.last.from}

\* The turn goes on with the next candidate, or it is over.
Advanced(t, u) ==
    /\ u.phase = "pick" /\ u.order = t.order
    /\ u.pos = t.pos + (IF t.phase = "race" THEN 2 ELSE 1)
    /\ u.firstError = "none"
    /\ u.aborted = t.aborted /\ u.result = t.result
Over(t, u, issuer, response) ==
    /\ u.phase = "done" /\ u.order = t.order /\ u.pos = t.pos
    /\ u.aborted = t.aborted /\ u.served = issuer /\ u.result = response

\* What a 504 leaves of the turn.
LEMMA GatewayShape ==
    ASSUME NEW t \in TurnStates, NEW r \in Relays, NEW u,
           u = Rolled(Reported(Blamed([Received(t, r, "504") EXCEPT !.bodies = @ \ {r}], r)))
    PROVE  /\ u \in TurnStates
           /\ Advanced(t, u) /\ Landed(t, u, r, "504") /\ KeptOld(t, u) /\ Marked(t, u, {r})
           /\ u.bodies = t.bodies \ {r}
<1>1. u \in TurnStates
  <2>1. Received(t, r, "504") \in TurnStates
    BY ReceivedType DEF Verdicts, Faults
  <2>2. \A s \in TurnStates : [s EXCEPT !.bodies = @ \ {r}] \in TurnStates
    BY ZenonT(40) DEF TurnStates
  <2> QED
    BY <2>1, <2>2, BlamedType, ReportedType, RolledType
<1>2. /\ Advanced(t, u) /\ Landed(t, u, r, "504") /\ KeptOld(t, u) /\ Marked(t, u, {r})
      /\ u.bodies = t.bodies \ {r}
  BY DEF TurnStates, Advanced, Landed, KeptOld, Marked, Rolled, Reported, Blamed, Received, Open
<1> QED
  BY <1>1, <1>2

\* What a fault of the relay leaves of it.
LEMMA FaultShape ==
    ASSUME NEW t \in TurnStates, NEW r \in Relays, NEW v \in Verdicts, NEW u,
           u = Rolled(Reported(Blamed(
                  [Held(Received(t, r, v), r, v) EXCEPT
                      !.disabled = @ \/ v = "402", !.rateLimitOnly = @ /\ v = "429"], r)))
    PROVE  /\ u \in TurnStates
           /\ Advanced(t, u) /\ Landed(t, u, r, v) /\ KeptNew(t, u, r, v) /\ Marked(t, u, {r})
<1>1. u \in TurnStates
  <2>1. \A s \in TurnStates, a, b \in BOOLEAN :
           [s EXCEPT !.disabled = a, !.rateLimitOnly = b] \in TurnStates
    BY ZenonT(40) DEF TurnStates
  <2>2. \A s \in TurnStates :
           /\ (s.disabled \/ v = "402") \in BOOLEAN
           /\ (s.rateLimitOnly /\ v = "429") \in BOOLEAN
    OBVIOUS
  <2>3. \A s \in TurnStates : [s EXCEPT !.disabled = @ \/ v = "402",
                                        !.rateLimitOnly = @ /\ v = "429"] \in TurnStates
    BY <2>1, <2>2, Zenon
  <2> QED
    BY <2>3, ReceivedType, HeldType, BlamedType, ReportedType, RolledType
<1>2. Advanced(t, u) /\ Landed(t, u, r, v) /\ KeptNew(t, u, r, v) /\ Marked(t, u, {r})
  BY DEF TurnStates, Advanced, Landed, KeptNew, Marked, Rolled, Reported, Blamed,
     Held, LastCancelled, Received, Open
<1> QED
  BY <1>1, <1>2

\* What a refusal by the relay leaves of it.
LEMMA RefusalShape ==
    ASSUME NEW t \in TurnStates, NEW r \in Relays, NEW v \in Verdicts \ {"402"}, NEW u,
           u = Rolled(Reported(Blamed(
                  [Held(Received(t, r, v), r, v) EXCEPT !.rateLimitOnly = FALSE], r)))
    PROVE  /\ u \in TurnStates
           /\ Advanced(t, u) /\ Landed(t, u, r, v) /\ KeptNew(t, u, r, v) /\ Marked(t, u, {r})
<1>1. u \in TurnStates
  <2>1. \A s \in TurnStates : [s EXCEPT !.rateLimitOnly = FALSE] \in TurnStates
    BY ZenonT(40) DEF TurnStates
  <2> QED
    BY <2>1, ReceivedType, HeldType, BlamedType, ReportedType, RolledType
<1>2. Advanced(t, u) /\ Landed(t, u, r, v) /\ KeptNew(t, u, r, v) /\ Marked(t, u, {r})
  BY DEF TurnStates, Advanced, Landed, KeptNew, Marked, Rolled, Reported, Blamed,
     Held, LastCancelled, Received, Open
<1> QED
  BY <1>1, <1>2

\* What a 413 or the first bare 500 leaves of it.
LEMMA UnmarkedShape ==
    ASSUME NEW t \in TurnStates, NEW r \in Relays, NEW v \in Verdicts \ {"402"}, NEW u,
           u = Rolled(Reported([Held(Received(t, r, v), r, v) EXCEPT
                  !.sawBare500 = @ \/ v = "500", !.rateLimitOnly = FALSE]))
    PROVE  /\ u \in TurnStates
           /\ Advanced(t, u) /\ Landed(t, u, r, v) /\ KeptNew(t, u, r, v) /\ Marked(t, u, {})
<1>1. u \in TurnStates
  <2>1. \A s \in TurnStates, a \in BOOLEAN :
           [s EXCEPT !.sawBare500 = a, !.rateLimitOnly = FALSE] \in TurnStates
    BY ZenonT(40) DEF TurnStates
  <2>2. \A s \in TurnStates : (s.sawBare500 \/ v = "500") \in BOOLEAN
    OBVIOUS
  <2>3. \A s \in TurnStates : [s EXCEPT !.sawBare500 = @ \/ v = "500",
                                        !.rateLimitOnly = FALSE] \in TurnStates
    BY <2>1, <2>2, Zenon
  <2> QED
    BY <2>3, ReceivedType, HeldType, ReportedType, RolledType
<1>2. Advanced(t, u) /\ Landed(t, u, r, v) /\ KeptNew(t, u, r, v) /\ Marked(t, u, {})
  BY DEF TurnStates, Advanced, Landed, KeptNew, Marked, Rolled, Reported,
     Held, LastCancelled, Received, Open
<1> QED
  BY <1>1, <1>2

\* What an answer surfaced without a mark leaves of it.
LEMMA SurfaceShape ==
    ASSUME NEW t \in TurnStates, NEW r \in Relays, NEW v \in Verdicts \ {"402"}, NEW u,
           u = Ended(Held(Received(t, r, v), r, v), r, Response(r, v))
    PROVE  /\ u \in TurnStates
           /\ Over(t, u, r, Response(r, v)) /\ Landed(t, u, r, v)
           /\ KeptNew(t, u, r, v) /\ Marked(t, u, {})
<1>1. u \in TurnStates
  BY ReceivedType, HeldType, ResponseType, EndedType
<1>2. /\ Over(t, u, r, Response(r, v)) /\ Landed(t, u, r, v)
      /\ KeptNew(t, u, r, v) /\ Marked(t, u, {})
  BY DEF TurnStates, Over, Landed, KeptNew, Marked, Ended, Held, LastCancelled, Received, Open
<1> QED
  BY <1>1, <1>2

\* What a success leaves of it.
LEMMA SuccessShape ==
    ASSUME NEW t \in TurnStates, NEW r \in Relays, NEW u,
           u = Ended(LastCancelled(Received(t, r, "ok")), r, Response(r, "ok"))
    PROVE  /\ u \in TurnStates
           /\ Over(t, u, r, Response(r, "ok")) /\ Landed(t, u, r, "ok")
           /\ KeptOld(t, u) /\ Marked(t, u, {})
           /\ u.bodies = (t.bodies \cup {r}) \ {t.last.from}
<1>1. u \in TurnStates
  <2>1. "ok" \in Verdicts
    BY DEF Verdicts
  <2> QED
    BY <2>1, ReceivedType, LastCancelledType, ResponseType, EndedType
<1>2. /\ Over(t, u, r, Response(r, "ok")) /\ Landed(t, u, r, "ok")
      /\ KeptOld(t, u) /\ Marked(t, u, {})
      /\ u.bodies = (t.bodies \cup {r}) \ {t.last.from}
  BY DEF TurnStates, Over, Landed, KeptOld, Marked, Ended, LastCancelled, Received, Open
<1> QED
  BY <1>1, <1>2

-----------------------------------------------------------------------------
(* What a step means for the promise of Failover                           *)

SameAsked(t, u) == \A x \in Relays : u.legs[x] = "none" <=> t.legs[x] = "none"

\* No relay is asked.
Quiet(t, u) ==
    /\ u.order = t.order
    /\ SameAsked(t, u)
    /\ \A x \in Relays : u.legs[x] = "open" => t.legs[x] = "open"

Under(t, u) == t.phase # "done" /\ u.phase # "done" /\ u.result = t.result
Ends(t, u) == t.phase # "done" /\ u.phase = "done" /\ u.aborted = t.aborted

Spent(t) == \A i \in 1..Len(t.order) : Asked(t, i) \/ t.order[i] \in Malformed

Starts(t, u) ==
    t.phase = "idle" /\ Under(t, u) /\ u.legs = t.legs /\ u.aborted = t.aborted
Waits(t, u) == Quiet(t, u) /\ Under(t, u) /\ u.aborted = t.aborted
Cancels(t, u) == Quiet(t, u) /\ Under(t, u) /\ u.aborted
Asks(t, u, r) ==
    /\ Under(t, u) /\ u.order = t.order /\ u.aborted = t.aborted
    /\ r \notin Malformed /\ \E i \in 1..Len(t.order) : r = t.order[i]
    /\ t.legs[r] = "none" /\ u.legs = [t.legs EXCEPT ![r] = "open"]
Returns(t, u) ==
    Quiet(t, u) /\ Ends(t, u) /\ u.result.from \in Relays /\ t.legs[u.result.from] # "none"
FallsBack(t, u) ==
    Quiet(t, u) /\ Ends(t, u) /\ u.result.from = Direct /\ Spent(t)
Throws(t, u) ==
    Quiet(t, u) /\ Ends(t, u) /\ u.result.from = Nobody /\ (t.aborted \/ Spent(t))

Moves(t, u) ==
    \/ Starts(t, u) \/ Waits(t, u) \/ Cancels(t, u)
    \/ \E r \in Relays : Asks(t, u, r)
    \/ Returns(t, u) \/ FallsBack(t, u) \/ Throws(t, u)


-----------------------------------------------------------------------------
(* An answer keeps the invariant of a turn                                 *)

\* The turn waits for relay r.
Awaits(t, r) == t.phase \in {"solo", "grace", "race"} /\ r \in Open(t)

\* A relay that is awaited is not to blame yet, and is not that of the response
\* kept; its answer leaves no leg open.
LEMMA LandedFacts ==
    ASSUME NEW t, TurnInv(t), NEW u \in TurnStates, NEW r \in Relays, Awaits(t, r),
           NEW v \in Verdicts, Landed(t, u, r, v)
    PROVE  /\ Open(u) = {} /\ SameAsked(t, u)
           /\ t.last.from # r /\ t.blame[r] = 0
<1> USE DEF TurnInv, Awaits, Open
<1>1. "open" \notin Verdicts /\ "none" \notin Verdicts
  BY DEF Verdicts, Faults
<1>2. Open(u) = {} /\ SameAsked(t, u)
  BY <1>1 DEF Landed, SameAsked
<1>3. t.last.from # r
  <2>1. Nobody \notin Relays
    BY RelayFetchAssumption
  <2> QED
    BY <1>1, <2>1 DEF LastInv, NoResponse, Response
<1>4. t.blame[r] = 0
  <2>1. t.blame[r] \in Nat /\ t.blame[r] <= 1
    BY DEF TurnStates, BlameInv
  <2>2. "open" \notin Faults \cup {"failed", "withdrawn"}
    BY DEF Faults
  <2>3. t.blame[r] # 1
    BY <2>2 DEF BlameInv
  <2> QED
    BY <2>1, <2>3
<1> QED
  BY <1>2, <1>3, <1>4

\* The roll to the next candidate, once none is out.
LEMMA AdvancedLoop ==
    ASSUME NEW t, TurnInv(t), NEW u \in TurnStates, Advanced(t, u),
           \/ \E r \in Relays : Awaits(t, r)
           \/ t.phase = "pick" /\ t.pos <= Len(t.order) /\ Current(t) \in Malformed,
           Open(u) = {}, SameAsked(t, u)
    PROVE  OrderInv(u) /\ LoopInv(u) /\ RaceInv(u)
<1> DEFINE n == Len(t.order)
<1>1. /\ u.order = t.order /\ n \in Nat /\ t.pos \in Nat /\ u.pos \in Nat
      /\ \A i \in 1..n : t.order[i] \in Relays
      /\ t \in TurnStates
  <2>1. t.order \in Seq(Relays) /\ t.pos \in Nat /\ u.pos \in Nat /\ t \in TurnStates
    BY DEF TurnInv, TurnStates
  <2> QED
    BY <2>1 DEF Advanced
<1>2. OrderInv(u)
  BY <1>1 DEF TurnInv, OrderInv, SameAsked
<1>3. \A i \in 1..n : Asked(u, i) <=> Asked(t, i)
  BY <1>1 DEF Asked, SameAsked
<1>4. ASSUME NEW i \in 1..n, i < u.pos
      PROVE  Asked(t, i) \/ t.order[i] \in Malformed
  <2>1. CASE i < t.pos
    BY <2>1 DEF TurnInv, LoopInv
  <2>2. CASE i = t.pos
    BY <2>2, <1>1 DEF TurnInv, LoopInv, RaceInv, Awaits, Open, Current, Asked
  <2>3. CASE i > t.pos
    <3>1. t.phase = "race" /\ i = t.pos + 1
      BY <1>1, <1>4, <2>3 DEF Advanced
    <3>2. t.legs[Following(t)] # "none"
      BY <3>1 DEF TurnInv, RaceInv, Open
    <3> QED
      BY <3>1, <3>2 DEF Following, Asked
  <2> QED
    BY <1>1, <2>1, <2>2, <2>3
<1>5. ASSUME NEW i \in 1..n, i >= u.pos
      PROVE  ~Asked(t, i)
  BY <1>1, <1>5 DEF TurnInv, LoopInv, Advanced, Awaits
<1>6. LoopInv(u)
  <2>1. u.pos >= 1 /\ u.phase = "pick" /\ u.firstError = "none"
    BY <1>1 DEF TurnInv, LoopInv, Advanced
  <2> QED
    BY <1>1, <1>3, <1>4, <1>5, <2>1 DEF LoopInv
<1>7. RaceInv(u)
  BY DEF RaceInv, Advanced
<1> QED
  BY <1>2, <1>6, <1>7

\* The end of the turn.
LEMMA OverLoop ==
    ASSUME NEW t, TurnInv(t), NEW u \in TurnStates,
           u.phase = "done", u.order = t.order, u.pos = t.pos, SameAsked(t, u)
    PROVE  OrderInv(u) /\ LoopInv(u) /\ RaceInv(u)
<1>1. \A i \in 1..Len(t.order) : t.order[i] \in Relays
  BY DEF TurnInv, TurnStates
<1>2. \A i \in 1..Len(t.order) : Asked(u, i) <=> Asked(t, i)
  BY <1>1 DEF Asked, SameAsked
<1> QED
  BY <1>1, <1>2 DEF TurnInv, OrderInv, LoopInv, RaceInv, SameAsked

\* The blame for an answer.
LEMMA LandedBlame ==
    ASSUME NEW t, TurnInv(t), NEW u \in TurnStates, NEW r \in Relays, Awaits(t, r),
           NEW v \in Verdicts, Landed(t, u, r, v),
           Marked(t, u, IF v \in Faults THEN {r} ELSE {})
    PROVE  BlameInv(u)
<1>1. t.blame[r] = 0
  BY LandedFacts
<1>2. SUFFICES ASSUME NEW x \in Relays
               PROVE  /\ u.blame[x] <= 1
                      /\ u.blame[x] = 1 => u.legs[x] \in Faults \cup {"failed", "withdrawn"}
                      /\ u.legs[x] \in Faults => u.blame[x] = 1
  BY DEF BlameInv
<1>3. /\ t.blame[x] \in Nat /\ t.blame[x] <= 1
      /\ t.blame[x] = 1 => t.legs[x] \in Faults \cup {"failed", "withdrawn"}
      /\ t.legs[x] \in Faults => t.blame[x] = 1
  BY DEF TurnInv, TurnStates, BlameInv
<1>4. CASE x = r
  BY <1>1, <1>4 DEF Landed, Marked
<1>5. CASE x # r
  <2>1. u.blame[x] = t.blame[x]
    BY <1>5 DEF Marked
  <2>2. u.legs[x] = IF t.legs[x] = "open" THEN "lost" ELSE t.legs[x]
    BY <1>5 DEF Landed
  <2>3. {"open", "lost"} \cap (Faults \cup {"failed", "withdrawn"}) = {}
    BY DEF Faults
  <2> QED
    BY <1>3, <2>1, <2>2, <2>3
<1> QED
  BY <1>4, <1>5

\* The new response is kept.
LEMMA KeptNewLast ==
    ASSUME NEW t, TurnInv(t), NEW u \in TurnStates, NEW r \in Relays, NEW v \in Verdicts,
           Landed(t, u, r, v), KeptNew(t, u, r, v)
    PROVE  LastInv(u)
<1>1. u.last.from = r /\ u.last.status = v /\ u.lastRelay = r /\ u.legs[r] = v
  BY DEF KeptNew, Response, Landed
<1>2. v = "402" => u.disabled
  BY Zenon DEF KeptNew
<1> QED
  BY <1>1, <1>2 DEF LastInv

\* The old one still is.
LEMMA KeptOldLast ==
    ASSUME NEW t, TurnInv(t), NEW u \in TurnStates, NEW r \in Relays, Awaits(t, r),
           NEW v \in Verdicts, Landed(t, u, r, v), KeptOld(t, u)
    PROVE  LastInv(u)
<1>1. t.last.from # r
  BY LandedFacts
<1>2. "open" \notin Verdicts
  BY DEF Verdicts, Faults
<1> QED
  BY <1>1, <1>2 DEF TurnInv, LastInv, KeptOld, Landed

\* The turn rolls on with the answer kept.
LEMMA KeepInv ==
    ASSUME NEW t, TurnInv(t), NEW u \in TurnStates, NEW r \in Relays, Awaits(t, r), ~t.aborted,
           NEW v \in Verdicts, Advanced(t, u), Landed(t, u, r, v), KeptNew(t, u, r, v),
           Marked(t, u, IF v \in Faults THEN {r} ELSE {})
    PROVE  TurnInv(u)
<1>1. Open(u) = {} /\ SameAsked(t, u) /\ t.last.from # r
  BY LandedFacts
<1>2. OrderInv(u) /\ LoopInv(u) /\ RaceInv(u)
  BY <1>1, AdvancedLoop
<1>3. LastInv(u)
  BY KeptNewLast
<1>4. BlameInv(u)
  BY LandedBlame
<1>5. BodyInv(u)
  <2>1. t.phase # "done" /\ u.phase # "done" /\ ~u.aborted /\ u.result = t.result
    BY DEF Awaits, Advanced
  <2>2. u.last # NoResponse /\ u.last.from = r
    BY RelayFetchAssumption DEF KeptNew, NoResponse, Response
  <2>3. u.bodies = {r}
    BY <1>1, <2>1 DEF TurnInv, BodyInv, KeptNew
  <2> QED
    BY <2>1, <2>2, <2>3 DEF TurnInv, BodyInv
<1> QED
  BY <1>2, <1>3, <1>4, <1>5 DEF TurnInv

\* The turn rolls on with a 504 dropped.
LEMMA DropInv ==
    ASSUME NEW t, TurnInv(t), NEW u \in TurnStates, NEW r \in Relays, Awaits(t, r), ~t.aborted,
           Advanced(t, u), Landed(t, u, r, "504"), KeptOld(t, u), Marked(t, u, {r}),
           u.bodies = t.bodies \ {r}
    PROVE  TurnInv(u)
<1>1. "504" \in Verdicts /\ "504" \in Faults
  BY DEF Verdicts, Faults
<1>2. Open(u) = {} /\ SameAsked(t, u) /\ t.last.from # r
  BY <1>1, LandedFacts
<1>3. OrderInv(u) /\ LoopInv(u) /\ RaceInv(u)
  BY <1>2, AdvancedLoop
<1>4. LastInv(u)
  BY <1>1, KeptOldLast
<1>5. BlameInv(u)
  <2>1. Marked(t, u, IF "504" \in Faults THEN {r} ELSE {})
    BY <1>1
  <2> QED
    BY <1>1, <2>1, LandedBlame
<1>6. BodyInv(u)
  <2>1. t.phase # "done" /\ u.phase # "done" /\ u.aborted = t.aborted /\ u.result = t.result
        /\ u.last = t.last
    BY DEF Awaits, Advanced, KeptOld
  <2> QED
    BY <1>2, <2>1 DEF TurnInv, BodyInv
<1> QED
  BY <1>3, <1>4, <1>5, <1>6 DEF TurnInv

\* The turn ends with an answer that is not the fault of the relay.
LEMMA SurfaceInv ==
    ASSUME NEW t, TurnInv(t), NEW u \in TurnStates, NEW r \in Relays, Awaits(t, r), ~t.aborted,
           NEW v \in Verdicts \ Faults,
           Over(t, u, r, Response(r, v)), Landed(t, u, r, v), KeptNew(t, u, r, v), Marked(t, u, {})
    PROVE  TurnInv(u)
<1>1. SameAsked(t, u) /\ t.last.from # r
  BY LandedFacts
<1>2. OrderInv(u) /\ LoopInv(u) /\ RaceInv(u)
  BY <1>1, OverLoop DEF Over
<1>3. LastInv(u)
  BY KeptNewLast
<1>4. BlameInv(u)
  <2>1. Marked(t, u, IF v \in Faults THEN {r} ELSE {})
    OBVIOUS
  <2> QED
    BY <2>1, LandedBlame
<1>5. BodyInv(u)
  <2>1. t.bodies \subseteq {t.last.from}
    BY DEF TurnInv, BodyInv, Awaits
  <2>2. u.bodies = {r}
    BY <1>1, <2>1 DEF KeptNew
  <2>3. u.result.from = r /\ u.result.status = v /\ v \notin {"thrown", "relay_disabled", "402"}
    BY DEF Over, Response, Verdicts, Faults
  <2> QED
    BY <2>2, <2>3 DEF BodyInv, Over
<1> QED
  BY <1>2, <1>3, <1>4, <1>5 DEF TurnInv

\* The turn ends with a success.
LEMMA SuccessInv ==
    ASSUME NEW t, TurnInv(t), NEW u \in TurnStates, NEW r \in Relays, Awaits(t, r), ~t.aborted,
           Over(t, u, r, Response(r, "ok")), Landed(t, u, r, "ok"), KeptOld(t, u),
           Marked(t, u, {}), u.bodies = (t.bodies \cup {r}) \ {t.last.from}
    PROVE  TurnInv(u)
<1>1. "ok" \in Verdicts /\ "ok" \notin Faults
  BY DEF Verdicts, Faults
<1>2. SameAsked(t, u) /\ t.last.from # r
  BY <1>1, LandedFacts
<1>3. OrderInv(u) /\ LoopInv(u) /\ RaceInv(u)
  BY <1>2, OverLoop DEF Over
<1>4. LastInv(u)
  BY <1>1, KeptOldLast
<1>5. BlameInv(u)
  <2>1. Marked(t, u, IF "ok" \in Faults THEN {r} ELSE {})
    BY <1>1
  <2> QED
    BY <1>1, <2>1, LandedBlame
<1>6. BodyInv(u)
  <2>1. t.bodies \subseteq {t.last.from}
    BY DEF TurnInv, BodyInv, Awaits
  <2>2. u.bodies = {r}
    BY <1>2, <2>1
  <2>3. u.result.from = r /\ u.result.status = "ok"
    BY DEF Over, Response
  <2> QED
    BY <2>2, <2>3 DEF BodyInv, Over
<1> QED
  BY <1>3, <1>4, <1>5, <1>6 DEF TurnInv

-----------------------------------------------------------------------------
(* The other steps of a turn keep its invariant                            *)

\* A candidate order is a sequence of the pool's relays without repetition.
LEMMA OrderType ==
    ASSUME NEW pool \in SUBSET Relays, NEW order \in SetToSeqs(pool)
    PROVE  /\ order \in Seq(Relays)
           /\ \A i, j \in 1..Len(order) : i # j => order[i] # order[j]
           /\ pool = {} => order = <<>>
<1>1. Cardinality(pool) \in Nat
  BY RelayFetchAssumption, FS_Subset, FS_CardinalityType
<1>2. order \in [1..Cardinality(pool) -> pool]
      /\ \A i, j \in 1..Cardinality(pool) : i # j => order[i] # order[j]
  BY DEF SetToSeqs
<1>3. order \in Seq(Relays) /\ Len(order) = Cardinality(pool)
  BY <1>1, <1>2
<1>4. pool = {} => Cardinality(pool) = 0
  BY FS_EmptySet
<1> QED
  BY <1>1, <1>2, <1>3, <1>4

\* Nothing is asked before the loop.
LEMMA StartedLoop ==
    ASSUME NEW u \in TurnStates, u.phase \in {"bypass", "pick"},
           u.phase = "bypass" => u.order = <<>>,
           \A i, j \in 1..Len(u.order) : i # j => u.order[i] # u.order[j],
           u.pos = 1, u.firstError = "none", \A r \in Relays : u.legs[r] = "none"
    PROVE  OrderInv(u) /\ LoopInv(u)
<1>1. u.order \in Seq(Relays) /\ Len(u.order) \in Nat
  BY DEF TurnStates
<1>2. \A i \in 1..Len(u.order) : ~Asked(u, i) /\ ~(i < u.pos)
  BY <1>1 DEF Asked
<1>3. Open(u) = {}
  BY DEF Open
<1> QED
  BY <1>1, <1>2, <1>3 DEF OrderInv, LoopInv

\* The turn begins with a candidate order, or without one.
LEMMA BeginInv ==
    ASSUME NEW t, TurnInv(t), t.phase = "idle",
           NEW pool \in SUBSET Relays, NEW order \in SetToSeqs(pool), NEW u \in TurnStates,
           u.phase \in {"bypass", "pick"}, u.phase = "bypass" => pool = {},
           u.order = order, u.pos = t.pos, u.legs = t.legs, u.firstError = t.firstError,
           KeptOld(t, u), u.blame = t.blame, u.bodies = t.bodies,
           u.aborted = t.aborted, u.result = t.result
    PROVE  TurnInv(u) /\ Starts(t, u)
<1>1. t \in TurnStates
  BY DEF TurnInv
<1>2. /\ order \in Seq(Relays)
      /\ \A i, j \in 1..Len(order) : i # j => order[i] # order[j]
      /\ pool = {} => order = <<>>
  BY OrderType
<1>3. \A r \in Relays : t.legs[r] = "none"
  BY <1>1 DEF TurnInv, OrderInv, LoopInv
<1>4. OrderInv(u) /\ LoopInv(u)
  <2>1. u.pos = 1 /\ u.firstError = "none" /\ \A r \in Relays : u.legs[r] = "none"
    BY <1>3 DEF TurnInv, LoopInv
  <2>2. u.phase = "bypass" => u.order = <<>>
    BY <1>2
  <2>3. \A i, j \in 1..Len(u.order) : i # j => u.order[i] # u.order[j]
    BY <1>2
  <2> QED
    BY <2>1, <2>2, <2>3, StartedLoop
<1>5. RaceInv(u) /\ LastInv(u) /\ BodyInv(u) /\ BlameInv(u)
  BY DEF TurnInv, RaceInv, LastInv, BodyInv, BlameInv, KeptOld
<1> QED
  BY <1>4, <1>5 DEF TurnInv, Starts, Under

\* A refused URL is passed over.
LEMMA RejectInv ==
    ASSUME NEW t, TurnInv(t), t.phase = "pick", t.pos <= Len(t.order), Current(t) \in Malformed,
           NEW u, u = Rolled(Reported(t))
    PROVE  TurnInv(u)
<1>1. t \in TurnStates
  BY DEF TurnInv
<1>2. u \in TurnStates
  BY <1>1, ReportedType, RolledType
<1>3. /\ Advanced(t, u)
      /\ u.legs = t.legs /\ u.last = t.last /\ u.lastRelay = t.lastRelay
      /\ u.disabled = t.disabled /\ u.blame = t.blame /\ u.bodies = t.bodies
  BY <1>1 DEF TurnStates, Advanced, Rolled, Reported
<1>4. SameAsked(t, u) /\ Open(u) = {}
  BY <1>3 DEF SameAsked, TurnInv, LoopInv, Open
<1>5. OrderInv(u) /\ LoopInv(u) /\ RaceInv(u)
  BY <1>2, <1>3, <1>4, AdvancedLoop
<1> QED
  BY <1>2, <1>3, <1>5 DEF TurnInv, LastInv, BodyInv, BlameInv, Advanced

\* A relay that has not answered has no blame and is not that of the response
\* kept.
LEMMA UnansweredFacts ==
    ASSUME NEW t, TurnInv(t), NEW r \in Relays, t.legs[r] \in {"none", "open"}
    PROVE  t.blame[r] = 0 /\ t.last.from # r
<1>1. t.blame[r] \in Nat /\ t.blame[r] <= 1 /\ t.blame[r] # 1
  BY DEF TurnInv, TurnStates, BlameInv, Faults
<1>2. t.last.from # r
  BY RelayFetchAssumption DEF TurnInv, LastInv, NoResponse, Response, Verdicts, Faults
<1> QED
  BY <1>1, <1>2

\* What asking a relay does to the record of it.
LEMMA SentInv ==
    ASSUME NEW t, TurnInv(t), NEW r \in Relays, t.legs[r] = "none", NEW u \in TurnStates,
           u.legs = [t.legs EXCEPT ![r] = "open"],
           t.phase # "done", u.phase # "done",
           u.last = t.last, u.lastRelay = t.lastRelay, u.disabled = t.disabled,
           u.blame = t.blame, u.bodies = t.bodies, u.aborted = t.aborted, u.result = t.result
    PROVE  LastInv(u) /\ BodyInv(u) /\ BlameInv(u)
<1>1. t.legs \in [Relays -> LegStates]
  BY DEF TurnInv, TurnStates
<1>2. t.blame[r] = 0 /\ t.last.from # r
  BY UnansweredFacts
<1>3. LastInv(u)
  BY <1>1, <1>2 DEF TurnInv, LastInv
<1>4. BodyInv(u)
  BY DEF TurnInv, BodyInv
<1>5. BlameInv(u)
  BY <1>1, <1>2 DEF TurnInv, BlameInv, Faults
<1> QED
  BY <1>3, <1>4, <1>5

\* The candidate at pos is asked.
LEMMA SendInv ==
    ASSUME NEW t, TurnInv(t), t.phase = "pick", t.pos <= Len(t.order), NEW u \in TurnStates,
           u.phase \in {"grace", "solo"}, u.phase = "grace" => HasNext(t),
           u.order = t.order, u.pos = t.pos,
           u.legs = [t.legs EXCEPT ![Current(t)] = "open"], u.firstError = t.firstError,
           KeptOld(t, u), u.blame = t.blame, u.bodies = t.bodies,
           u.aborted = t.aborted, u.result = t.result
    PROVE  TurnInv(u)
<1> DEFINE r == Current(t)
           n == Len(t.order)
<1>1. /\ t \in TurnStates /\ t.order \in Seq(Relays) /\ t.pos \in Nat /\ n \in Nat
      /\ t.pos \in 1..n
  BY SMTT(60) DEF TurnInv, TurnStates, LoopInv
<1>2. r \in Relays /\ \A i \in 1..n : t.order[i] \in Relays
  BY <1>1 DEF Current
<1>3. t.legs[r] = "none"
  BY <1>1 DEF TurnInv, LoopInv, Asked, Current
<1>4. t.legs \in [Relays -> LegStates]
  BY <1>1 DEF TurnStates
<1>5. \A i \in 1..n : u.legs[t.order[i]] = IF i = t.pos THEN "open" ELSE t.legs[t.order[i]]
  BY <1>1, <1>2, <1>4 DEF TurnInv, OrderInv, Current
<1>6. OrderInv(u)
  BY <1>1, <1>2, <1>4 DEF TurnInv, OrderInv, Current
<1>7. LoopInv(u)
  <2>1. Open(u) = {r} /\ Current(u) = r
    BY <1>2, <1>4 DEF TurnInv, LoopInv, Open, Current
  <2>2. u.pos >= 1 /\ u.pos <= n /\ u.firstError = "none" /\ (u.phase = "grace" => u.pos < n)
    BY <1>1 DEF TurnInv, LoopInv, HasNext
  <2>3. \A i \in 1..n : i < t.pos => Asked(u, i) \/ t.order[i] \in Malformed
    BY <1>1, <1>5 DEF TurnInv, LoopInv, Asked
  <2>4. \A i \in 1..n : i > t.pos => ~Asked(u, i)
    BY <1>1, <1>5 DEF TurnInv, LoopInv, Asked
  <2> QED
    BY <2>1, <2>2, <2>3, <2>4 DEF LoopInv
<1>8. RaceInv(u)
  BY DEF RaceInv
<1>9. LastInv(u) /\ BodyInv(u) /\ BlameInv(u)
  <2>1. t.phase # "done" /\ u.phase # "done"
    OBVIOUS
  <2> HIDE DEF r
  <2> QED
    BY <1>2, <1>3, <2>1, SentInv DEF KeptOld, r
<1> QED
  BY <1>6, <1>7, <1>8, <1>9 DEF TurnInv

\* The hedge into a refused URL leaves the relay alone.
LEMMA HedgeRefusedInv ==
    ASSUME NEW t, TurnInv(t), t.phase = "grace", NEW u, u = [t EXCEPT !.phase = "solo"]
    PROVE  TurnInv(u)
<1>1. t \in TurnStates
  BY DEF TurnInv
<1>2. u \in TurnStates
  BY <1>1 DEF TurnStates, Phases
<1>3. /\ u.phase = "solo" /\ u.order = t.order /\ u.pos = t.pos
      /\ u.legs = t.legs /\ u.firstError = t.firstError
      /\ u.last = t.last /\ u.lastRelay = t.lastRelay /\ u.disabled = t.disabled
      /\ u.blame = t.blame /\ u.bodies = t.bodies /\ u.aborted = t.aborted
      /\ u.result = t.result
  BY <1>1 DEF TurnStates
<1> QED
  BY <1>2, <1>3 DEF TurnInv, OrderInv, LoopInv, RaceInv, LastInv, BodyInv, BlameInv,
     Asked, Open, Current

\* The hedge into the next candidate.
LEMMA HedgeInv ==
    ASSUME NEW t, TurnInv(t), t.phase = "grace",
           NEW u, u = [Sent(t, Following(t)) EXCEPT !.phase = "race"]
    PROVE  /\ Following(t) \in Relays /\ t.legs[Following(t)] = "none"
           /\ u.legs = [t.legs EXCEPT ![Following(t)] = "open"]
           /\ TurnInv(u)
<1> DEFINE r == Following(t)
           n == Len(t.order)
<1>1. /\ t \in TurnStates /\ t.order \in Seq(Relays) /\ t.pos \in Nat /\ n \in Nat
      /\ t.pos \in 1..n /\ t.pos + 1 \in 1..n
  BY SMTT(60) DEF TurnInv, TurnStates, LoopInv
<1>2. r \in Relays /\ Current(t) \in Relays /\ Current(t) # r
      /\ \A i \in 1..n : t.order[i] \in Relays
  BY <1>1 DEF Current, Following, TurnInv, OrderInv
<1>3. t.legs[r] = "none" /\ Open(t) = {Current(t)}
  BY <1>1 DEF TurnInv, LoopInv, Asked, Following
<1>4. u \in TurnStates
  <2>1. "race" \in Phases
    BY DEF Phases
  <2>2. \A s \in TurnStates : [s EXCEPT !.phase = "race"] \in TurnStates
    BY ZenonT(40), <2>1 DEF TurnStates
  <2> QED
    BY <1>1, <1>2, <2>2, SentType
<1>5. /\ u.phase = "race" /\ u.order = t.order /\ u.pos = t.pos
      /\ u.legs = [t.legs EXCEPT ![r] = "open"] /\ u.firstError = t.firstError
      /\ u.last = t.last /\ u.lastRelay = t.lastRelay /\ u.disabled = t.disabled
      /\ u.blame = t.blame /\ u.bodies = t.bodies /\ u.aborted = t.aborted
      /\ u.result = t.result
  <2> HIDE DEF r
  <2> QED
    BY <1>1, <1>2 DEF TurnStates, Sent, r
<1>6. t.legs \in [Relays -> LegStates]
  BY <1>1 DEF TurnStates
<1>7. \A i \in 1..n : u.legs[t.order[i]] = IF i = t.pos + 1 THEN "open" ELSE t.legs[t.order[i]]
  BY <1>1, <1>2, <1>5, <1>6 DEF TurnInv, OrderInv, Following
<1>8. OrderInv(u)
  <2>1. \E i \in 1..n : r = t.order[i]
    BY <1>1 DEF Following
  <2>2. \A x \in Relays : x # r => u.legs[x] = t.legs[x]
    BY <1>5, <1>6
  <2> HIDE DEF r
  <2> QED
    BY <1>5, <2>1, <2>2 DEF TurnInv, OrderInv
<1>9. LoopInv(u)
  <2>1. u.pos >= 1 /\ u.pos <= n /\ u.pos < n
    BY <1>1, <1>5 DEF TurnInv, LoopInv
  <2>2. \A i \in 1..n : i < t.pos => Asked(u, i) \/ t.order[i] \in Malformed
    BY <1>1, <1>5, <1>7 DEF TurnInv, LoopInv, Asked
  <2>3. \A i \in 1..n : i > t.pos + 1 => ~Asked(u, i)
    BY <1>1, <1>5, <1>7 DEF TurnInv, LoopInv, Asked
  <2> QED
    BY <1>5, <2>1, <2>2, <2>3 DEF LoopInv
<1>10. RaceInv(u)
  <2>1. Current(u) = Current(t) /\ Following(u) = r
    BY <1>5 DEF Current, Following
  <2>2. Open(u) = {Current(t), r}
    BY <1>2, <1>3, <1>5, <1>6 DEF Open
  <2>3. t.blame[r] = 0 /\ t.blame[Current(t)] = 0
    BY <1>2, <1>3, UnansweredFacts DEF Open
  <2>4. u.firstError = "none"
    BY <1>5 DEF TurnInv, LoopInv
  <2> QED
    BY <1>5, <2>1, <2>2, <2>3, <2>4 DEF RaceInv
<1>11. LastInv(u) /\ BodyInv(u) /\ BlameInv(u)
  <2>1. t.phase # "done" /\ u.phase # "done"
    BY <1>5
  <2> HIDE DEF r
  <2> QED
    BY <1>2, <1>3, <1>4, <1>5, <2>1, SentInv
<1> QED
  BY <1>2, <1>3, <1>4, <1>5, <1>8, <1>9, <1>10, <1>11 DEF TurnInv

\* The abort by the caller.
LEMMA AbortInv ==
    ASSUME NEW t, TurnInv(t), t.phase # "done",
           NEW u, u = [t EXCEPT !.aborted = TRUE, !.bodies = {}]
    PROVE  TurnInv(u)
<1>1. t \in TurnStates
  BY DEF TurnInv
<1>2. u \in TurnStates
  BY <1>1 DEF TurnStates
<1>3. /\ u.phase = t.phase /\ u.order = t.order /\ u.pos = t.pos
      /\ u.legs = t.legs /\ u.firstError = t.firstError
      /\ u.last = t.last /\ u.lastRelay = t.lastRelay /\ u.disabled = t.disabled
      /\ u.blame = t.blame /\ u.bodies = {} /\ u.aborted = TRUE
      /\ u.result = t.result
  BY <1>1 DEF TurnStates
<1>4. OrderInv(u) /\ LoopInv(u) /\ RaceInv(u)
  BY SMTT(60), <1>3 DEF TurnInv, OrderInv, LoopInv, RaceInv, Asked, Open, Current, Following
<1>5. LastInv(u) /\ BodyInv(u) /\ BlameInv(u)
  BY <1>3 DEF TurnInv, LastInv, BodyInv, BlameInv
<1> QED
  BY <1>2, <1>4, <1>5 DEF TurnInv

\* No candidate is left.
LEMMA ExhaustInv ==
    ASSUME NEW t, TurnInv(t), t.phase = "pick", t.pos > Len(t.order),
           NEW u, u = [t EXCEPT !.phase = "direct"]
    PROVE  TurnInv(u)
<1>1. t \in TurnStates
  BY DEF TurnInv
<1>2. u \in TurnStates
  BY <1>1 DEF TurnStates, Phases
<1>3. /\ u.phase = "direct" /\ u.order = t.order /\ u.pos = t.pos
      /\ u.legs = t.legs /\ u.firstError = t.firstError
      /\ u.last = t.last /\ u.lastRelay = t.lastRelay /\ u.disabled = t.disabled
      /\ u.blame = t.blame /\ u.bodies = t.bodies /\ u.aborted = t.aborted
      /\ u.result = t.result
  BY <1>1 DEF TurnStates
<1> QED
  BY <1>2, <1>3 DEF TurnInv, OrderInv, LoopInv, RaceInv, LastInv, BodyInv, BlameInv, Asked, Open

-----------------------------------------------------------------------------
(* A failed attempt keeps the invariant of a turn                          *)

Gone == {"failed", "withdrawn"}

\* The turn t with the leg of r gone.
Dropped(t, r, f) == [t EXCEPT !.legs[r] = f]

\* The turn after the failure of an attempt without a rival, of one leg of a
\* race, and of both.
AloneNext(t, r, f) ==
    Rolled(Reported(Blamed([Dropped(t, r, f) EXCEPT !.rateLimitOnly = FALSE], r)))
FirstNext(t, r, f, error) == [Dropped(t, r, f) EXCEPT !.firstError = error]
BothNext(t, r, f, a, b) ==
    Rolled(Reported(Reported(Blamed(Blamed(
        [Dropped(t, r, f) EXCEPT !.rateLimitOnly = FALSE], a), b))))

\* A failure is one of the two.
LEMMA FailedLegs ==
    ASSUME NEW t \in TurnStates, NEW r \in Relays
    PROVE  \E f \in Gone : Failed(t, r) = Dropped(t, r, f)
BY DEF Failed, Gone, Dropped

\* A turn stays one without a leg.
LEMMA DroppedType ==
    ASSUME NEW t \in TurnStates, NEW r \in Relays, NEW f \in Gone
    PROVE  Dropped(t, r, f) \in TurnStates
BY DEF TurnStates, Dropped, Gone, LegStates

\* Of the response kept, and of what is asked, a failure changes nothing.
LEMMA GoneFacts ==
    ASSUME NEW t, TurnInv(t), NEW r \in Relays, Awaits(t, r), NEW f \in Gone,
           NEW u \in TurnStates, u.legs = [t.legs EXCEPT ![r] = f]
    PROVE  /\ SameAsked(t, u) /\ Open(u) = Open(t) \ {r}
           /\ t.blame[r] = 0
           /\ KeptOld(t, u) => LastInv(u)
<1>1. t.legs \in [Relays -> LegStates] /\ t.legs[r] = "open"
  BY DEF TurnInv, TurnStates, Awaits, Open
<1>2. t.blame[r] = 0 /\ t.last.from # r
  BY <1>1, UnansweredFacts
<1>3. SameAsked(t, u) /\ Open(u) = Open(t) \ {r}
  BY <1>1 DEF SameAsked, Open, Gone
<1>4. KeptOld(t, u) => LastInv(u)
  BY <1>1, <1>2 DEF TurnInv, LastInv, KeptOld
<1> QED
  BY <1>2, <1>3, <1>4

\* An attempt without a rival fails, and the turn rolls on.
LEMMA AloneShape ==
    ASSUME NEW t \in TurnStates, NEW r \in Relays, NEW f \in Gone, NEW u,
           u = AloneNext(t, r, f)
    PROVE  /\ u \in TurnStates
           /\ Advanced(t, u) /\ KeptOld(t, u) /\ Marked(t, u, {r})
           /\ u.legs = [t.legs EXCEPT ![r] = f] /\ u.bodies = t.bodies
<1>1. u \in TurnStates
  <2>1. \A s \in TurnStates : [s EXCEPT !.rateLimitOnly = FALSE] \in TurnStates
    BY ZenonT(40) DEF TurnStates
  <2> QED
    BY <2>1, DroppedType, BlamedType, ReportedType, RolledType DEF AloneNext
<1>2. /\ Advanced(t, u) /\ KeptOld(t, u) /\ Marked(t, u, {r})
      /\ u.legs = [t.legs EXCEPT ![r] = f] /\ u.bodies = t.bodies
  BY DEF TurnStates, Advanced, KeptOld, Marked, Rolled, Reported, Blamed, Dropped, AloneNext
<1> QED
  BY <1>1, <1>2

\* The attempt that failed was the only one.
LEMMA AloneInv ==
    ASSUME NEW t, TurnInv(t), NEW r \in Relays, Awaits(t, r), t.phase \in {"solo", "grace"},
           NEW f \in Gone, NEW u \in TurnStates,
           Advanced(t, u), KeptOld(t, u), Marked(t, u, {r}),
           u.legs = [t.legs EXCEPT ![r] = f], u.bodies = t.bodies
    PROVE  TurnInv(u)
<1>1. t \in TurnStates
  BY DEF TurnInv
<1>2. SameAsked(t, u) /\ Open(u) = Open(t) \ {r} /\ t.blame[r] = 0 /\ LastInv(u)
  BY GoneFacts
<1>3. Open(u) = {}
  BY <1>2 DEF TurnInv, LoopInv, Awaits
<1>4. OrderInv(u) /\ LoopInv(u) /\ RaceInv(u)
  BY <1>2, <1>3, AdvancedLoop
<1>5. BodyInv(u)
  BY DEF TurnInv, BodyInv, Advanced, KeptOld
<1>6. BlameInv(u)
  <2>1. u.legs[r] = f /\ \A x \in Relays : x # r => u.legs[x] = t.legs[x]
    BY <1>1 DEF TurnStates
  <2>2. u.blame[r] = 1 /\ \A x \in Relays : x # r => u.blame[x] = t.blame[x]
    BY <1>2 DEF Marked
  <2> QED
    BY <2>1, <2>2 DEF TurnInv, BlameInv, Gone
<1> QED
  BY <1>2, <1>4, <1>5, <1>6 DEF TurnInv

\* A failure that the caller has caused ends the turn.
LEMMA WithdrawnShape ==
    ASSUME NEW t \in TurnStates, NEW r \in Relays, NEW f \in Gone, NEW u,
           u = Thrown(Dropped(t, r, f))
    PROVE  /\ u \in TurnStates
           /\ Over(t, u, t.served, Response(Nobody, "thrown")) /\ KeptOld(t, u)
           /\ u.blame = t.blame /\ u.bodies = t.bodies
           /\ u.legs = [t.legs EXCEPT ![r] = f]
<1>1. u \in TurnStates
  BY DroppedType, ThrownType
<1>2. /\ Over(t, u, t.served, Response(Nobody, "thrown")) /\ KeptOld(t, u)
      /\ u.blame = t.blame /\ u.bodies = t.bodies
      /\ u.legs = [t.legs EXCEPT ![r] = f]
  BY DEF TurnStates, Over, KeptOld, Thrown, Dropped
<1> QED
  BY <1>1, <1>2

\* The caller has withdrawn the attempt.
LEMMA WithdrawnInv ==
    ASSUME NEW t, TurnInv(t), NEW r \in Relays, Awaits(t, r), t.aborted,
           NEW f \in Gone, NEW u \in TurnStates,
           Over(t, u, t.served, Response(Nobody, "thrown")), KeptOld(t, u),
           u.blame = t.blame, u.bodies = t.bodies,
           u.legs = [t.legs EXCEPT ![r] = f]
    PROVE  TurnInv(u)
<1>1. t \in TurnStates
  BY DEF TurnInv
<1>2. SameAsked(t, u) /\ t.blame[r] = 0 /\ LastInv(u)
  BY GoneFacts
<1>3. OrderInv(u) /\ LoopInv(u) /\ RaceInv(u)
  BY <1>2, OverLoop DEF Over
<1>4. BodyInv(u)
  BY DEF BodyInv, Over, Response
<1>5. BlameInv(u)
  BY SMTT(30), <1>1, <1>2 DEF TurnInv, TurnStates, BlameInv, Gone, Faults
<1> QED
  BY <1>2, <1>3, <1>4, <1>5 DEF TurnInv

\* One leg of a race fails.
LEMMA FirstShape ==
    ASSUME NEW t \in TurnStates, NEW r \in Relays, NEW f \in Gone,
           NEW error \in {"abort", "network"}, NEW u,
           u = FirstNext(t, r, f, error)
    PROVE  /\ u \in TurnStates
           /\ u.phase = t.phase /\ u.order = t.order /\ u.pos = t.pos
           /\ u.legs = [t.legs EXCEPT ![r] = f] /\ u.firstError # "none" /\ KeptOld(t, u)
           /\ u.blame = t.blame /\ u.bodies = t.bodies
           /\ u.aborted = t.aborted /\ u.result = t.result
<1>1. u \in TurnStates
  <2>1. \A s \in TurnStates : [s EXCEPT !.firstError = error] \in TurnStates
    BY ZenonT(40) DEF TurnStates
  <2> QED
    BY <2>1, DroppedType DEF FirstNext
<1>2. /\ u.phase = t.phase /\ u.order = t.order /\ u.pos = t.pos
      /\ u.legs = [t.legs EXCEPT ![r] = f] /\ u.firstError # "none" /\ KeptOld(t, u)
      /\ u.blame = t.blame /\ u.bodies = t.bodies
      /\ u.aborted = t.aborted /\ u.result = t.result
  BY DEF TurnStates, KeptOld, Dropped, FirstNext
<1> QED
  BY <1>1, <1>2

\* The race goes on with one leg.
LEMMA FirstInv ==
    ASSUME NEW t, TurnInv(t), NEW r \in Relays, Awaits(t, r), t.phase = "race",
           t.firstError = "none", NEW f \in Gone, NEW u \in TurnStates,
           u.phase = t.phase, u.order = t.order, u.pos = t.pos,
           u.legs = [t.legs EXCEPT ![r] = f], u.firstError # "none", KeptOld(t, u),
           u.blame = t.blame, u.bodies = t.bodies, u.aborted = t.aborted, u.result = t.result
    PROVE  TurnInv(u)
<1>1. t \in TurnStates
  BY DEF TurnInv
<1>2. SameAsked(t, u) /\ Open(u) = Open(t) \ {r} /\ t.blame[r] = 0 /\ LastInv(u)
  BY GoneFacts
<1>3. t.order \in Seq(Relays) /\ t.pos \in Nat /\ t.legs \in [Relays -> LegStates]
  BY <1>1 DEF TurnStates
<1>4. OrderInv(u)
  BY <1>2 DEF TurnInv, OrderInv, SameAsked
<1>5. LoopInv(u)
  <2>1. \A i \in 1..Len(t.order) : Asked(u, i) <=> Asked(t, i)
    BY <1>2, <1>3 DEF Asked, SameAsked
  <2> QED
    BY <2>1 DEF TurnInv, LoopInv
<1>6. RaceInv(u)
  <2>1. Current(u) = Current(t) /\ Following(u) = Following(t)
    BY DEF Current, Following
  <2>2. Open(t) = {Current(t), Following(t)}
    BY DEF TurnInv, RaceInv
  <2>3. Current(t) # Following(t)
    BY <1>3 DEF TurnInv, LoopInv, OrderInv, Current, Following
  <2>4. r \in Open(t) /\ u.legs[r] = f
    BY <1>3 DEF Awaits
  <2>5. t.blame[Current(t)] = 0 /\ t.blame[Following(t)] = 0
    BY DEF TurnInv, RaceInv
  <2> QED
    BY <1>2, <2>1, <2>2, <2>3, <2>4, <2>5 DEF RaceInv, Gone
<1>7. BodyInv(u)
  BY DEF TurnInv, BodyInv, KeptOld
<1>8. BlameInv(u)
  BY <1>2, <1>3 DEF TurnInv, BlameInv, Gone, Faults
<1> QED
  BY <1>2, <1>4, <1>5, <1>6, <1>7, <1>8 DEF TurnInv

\* The legs of a race are two relays, and once both have failed each is blamed.
LEMMA RaceLegs ==
    ASSUME NEW t, TurnInv(t), t.phase = "race"
    PROVE  Current(t) \in Relays /\ Following(t) \in Relays /\ Current(t) # Following(t)
<1>1. t.order \in Seq(Relays) /\ t.pos \in Nat
  BY DEF TurnInv, TurnStates
<1> QED
  BY <1>1 DEF TurnInv, LoopInv, OrderInv, Current, Following

\* Both legs of a race have failed.
LEMMA BothShape ==
    ASSUME NEW t \in TurnStates, NEW r \in Relays, NEW f \in Gone,
           NEW a \in Relays, NEW b \in Relays \ {a},
           NEW u, u = BothNext(t, r, f, a, b)
    PROVE  /\ u \in TurnStates
           /\ Advanced(t, u) /\ KeptOld(t, u) /\ Marked(t, u, {a, b})
           /\ u.legs = [t.legs EXCEPT ![r] = f] /\ u.bodies = t.bodies
<1>1. u \in TurnStates
  <2>1. \A s \in TurnStates : [s EXCEPT !.rateLimitOnly = FALSE] \in TurnStates
    BY ZenonT(40) DEF TurnStates
  <2> QED
    BY <2>1, DroppedType, BlamedType, ReportedType, RolledType DEF BothNext
<1>2. /\ Advanced(t, u) /\ KeptOld(t, u) /\ Marked(t, u, {a, b})
      /\ u.legs = [t.legs EXCEPT ![r] = f] /\ u.bodies = t.bodies
  BY DEF TurnStates, Advanced, KeptOld, Marked, Rolled, Reported, Blamed, Dropped, BothNext
<1> QED
  BY <1>1, <1>2

\* The race is lost and the turn rolls on past both.
LEMMA BothInv ==
    ASSUME NEW t, TurnInv(t), NEW r \in Relays, Awaits(t, r), t.phase = "race",
           t.firstError # "none", NEW f \in Gone, NEW u \in TurnStates,
           Advanced(t, u), KeptOld(t, u), Marked(t, u, {Current(t), Following(t)}),
           u.legs = [t.legs EXCEPT ![r] = f], u.bodies = t.bodies
    PROVE  TurnInv(u)
<1> DEFINE a == Current(t)
           b == Following(t)
<1>1. t \in TurnStates /\ a \in Relays /\ b \in Relays /\ a # b
  BY RaceLegs DEF TurnInv
<1>2. SameAsked(t, u) /\ Open(u) = Open(t) \ {r} /\ LastInv(u)
  BY GoneFacts
<1>3. /\ t.blame[a] = 0 /\ t.blame[b] = 0
      /\ Open(u) = {} /\ u.legs[a] \in Gone /\ u.legs[b] \in Gone
  <2>1. /\ t.blame[a] = 0 /\ t.blame[b] = 0
        /\ \/ Open(t) = {a} /\ t.legs[b] \in Gone
           \/ Open(t) = {b} /\ t.legs[a] \in Gone
    BY DEF TurnInv, RaceInv, Gone
  <2>2. r \in Open(t)
    BY DEF Awaits
  <2>3. u.legs[r] = f /\ \A x \in Relays : x # r => u.legs[x] = t.legs[x]
    BY <1>1 DEF TurnStates
  <2> HIDE DEF a, b
  <2> QED
    BY <1>1, <1>2, <2>1, <2>2, <2>3
<1>4. OrderInv(u) /\ LoopInv(u) /\ RaceInv(u)
  BY <1>2, <1>3, AdvancedLoop
<1>5. BodyInv(u)
  BY DEF TurnInv, BodyInv, Advanced, KeptOld
<1>6. BlameInv(u)
  <2> SUFFICES ASSUME NEW x \in Relays
               PROVE  /\ u.blame[x] <= 1
                      /\ u.blame[x] = 1 => u.legs[x] \in Faults \cup {"failed", "withdrawn"}
                      /\ u.legs[x] \in Faults => u.blame[x] = 1
    BY DEF BlameInv
  <2>1. CASE x \in {a, b}
    <3>1. u.blame[x] = 1 /\ u.legs[x] \in Gone
      BY <1>3, <2>1 DEF Marked
    <3> QED
      BY <3>1 DEF Gone
  <2>2. CASE x \notin {a, b}
    <3>1. u.blame[x] = t.blame[x]
      BY <2>2 DEF Marked
    <3>2. x # r
      BY <2>2 DEF TurnInv, RaceInv, Awaits
    <3>3. u.legs[x] = t.legs[x]
      BY <1>1, <3>2 DEF TurnStates
    <3> QED
      BY <3>1, <3>3 DEF TurnInv, BlameInv
  <2> QED
    BY <2>1, <2>2
<1> QED
  BY <1>2, <1>4, <1>5, <1>6 DEF TurnInv

-----------------------------------------------------------------------------
(* The ends that ask the upstream keep the invariant of a turn             *)

\* What they have in common: only the bodies and the result change.
LEMMA FallbackInv ==
    ASSUME NEW t, TurnInv(t), NEW u \in TurnStates, NEW issuer, NEW response,
           Over(t, u, issuer, response), KeptOld(t, u), u.legs = t.legs, u.blame = t.blame,
           BodyInv(u)
    PROVE  TurnInv(u)
<1>1. OrderInv(u) /\ LoopInv(u) /\ RaceInv(u)
  BY OverLoop DEF Over, SameAsked
<1>2. LastInv(u) /\ BlameInv(u)
  BY DEF TurnInv, LastInv, BlameInv, KeptOld
<1> QED
  BY <1>1, <1>2 DEF TurnInv

\* A salvaged answer.
LEMMA SalvageShape ==
    ASSUME NEW t \in TurnStates, NEW B \in SUBSET (Relays \cup {Direct}), NEW u,
           u = Ended([t EXCEPT !.bodies = B], t.lastRelay, t.last)
    PROVE  /\ u \in TurnStates
           /\ Over(t, u, t.lastRelay, t.last) /\ KeptOld(t, u)
           /\ u.legs = t.legs /\ u.blame = t.blame /\ u.bodies = B
<1>1. u \in TurnStates
  <2>1. [t EXCEPT !.bodies = B] \in TurnStates
    BY DEF TurnStates
  <2>2. t.lastRelay \in Relays \cup {Direct, Nobody} /\ t.last \in Responses
    BY DEF TurnStates
  <2> QED
    BY <2>1, <2>2, EndedType
<1>2. /\ Over(t, u, t.lastRelay, t.last) /\ KeptOld(t, u)
      /\ u.legs = t.legs /\ u.blame = t.blame /\ u.bodies = B
  BY DEF TurnStates, Over, KeptOld, Ended
<1> QED
  BY <1>1, <1>2

\* The answer kept is the one returned.
LEMMA SalvageInv ==
    ASSUME NEW t, TurnInv(t), t.phase = "direct", t.last # NoResponse, t.last.status # "402",
           NEW u \in TurnStates,
           Over(t, u, t.lastRelay, t.last), KeptOld(t, u),
           u.legs = t.legs, u.blame = t.blame, u.bodies = t.bodies
    PROVE  /\ TurnInv(u)
           /\ t.last.from \in Relays /\ t.legs[t.last.from] # "none"
<1>1. /\ t.last.from \in Relays /\ t.lastRelay = t.last.from
      /\ t.last.status \in Verdicts /\ t.legs[t.last.from] = t.last.status
  BY DEF TurnInv, LastInv
<1>2. {"thrown", "relay_disabled", "none"} \cap Verdicts = {}
  BY DEF Verdicts, Faults
<1>3. BodyInv(u)
  BY <1>1, <1>2 DEF TurnInv, BodyInv, Over
<1> QED
  BY <1>1, <1>2, <1>3, FallbackInv

\* An answer in the name of the upstream; B are the bodies left open.
DirectNext(t, v, B) == Ended([t EXCEPT !.bodies = B], Direct, Response(Direct, v))

\* What it leaves of the turn.
LEMMA DirectShape ==
    ASSUME NEW t \in TurnStates, NEW v \in {"ok", "403", "relay_disabled"},
           NEW B \in SUBSET (Relays \cup {Direct}), NEW u,
           u = DirectNext(t, v, B)
    PROVE  /\ u \in TurnStates
           /\ Over(t, u, Direct, Response(Direct, v)) /\ KeptOld(t, u)
           /\ u.legs = t.legs /\ u.blame = t.blame /\ u.bodies = B
<1>1. u \in TurnStates
  <2>1. [t EXCEPT !.bodies = B] \in TurnStates
    BY DEF TurnStates
  <2>2. Response(Direct, v) \in Responses
    BY ResponseType DEF Verdicts, Faults
  <2> QED
    BY <2>1, <2>2, EndedType DEF DirectNext
<1>2. /\ Over(t, u, Direct, Response(Direct, v)) /\ KeptOld(t, u)
      /\ u.legs = t.legs /\ u.blame = t.blame /\ u.bodies = B
  BY DEF TurnStates, Over, KeptOld, Ended, DirectNext
<1> QED
  BY <1>1, <1>2

\* The upstream, or its error, is what the turn returns.
LEMMA DirectInv ==
    ASSUME NEW t, TurnInv(t), t.phase \in {"direct", "bypass"},
           NEW v \in {"ok", "403", "relay_disabled"}, NEW u \in TurnStates,
           Over(t, u, Direct, Response(Direct, v)), KeptOld(t, u),
           u.legs = t.legs, u.blame = t.blame,
           u.bodies = IF v = "relay_disabled" THEN {} ELSE {Direct}
    PROVE  TurnInv(u)
<1>1. u.result.from = Direct /\ u.result.status = v /\ u.served = Direct /\ u.phase = "done"
  BY DEF Over, Response
<1>2. BodyInv(u)
  BY <1>1 DEF BodyInv
<1> QED
  BY <1>2, FallbackInv

\* No answer at all.
LEMMA ThrowShape ==
    ASSUME NEW t \in TurnStates, NEW s \in Relays \cup {Direct, Nobody}, NEW u,
           u = Thrown([t EXCEPT !.served = s])
    PROVE  /\ u \in TurnStates
           /\ Over(t, u, s, Response(Nobody, "thrown")) /\ KeptOld(t, u)
           /\ u.legs = t.legs /\ u.blame = t.blame /\ u.bodies = t.bodies
<1>1. u \in TurnStates
  <2>1. [t EXCEPT !.served = s] \in TurnStates
    BY DEF TurnStates
  <2> QED
    BY <2>1, ThrownType
<1>2. /\ Over(t, u, s, Response(Nobody, "thrown")) /\ KeptOld(t, u)
      /\ u.legs = t.legs /\ u.blame = t.blame /\ u.bodies = t.bodies
  BY DEF TurnStates, Over, KeptOld, Thrown
<1> QED
  BY <1>1, <1>2

\* The turn throws with no answer kept.
LEMMA ThrowInv ==
    ASSUME NEW t, TurnInv(t), t.phase \in {"direct", "bypass"}, t.last = NoResponse,
           NEW u \in TurnStates, NEW s,
           Over(t, u, s, Response(Nobody, "thrown")), KeptOld(t, u),
           u.legs = t.legs, u.blame = t.blame, u.bodies = t.bodies
    PROVE  TurnInv(u)
<1>1. u.result.status = "thrown" /\ u.phase = "done"
  BY DEF Over, Response
<1>2. t.bodies = {}
  BY DEF TurnInv, BodyInv
<1>3. BodyInv(u)
  BY <1>1, <1>2 DEF BodyInv
<1> QED
  BY <1>3, FallbackInv

\* A turn without relays has no response to keep.
LEMMA BypassLast ==
    ASSUME NEW t, TurnInv(t), t.phase = "bypass"
    PROVE  t.last = NoResponse
<1>1. \A r \in Relays : t.legs[r] = "none"
  BY DEF TurnInv, OrderInv, LoopInv
<1> QED
  BY <1>1 DEF TurnInv, LastInv, Verdicts, Faults

-----------------------------------------------------------------------------
(* Each action                                                             *)

\* A step of turn q keeps its invariant and is such a move.
Stepped(q) == TurnInv(turn'[q]) /\ Moves(turn[q], turn'[q])

\* An awaited answer is quiet.
LEMMA LandedQuiet ==
    ASSUME NEW t, TurnInv(t), NEW u \in TurnStates, NEW r \in Relays, Awaits(t, r),
           NEW v \in Verdicts, Landed(t, u, r, v), u.order = t.order
    PROVE  Quiet(t, u) /\ t.legs[r] # "none"
BY LandedFacts DEF Quiet, Open, Awaits

\* Who answers is awaited.
LEMMA AnsweredFacts ==
    ASSUME IInv, NEW q \in Turns, NEW r \in Relays, NEW v, Answered(q, r, v)
    PROVE  /\ TurnInv(turn[q]) /\ turn[q] \in TurnStates
           /\ Awaits(turn[q], r) /\ ~turn[q].aborted /\ v \in Verdicts
BY HeardVerdicts DEF IInv, TypeOK, Answered, Awaits

\* The action GatewayTimeout keeps the invariant and is a move.
LEMMA GatewayTimeoutStep ==
    ASSUME IInv, NEW q \in Turns, NEW r \in Relays, GatewayTimeout(q, r)
    PROVE  Stepped(q)
<1> DEFINE t == turn[q]
           u == Rolled(Reported(Blamed([Received(t, r, "504") EXCEPT !.bodies = @ \ {r}], r)))
<1>1. /\ TurnInv(t) /\ t \in TurnStates /\ Awaits(t, r) /\ ~t.aborted
      /\ "504" \in Verdicts
  BY AnsweredFacts DEF GatewayTimeout
<1>2. /\ u \in TurnStates
      /\ Advanced(t, u) /\ Landed(t, u, r, "504") /\ KeptOld(t, u) /\ Marked(t, u, {r})
      /\ u.bodies = t.bodies \ {r}
  BY <1>1, GatewayShape
<1>3. turn'[q] = u
  BY <1>2, BecomeType DEF GatewayTimeout, IInv
<1> HIDE DEF t, u
<1>4. TurnInv(u)
  BY <1>1, <1>2, DropInv
<1>5. Waits(t, u)
  BY <1>1, <1>2, LandedQuiet DEF Waits, Under, Advanced, Awaits
<1> QED
  BY <1>3, <1>4, <1>5 DEF Stepped, Moves, t

\* RelayFault, RelayRefuses and RollUnmarked do: the answer is kept.
LEMMA KeepStep ==
    ASSUME IInv, NEW q \in Turns, NEW r \in Relays, NEW v \in Faults \cup {"413", "500"},
           RelayFault(q, r, v) \/ RelayRefuses(q, r, v) \/ RollUnmarked(q, r, v)
    PROVE  Stepped(q)
<1> DEFINE t == turn[q]
           h == Held(Received(t, r, v), r, v)
<1>1. /\ TurnInv(t) /\ t \in TurnStates /\ Awaits(t, r) /\ ~t.aborted
      /\ v \in Verdicts
  BY AnsweredFacts DEF RelayFault, RelayRefuses, RollUnmarked
<1>2. SUFFICES ASSUME NEW u \in TurnStates, turn'[q] = u,
                      Advanced(t, u), Landed(t, u, r, v), KeptNew(t, u, r, v),
                      Marked(t, u, IF v \in Faults THEN {r} ELSE {})
               PROVE  Stepped(q)
  <2>1. CASE RelayFault(q, r, v)
    <3> DEFINE u == Rolled(Reported(Blamed(
                       [h EXCEPT !.disabled = @ \/ v = "402", !.rateLimitOnly = @ /\ v = "429"], r)))
    <3>1. /\ u \in TurnStates
          /\ Advanced(t, u) /\ Landed(t, u, r, v) /\ KeptNew(t, u, r, v) /\ Marked(t, u, {r})
      BY <1>1, FaultShape
    <3>2. turn'[q] = u /\ v \in Faults
      BY <2>1, <3>1, BecomeType DEF RelayFault, IInv
    <3> QED
      BY <1>2, <3>1, <3>2
  <2>2. CASE RelayRefuses(q, r, v)
    <3> DEFINE u == Rolled(Reported(Blamed([h EXCEPT !.rateLimitOnly = FALSE], r)))
    <3>1. v \in Verdicts \ {"402"} /\ v \in Faults
      BY <1>1, <2>2 DEF RelayRefuses, Refused, Faults
    <3>2. /\ u \in TurnStates
          /\ Advanced(t, u) /\ Landed(t, u, r, v) /\ KeptNew(t, u, r, v) /\ Marked(t, u, {r})
      BY <1>1, <3>1, RefusalShape
    <3>3. turn'[q] = u
      BY <2>2, <3>2, BecomeType DEF RelayRefuses, IInv
    <3> QED
      BY <1>2, <3>1, <3>2, <3>3
  <2>3. CASE RollUnmarked(q, r, v)
    <3> DEFINE u == Rolled(Reported(
                       [h EXCEPT !.sawBare500 = @ \/ v = "500", !.rateLimitOnly = FALSE]))
    <3>1. v \in Verdicts \ {"402"} /\ v \notin Faults
      BY <1>1, <2>3 DEF RollUnmarked, Faults
    <3>2. /\ u \in TurnStates
          /\ Advanced(t, u) /\ Landed(t, u, r, v) /\ KeptNew(t, u, r, v) /\ Marked(t, u, {})
      BY <1>1, <3>1, UnmarkedShape
    <3>3. turn'[q] = u
      BY <2>3, <3>2, BecomeType DEF RollUnmarked, IInv
    <3> QED
      BY <1>2, <3>1, <3>2, <3>3
  <2> QED
    BY <2>1, <2>2, <2>3
<1> HIDE DEF t
<1>3. TurnInv(u)
  BY <1>1, <1>2, KeepInv
<1>4. Waits(t, u)
  BY <1>1, <1>2, LandedQuiet DEF Waits, Under, Advanced, Awaits
<1> QED
  BY <1>2, <1>3, <1>4 DEF Stepped, Moves, t

\* The action Surface keeps the invariant and is a move.
LEMMA SurfaceStep ==
    ASSUME IInv, NEW q \in Turns, NEW r \in Relays, NEW v \in {"shape", "500"}, Surface(q, r, v)
    PROVE  Stepped(q)
<1> DEFINE t == turn[q]
           u == Ended(Held(Received(t, r, v), r, v), r, Response(r, v))
<1>1. /\ TurnInv(t) /\ t \in TurnStates /\ Awaits(t, r) /\ ~t.aborted
      /\ v \in Verdicts \ Faults /\ v \in Verdicts \ {"402"}
  BY AnsweredFacts DEF Surface, Faults
<1>2. /\ u \in TurnStates
      /\ Over(t, u, r, Response(r, v)) /\ Landed(t, u, r, v)
      /\ KeptNew(t, u, r, v) /\ Marked(t, u, {})
  BY <1>1, SurfaceShape
<1>3. turn'[q] = u
  BY <1>2, BecomeType DEF Surface, IInv
<1> HIDE DEF t, u
<1>4. TurnInv(u)
  BY <1>1, <1>2, SurfaceInv
<1>5. Returns(t, u)
  BY <1>1, <1>2, LandedQuiet DEF Returns, Ends, Over, Awaits, Response
<1> QED
  BY <1>3, <1>4, <1>5 DEF Stepped, Moves, t

\* The action Succeed keeps the invariant and is a move.
LEMMA SucceedStep ==
    ASSUME IInv, NEW q \in Turns, NEW r \in Relays, Succeed(q, r)
    PROVE  Stepped(q)
<1> DEFINE t == turn[q]
           u == Ended(LastCancelled(Received(t, r, "ok")), r, Response(r, "ok"))
<1>1. /\ TurnInv(t) /\ t \in TurnStates /\ Awaits(t, r) /\ ~t.aborted
      /\ "ok" \in Verdicts
  BY AnsweredFacts DEF Succeed
<1>2. /\ u \in TurnStates
      /\ Over(t, u, r, Response(r, "ok")) /\ Landed(t, u, r, "ok")
      /\ KeptOld(t, u) /\ Marked(t, u, {})
      /\ u.bodies = (t.bodies \cup {r}) \ {t.last.from}
  BY <1>1, SuccessShape
<1>3. turn'[q] = u
  BY <1>2, BecomeType DEF Succeed, IInv
<1> HIDE DEF t, u
<1>4. TurnInv(u)
  BY <1>1, <1>2, SuccessInv
<1>5. Returns(t, u)
  BY <1>1, <1>2, LandedQuiet DEF Returns, Ends, Over, Awaits, Response
<1> QED
  BY <1>3, <1>4, <1>5 DEF Stepped, Moves, t

\* The action Begin keeps the invariant and is a move.
LEMMA BeginStep ==
    ASSUME IInv, NEW q \in Turns, Begin(q)
    PROVE  Stepped(q)
<1> DEFINE t == turn[q]
<1>1. TurnInv(t) /\ t \in TurnStates /\ primary \in Relays /\ t.phase = "idle"
  BY DEF IInv, TypeOK, Begin
<1>2. PICK pool \in SUBSET Relays, pin \in Relays \cup {Nobody}, sticky \in BOOLEAN :
         \E order \in SetToSeqs(pool) :
            Become(q, [t EXCEPT !.phase = IF pool = {} THEN "bypass" ELSE "pick",
                                !.order = order, !.pin = pin, !.sticky = sticky, !.seen = primary])
  BY DEF Begin
<1>3. PICK order \in SetToSeqs(pool) :
         Become(q, [t EXCEPT !.phase = IF pool = {} THEN "bypass" ELSE "pick",
                             !.order = order, !.pin = pin, !.sticky = sticky, !.seen = primary])
  BY <1>2
<1> DEFINE p == IF pool = {} THEN "bypass" ELSE "pick"
           u == [t EXCEPT !.phase = p, !.order = order, !.pin = pin, !.sticky = sticky,
                          !.seen = primary]
<1>4. p \in {"bypass", "pick"} /\ (p = "bypass" => pool = {})
  OBVIOUS
<1>5. order \in Seq(Relays)
  BY <1>3, <1>2, OrderType
<1>6. /\ u \in TurnStates
      /\ u.phase = p /\ u.order = order /\ u.pos = t.pos /\ u.legs = t.legs
      /\ u.firstError = t.firstError /\ KeptOld(t, u) /\ u.blame = t.blame
      /\ u.bodies = t.bodies /\ u.aborted = t.aborted /\ u.result = t.result
  <2> HIDE DEF p, t
  <2>1. u \in TurnStates
    BY <1>1, <1>2, <1>4, <1>5 DEF TurnStates, Phases
  <2>2. /\ u.phase = p /\ u.order = order /\ u.pos = t.pos /\ u.legs = t.legs
        /\ u.firstError = t.firstError /\ KeptOld(t, u) /\ u.blame = t.blame
        /\ u.bodies = t.bodies /\ u.aborted = t.aborted /\ u.result = t.result
    BY <1>1 DEF TurnStates, KeptOld
  <2> QED
    BY <2>1, <2>2
<1>7. turn'[q] = u
  BY <1>3, <1>6, BecomeType DEF IInv
<1>8. TurnInv(u) /\ Starts(t, u)
  <2> HIDE DEF p, t, u
  <2> QED
    BY <1>3, <1>1, <1>2, <1>4, <1>6, BeginInv
<1> QED
  BY <1>7, <1>8 DEF Stepped, Moves

\* The action Reject keeps the invariant and is a move.
LEMMA RejectStep ==
    ASSUME IInv, NEW q \in Turns, Reject(q)
    PROVE  Stepped(q)
<1> DEFINE t == turn[q]
           u == Rolled(Reported(t))
<1>1. TurnInv(t) /\ t \in TurnStates /\ t.phase = "pick"
  BY DEF IInv, TypeOK, Reject
<1>2. TurnInv(u)
  BY <1>1, RejectInv DEF Reject
<1>3. turn'[q] = u
  BY <1>2, BecomeType DEF Reject, IInv, TurnInv
<1>4. Waits(t, u)
  <2> HIDE DEF t
  <2> QED
    BY <1>1 DEF TurnStates, Waits, Quiet, SameAsked, Under, Rolled, Reported
<1> QED
  BY <1>2, <1>3, <1>4 DEF Stepped, Moves

\* The action Send keeps the invariant and is a move.
LEMMA SendStep ==
    ASSUME IInv, NEW q \in Turns, Send(q)
    PROVE  Stepped(q)
<1> DEFINE t == turn[q]
           r == Current(t)
           p == IF CanHedge(t) THEN "grace" ELSE "solo"
           u == [Sent(t, r) EXCEPT !.phase = p]
<1>1. /\ TurnInv(t) /\ t \in TurnStates /\ t.phase = "pick" /\ t.pos <= Len(t.order)
      /\ r \notin Malformed
  BY DEF IInv, TypeOK, Send
<1>2. t.order \in Seq(Relays) /\ t.pos \in 1..Len(t.order)
  BY <1>1 DEF TurnInv, TurnStates, LoopInv
<1>3. r \in Relays /\ t.legs[r] = "none" /\ \E i \in 1..Len(t.order) : r = t.order[i]
  BY <1>1, <1>2 DEF TurnInv, LoopInv, Asked, Current
<1>4. p \in {"grace", "solo"} /\ (p = "grace" => HasNext(t))
  BY DEF CanHedge
<1>5. /\ u \in TurnStates
      /\ u.phase = p /\ u.order = t.order /\ u.pos = t.pos
      /\ u.legs = [t.legs EXCEPT ![r] = "open"] /\ u.firstError = t.firstError
      /\ KeptOld(t, u) /\ u.blame = t.blame /\ u.bodies = t.bodies
      /\ u.aborted = t.aborted /\ u.result = t.result
  <2> HIDE DEF p, r, t
  <2>1. u \in TurnStates
    <3>1. \A s \in TurnStates, x \in Phases : [s EXCEPT !.phase = x] \in TurnStates
      BY DEF TurnStates
    <3>2. p \in Phases
      BY <1>4 DEF Phases
    <3> QED
      BY <1>1, <1>3, <3>1, <3>2, SentType
  <2>2. /\ u.phase = p /\ u.order = t.order /\ u.pos = t.pos
        /\ u.legs = [t.legs EXCEPT ![r] = "open"] /\ u.firstError = t.firstError
        /\ KeptOld(t, u) /\ u.blame = t.blame /\ u.bodies = t.bodies
        /\ u.aborted = t.aborted /\ u.result = t.result
    BY <1>1, <1>3 DEF TurnStates, Sent, KeptOld
  <2> QED
    BY <2>1, <2>2
<1>6. turn'[q] = u
  BY <1>5, BecomeType DEF Send, IInv
<1>7. TurnInv(u)
  <2> HIDE DEF p, t, u
  <2> QED
    BY <1>1, <1>4, <1>5, SendInv DEF r
<1>8. Asks(t, u, r)
  <2> HIDE DEF p, t, u
  <2> QED
    BY <1>1, <1>3, <1>4, <1>5 DEF Asks, Under
<1> QED
  BY <1>3, <1>6, <1>7, <1>8 DEF Stepped, Moves

\* The action Hedge keeps the invariant and is a move.
LEMMA HedgeStep ==
    ASSUME IInv, NEW q \in Turns, Hedge(q)
    PROVE  Stepped(q)
<1> DEFINE t == turn[q]
           r == Following(t)
<1>1. TurnInv(t) /\ t \in TurnStates /\ t.phase = "grace"
  BY DEF IInv, TypeOK, Hedge
<1>2. CASE r \in Malformed
  <2> DEFINE u == [t EXCEPT !.phase = "solo"]
  <2>1. TurnInv(u)
    BY <1>1, HedgeRefusedInv
  <2>2. turn'[q] = u
    BY <1>2, <2>1, BecomeType DEF Hedge, IInv, TurnInv
  <2>3. Waits(t, u)
    <3> HIDE DEF t
    <3> QED
      BY <1>1 DEF TurnStates, Waits, Quiet, SameAsked, Under
  <2> QED
    BY <2>1, <2>2, <2>3 DEF Stepped, Moves
<1>3. CASE r \notin Malformed
  <2> DEFINE u == [Sent(t, r) EXCEPT !.phase = "race"]
  <2>1. /\ TurnInv(u) /\ r \in Relays /\ t.legs[r] = "none"
        /\ u.legs = [t.legs EXCEPT ![r] = "open"]
    BY <1>1, HedgeInv
  <2>2. turn'[q] = u
    BY <1>3, <2>1, BecomeType DEF Hedge, IInv, TurnInv
  <2>3. \E i \in 1..Len(t.order) : r = t.order[i]
    <3>1. t.order \in Seq(Relays) /\ t.pos + 1 \in 1..Len(t.order)
      BY <1>1 DEF TurnInv, TurnStates, LoopInv
    <3> QED
      BY <3>1 DEF Following
  <2>4. Under(t, u) /\ u.order = t.order /\ u.aborted = t.aborted
    <3> HIDE DEF t, r
    <3> QED
      BY <1>1, <2>1 DEF TurnStates, Under, Sent
  <2>5. Asks(t, u, r)
    BY <1>3, <2>1, <2>3, <2>4 DEF Asks
  <2> QED
    BY <2>1, <2>2, <2>5 DEF Stepped, Moves
<1> QED
  BY <1>2, <1>3

\* The action Abort keeps the invariant and is a move.
LEMMA AbortStep ==
    ASSUME IInv, NEW q \in Turns, Abort(q)
    PROVE  Stepped(q)
<1> DEFINE t == turn[q]
           u == [t EXCEPT !.aborted = TRUE, !.bodies = {}]
<1>1. TurnInv(t) /\ t \in TurnStates /\ t.phase # "done"
  BY DEF IInv, TypeOK, Abort
<1>2. TurnInv(u)
  BY <1>1, AbortInv
<1>3. turn'[q] = u
  BY <1>2, BecomeType DEF Abort, IInv, TurnInv
<1>4. Cancels(t, u)
  <2> HIDE DEF t
  <2> QED
    BY <1>1 DEF TurnStates, Cancels, Quiet, SameAsked, Under
<1> QED
  BY <1>2, <1>3, <1>4 DEF Stepped, Moves

\* The action Exhaust keeps the invariant and is a move.
LEMMA ExhaustStep ==
    ASSUME IInv, NEW q \in Turns, Exhaust(q)
    PROVE  Stepped(q)
<1> DEFINE t == turn[q]
           u == [t EXCEPT !.phase = "direct"]
<1>1. TurnInv(t) /\ t \in TurnStates /\ t.phase = "pick" /\ t.pos > Len(t.order)
  BY DEF IInv, TypeOK, Exhaust
<1>2. TurnInv(u)
  BY <1>1, ExhaustInv
<1>3. turn'[q] = u
  BY <1>2, BecomeType DEF Exhaust, IInv, TurnInv
<1>4. Waits(t, u)
  <2> HIDE DEF t
  <2> QED
    BY <1>1 DEF TurnStates, Waits, Quiet, SameAsked, Under
<1> QED
  BY <1>2, <1>3, <1>4 DEF Stepped, Moves

\* Beyond its last candidate a turn has asked all it may.
LEMMA DirectSpent ==
    ASSUME NEW t, TurnInv(t), t.phase \in {"direct", "bypass"}
    PROVE  Spent(t)
<1>1. Len(t.order) \in Nat /\ t.pos \in Nat
  BY DEF TurnInv, TurnStates
<1>2. CASE t.phase = "direct"
  BY <1>1, <1>2 DEF TurnInv, LoopInv, Spent
<1>3. CASE t.phase = "bypass"
  <2>1. Len(t.order) = 0
    BY <1>3 DEF TurnInv, LoopInv
  <2> QED
    BY <2>1 DEF Spent
<1> QED
  BY <1>2, <1>3

\* The action FailAlone keeps the invariant and is a move.
LEMMA FailAloneStep ==
    ASSUME IInv, NEW q \in Turns, NEW r \in Relays, NEW error \in {"abort", "network"},
           FailAlone(q, r, error)
    PROVE  Stepped(q)
<1> DEFINE t == turn[q]
<1>1. /\ TurnInv(t) /\ t \in TurnStates /\ t.phase \in {"solo", "grace"} /\ r \in Open(t)
      /\ t.aborted => error = "abort"
  BY DEF IInv, TypeOK, FailAlone, LegFails
<1>2. Awaits(t, r) /\ t.legs[r] # "none"
  BY <1>1 DEF Awaits, Open
<1>3. PICK f \in Gone : Failed(t, r) = Dropped(t, r, f)
  BY <1>1, FailedLegs
<1> DEFINE g == Dropped(t, r, f)
<1>4. g.aborted = t.aborted
  <2> HIDE DEF t
  <2> QED
    BY <1>1 DEF TurnStates, Dropped
<1>5. CASE t.aborted
  <2> DEFINE u == Thrown(g)
  <2>1. /\ u \in TurnStates
        /\ Over(t, u, t.served, Response(Nobody, "thrown")) /\ KeptOld(t, u)
        /\ u.blame = t.blame /\ u.bodies = t.bodies /\ u.legs = [t.legs EXCEPT ![r] = f]
    BY <1>1, WithdrawnShape
  <2>2. turn'[q] = u
    BY <1>1, <1>3, <1>4, <1>5, <2>1, BecomeType DEF FailAlone, CallerCancelled, IInv
  <2> HIDE DEF t, u
  <2>3. TurnInv(u)
    BY <1>1, <1>2, <1>5, <2>1, WithdrawnInv
  <2>4. Throws(t, u)
    BY <1>1, <1>2, <1>5, <2>1, GoneFacts DEF Throws, Quiet, Ends, Over, Response, Open
  <2> QED
    BY <2>2, <2>3, <2>4 DEF Stepped, Moves, t
<1>6. CASE ~t.aborted
  <2> DEFINE u == AloneNext(t, r, f)
  <2>1. /\ u \in TurnStates
        /\ Advanced(t, u) /\ KeptOld(t, u) /\ Marked(t, u, {r})
        /\ u.legs = [t.legs EXCEPT ![r] = f] /\ u.bodies = t.bodies
    BY <1>1, AloneShape
  <2>2. turn'[q] = u
    BY <1>1, <1>3, <1>4, <1>6, <2>1, BecomeType DEF FailAlone, CallerCancelled, IInv, AloneNext
  <2> HIDE DEF t, u
  <2>3. TurnInv(u)
    BY <1>1, <1>2, <2>1, AloneInv
  <2>4. Waits(t, u)
    BY <1>1, <1>2, <2>1, GoneFacts DEF Waits, Quiet, Under, Advanced, Open
  <2> QED
    BY <2>2, <2>3, <2>4 DEF Stepped, Moves, t
<1> QED
  BY <1>5, <1>6

\* The action FailFirst keeps the invariant and is a move.
LEMMA FailFirstStep ==
    ASSUME IInv, NEW q \in Turns, NEW r \in Relays, NEW error \in {"abort", "network"},
           FailFirst(q, r, error)
    PROVE  Stepped(q)
<1> DEFINE t == turn[q]
<1>1. /\ TurnInv(t) /\ t \in TurnStates /\ t.phase = "race" /\ t.firstError = "none"
      /\ r \in Open(t)
  BY DEF IInv, TypeOK, FailFirst, LegFails
<1>2. Awaits(t, r)
  BY <1>1 DEF Awaits
<1>3. PICK f \in Gone : Failed(t, r) = Dropped(t, r, f)
  BY <1>1, FailedLegs
<1> DEFINE u == FirstNext(t, r, f, error)
<1>4. /\ u \in TurnStates
      /\ u.phase = t.phase /\ u.order = t.order /\ u.pos = t.pos
      /\ u.legs = [t.legs EXCEPT ![r] = f] /\ u.firstError # "none" /\ KeptOld(t, u)
      /\ u.blame = t.blame /\ u.bodies = t.bodies
      /\ u.aborted = t.aborted /\ u.result = t.result
  BY <1>1, FirstShape
<1>5. turn'[q] = u
  BY <1>3, <1>4, BecomeType DEF FailFirst, IInv, FirstNext
<1> HIDE DEF t, u
<1>6. TurnInv(u)
  BY <1>1, <1>2, <1>4, FirstInv
<1>7. Waits(t, u)
  BY <1>1, <1>2, <1>4, GoneFacts DEF Waits, Quiet, Under, Open
<1> QED
  BY <1>5, <1>6, <1>7 DEF Stepped, Moves, t

\* The action FailBoth keeps the invariant and is a move.
LEMMA FailBothStep ==
    ASSUME IInv, NEW q \in Turns, NEW r \in Relays, NEW error \in {"abort", "network"},
           FailBoth(q, r, error)
    PROVE  Stepped(q)
<1> DEFINE t == turn[q]
           a == Current(t)
           b == Following(t)
<1>1. /\ TurnInv(t) /\ t \in TurnStates /\ t.phase = "race" /\ r \in Open(t)
  BY DEF IInv, TypeOK, FailBoth, LegFails
<1>2. Awaits(t, r) /\ t.legs[r] # "none"
  BY <1>1 DEF Awaits, Open
<1>3. PICK f \in Gone : Failed(t, r) = Dropped(t, r, f)
  BY <1>1, FailedLegs
<1> DEFINE g == Dropped(t, r, f)
<1>4. /\ g.aborted = t.aborted /\ g.firstError = t.firstError
      /\ g.order = t.order /\ g.pos = t.pos
  <2> HIDE DEF t
  <2> QED
    BY <1>1 DEF TurnStates, Dropped
<1>5. Current(g) = a /\ Following(g) = b /\ t.firstError # "none"
  BY <1>3, <1>4 DEF Current, Following, FailBoth
<1>6. CASE CallerCancelled(g, g.firstError)
  <2> DEFINE u == Thrown(g)
  <2>1. /\ u \in TurnStates
        /\ Over(t, u, t.served, Response(Nobody, "thrown")) /\ KeptOld(t, u)
        /\ u.blame = t.blame /\ u.bodies = t.bodies /\ u.legs = [t.legs EXCEPT ![r] = f]
    BY <1>1, WithdrawnShape
  <2>2. turn'[q] = u
    BY <1>3, <1>6, <2>1, BecomeType DEF FailBoth, IInv
  <2>3. t.aborted
    BY <1>4, <1>6 DEF CallerCancelled
  <2> HIDE DEF t, u
  <2>4. TurnInv(u)
    BY <1>1, <1>2, <2>1, <2>3, WithdrawnInv
  <2>5. Throws(t, u)
    BY <1>1, <1>2, <2>1, <2>3, GoneFacts DEF Throws, Quiet, Ends, Over, Response, Open
  <2> QED
    BY <2>2, <2>4, <2>5 DEF Stepped, Moves, t
<1>7. CASE ~CallerCancelled(g, g.firstError)
  <2> DEFINE u == BothNext(t, r, f, a, b)
  <2>1. a \in Relays /\ b \in Relays /\ a # b
    BY <1>1, RaceLegs
  <2>2. /\ u \in TurnStates
        /\ Advanced(t, u) /\ KeptOld(t, u) /\ Marked(t, u, {a, b})
        /\ u.legs = [t.legs EXCEPT ![r] = f] /\ u.bodies = t.bodies
    <3>1. t \in TurnStates /\ b \in Relays \ {a}
      BY <1>1, <2>1
    <3> HIDE DEF a, b, t, g
    <3> QED
      BY <2>1, <3>1, BothShape
  <2>3. turn'[q] = u
    BY <1>3, <1>5, <1>7, <2>2, BecomeType DEF FailBoth, IInv, BothNext
  <2> HIDE DEF t, u
  <2>4. TurnInv(u)
    BY <1>1, <1>2, <1>5, <2>2, BothInv
  <2>5. Waits(t, u)
    BY <1>1, <1>2, <2>2, GoneFacts DEF Waits, Quiet, Under, Advanced, Open
  <2> QED
    BY <2>3, <2>4, <2>5 DEF Stepped, Moves, t
<1> QED
  BY <1>6, <1>7

\* Nothing is asked when the upstream is.
LEMMA UpstreamQuiet ==
    ASSUME NEW t, NEW u, u.legs = t.legs, u.order = t.order
    PROVE  Quiet(t, u)
BY DEF Quiet, SameAsked

\* The action DirectAnswers keeps the invariant and is a move.
LEMMA DirectAnswersStep ==
    ASSUME IInv, NEW q \in Turns, NEW v \in {"ok", "403"}, DirectAnswers(q, v)
    PROVE  Stepped(q)
<1> DEFINE t == turn[q]
           d == [t EXCEPT !.bodies = @ \cup {Direct}]
<1>1. TurnInv(t) /\ t \in TurnStates /\ t.phase = "direct" /\ ~t.aborted
  <2>1. TurnInv(t) /\ t \in TurnStates
    BY DEF IInv, TypeOK
  <2>2. d.phase = t.phase /\ d.aborted = t.aborted
    <3> HIDE DEF t
    <3> QED
      BY <2>1 DEF TurnStates
  <2> QED
    BY <2>1, <2>2 DEF DirectAnswers
<1>2. /\ d.last = t.last /\ d.lastRelay = t.lastRelay
      /\ d.bodies = t.bodies \cup {Direct}
      /\ \A B : [d EXCEPT !.bodies = B] = [t EXCEPT !.bodies = B]
  <2> HIDE DEF t
  <2> QED
    BY <1>1 DEF TurnStates
<1>3. t.bodies \in SUBSET (Relays \cup {Direct}) /\ t.bodies \subseteq {t.last.from}
      /\ t.last.from # Direct
  BY <1>1, RelayFetchAssumption DEF TurnInv, TurnStates, BodyInv, LastInv, NoResponse, Response
<1>4. CASE v = "403" /\ t.last.status \in Salvaged
  <2> DEFINE u == Ended([t EXCEPT !.bodies = t.bodies], t.lastRelay, t.last)
  <2>1. /\ u \in TurnStates
        /\ Over(t, u, t.lastRelay, t.last) /\ KeptOld(t, u)
        /\ u.legs = t.legs /\ u.blame = t.blame /\ u.bodies = t.bodies
    <3> HIDE DEF t
    <3> QED
      BY <1>1, <1>3, SalvageShape
  <2>2. [d EXCEPT !.bodies = @ \ {Direct}] = [t EXCEPT !.bodies = t.bodies]
    <3>1. (t.bodies \cup {Direct}) \ {Direct} = t.bodies
      BY <1>3
    <3> QED
      BY <1>2, <3>1
  <2>3. turn'[q] = u
    BY <1>2, <1>4, <2>1, <2>2, BecomeType DEF DirectAnswers, IInv
  <2>4. t.last # NoResponse /\ t.last.status # "402"
    BY <1>4 DEF Salvaged, NoResponse, Response
  <2> HIDE DEF t, u
  <2>5. TurnInv(u) /\ t.last.from \in Relays /\ t.legs[t.last.from] # "none"
    BY <1>1, <2>1, <2>4, SalvageInv
  <2>6. Returns(t, u)
    BY <1>1, <2>1, <2>5, UpstreamQuiet DEF Returns, Ends, Over
  <2> QED
    BY <2>3, <2>5, <2>6 DEF Stepped, Moves, t
<1>5. CASE ~(v = "403" /\ t.last.status \in Salvaged)
  <2> DEFINE u == DirectNext(t, v, {Direct})
  <2>1. /\ u \in TurnStates
        /\ Over(t, u, Direct, Response(Direct, v)) /\ KeptOld(t, u)
        /\ u.legs = t.legs /\ u.blame = t.blame /\ u.bodies = {Direct}
    <3>1. {Direct} \in SUBSET (Relays \cup {Direct})
      OBVIOUS
    <3> HIDE DEF t
    <3> QED
      BY <1>1, <3>1, DirectShape
  <2>2. LastCancelled(d) = [t EXCEPT !.bodies = {Direct}]
    <3>1. d.bodies \ {d.last.from} = {Direct}
      BY <1>2, <1>3
    <3> QED
      BY <1>2, <3>1 DEF LastCancelled
  <2>3. turn'[q] = u
    BY <1>2, <1>5, <2>1, <2>2, BecomeType DEF DirectAnswers, IInv, DirectNext
  <2> HIDE DEF t, u
  <2>4. TurnInv(u)
    BY <1>1, <2>1, DirectInv
  <2>5. FallsBack(t, u)
    BY <1>1, <2>1, UpstreamQuiet, DirectSpent DEF FallsBack, Ends, Over, Response
  <2> QED
    BY <2>3, <2>4, <2>5 DEF Stepped, Moves, t
<1> QED
  BY <1>4, <1>5

\* The action DirectFails keeps the invariant and is a move.
LEMMA DirectFailsStep ==
    ASSUME IInv, NEW q \in Turns, DirectFails(q)
    PROVE  Stepped(q)
<1> DEFINE t == turn[q]
<1>1. TurnInv(t) /\ t \in TurnStates /\ t.phase = "direct"
  BY DEF IInv, TypeOK, DirectFails
<1>2. t.bodies \subseteq {t.last.from} /\ (t.last # NoResponse /\ t.last.status = "402" => t.disabled)
  BY <1>1 DEF TurnInv, BodyInv, LastInv
<1>3. /\ [t EXCEPT !.bodies = t.bodies] = t
      /\ [t EXCEPT !.served = t.served] = t
      /\ t.bodies \in SUBSET (Relays \cup {Direct}) /\ t.served \in Relays \cup {Direct, Nobody}
  <2> HIDE DEF t
  <2> QED
    BY <1>1 DEF TurnStates
<1>4. CASE t.disabled
  <2> DEFINE u == DirectNext(t, "relay_disabled", {})
  <2>1. /\ u \in TurnStates
        /\ Over(t, u, Direct, Response(Direct, "relay_disabled")) /\ KeptOld(t, u)
        /\ u.legs = t.legs /\ u.blame = t.blame /\ u.bodies = {}
    <3>1. {} \in SUBSET (Relays \cup {Direct})
      OBVIOUS
    <3> HIDE DEF t
    <3> QED
      BY <1>1, <3>1, DirectShape
  <2>2. LastCancelled(t) = [t EXCEPT !.bodies = {}]
    <3>1. t.bodies \ {t.last.from} = {}
      BY <1>2
    <3> QED
      BY <3>1 DEF LastCancelled
  <2>3. turn'[q] = u
    BY <1>4, <2>1, <2>2, BecomeType DEF DirectFails, IInv, DirectNext
  <2> HIDE DEF t, u
  <2>4. TurnInv(u)
    BY <1>1, <2>1, DirectInv
  <2>5. FallsBack(t, u)
    BY <1>1, <2>1, UpstreamQuiet, DirectSpent DEF FallsBack, Ends, Over, Response
  <2> QED
    BY <2>3, <2>4, <2>5 DEF Stepped, Moves, t
<1>5. CASE ~t.disabled /\ t.last # NoResponse
  <2> DEFINE u == Ended([t EXCEPT !.bodies = t.bodies], t.lastRelay, t.last)
  <2>1. /\ u \in TurnStates
        /\ Over(t, u, t.lastRelay, t.last) /\ KeptOld(t, u)
        /\ u.legs = t.legs /\ u.blame = t.blame /\ u.bodies = t.bodies
    <3> HIDE DEF t
    <3> QED
      BY <1>1, <1>3, SalvageShape
  <2>2. turn'[q] = u
    BY <1>3, <1>5, <2>1, BecomeType DEF DirectFails, IInv
  <2> HIDE DEF t, u
  <2>3. TurnInv(u) /\ t.last.from \in Relays /\ t.legs[t.last.from] # "none"
    BY <1>1, <1>2, <1>5, <2>1, SalvageInv
  <2>4. Returns(t, u)
    BY <1>1, <2>1, <2>3, UpstreamQuiet DEF Returns, Ends, Over
  <2> QED
    BY <2>2, <2>3, <2>4 DEF Stepped, Moves, t
<1>6. CASE ~t.disabled /\ t.last = NoResponse
  <2> DEFINE u == Thrown([t EXCEPT !.served = t.served])
  <2>1. /\ u \in TurnStates
        /\ Over(t, u, t.served, Response(Nobody, "thrown")) /\ KeptOld(t, u)
        /\ u.legs = t.legs /\ u.blame = t.blame /\ u.bodies = t.bodies
    <3> HIDE DEF t
    <3> QED
      BY <1>1, <1>3, ThrowShape
  <2>2. turn'[q] = u
    BY <1>3, <1>6, <2>1, BecomeType DEF DirectFails, IInv
  <2> HIDE DEF t, u
  <2>3. TurnInv(u)
    BY <1>1, <1>6, <2>1, ThrowInv
  <2>4. Throws(t, u)
    BY <1>1, <2>1, UpstreamQuiet, DirectSpent DEF Throws, Ends, Over, Response
  <2> QED
    BY <2>2, <2>3, <2>4 DEF Stepped, Moves, t
<1> QED
  BY <1>4, <1>5, <1>6

\* The action Bypass keeps the invariant and is a move.
LEMMA BypassStep ==
    ASSUME IInv, NEW q \in Turns, Bypass(q)
    PROVE  Stepped(q)
<1> DEFINE t == turn[q]
<1>1. TurnInv(t) /\ t \in TurnStates /\ t.phase = "bypass"
  BY DEF IInv, TypeOK, Bypass
<1>2. t.last = NoResponse
  BY <1>1, BypassLast
<1>3. CASE Become(q, Ended([t EXCEPT !.bodies = {Direct}], Direct, Response(Direct, "ok")))
  <2> DEFINE u == DirectNext(t, "ok", {Direct})
  <2>1. /\ u \in TurnStates
        /\ Over(t, u, Direct, Response(Direct, "ok")) /\ KeptOld(t, u)
        /\ u.legs = t.legs /\ u.blame = t.blame /\ u.bodies = {Direct}
    <3>1. {Direct} \in SUBSET (Relays \cup {Direct})
      OBVIOUS
    <3> HIDE DEF t
    <3> QED
      BY <1>1, <3>1, DirectShape
  <2>2. turn'[q] = u
    BY <1>3, <2>1, BecomeType DEF IInv, DirectNext
  <2> HIDE DEF t, u
  <2>3. TurnInv(u)
    BY <1>1, <2>1, DirectInv
  <2>4. FallsBack(t, u)
    BY <1>1, <2>1, UpstreamQuiet, DirectSpent DEF FallsBack, Ends, Over, Response
  <2> QED
    BY <2>2, <2>3, <2>4 DEF Stepped, Moves, t
<1>4. CASE Become(q, Thrown([t EXCEPT !.served = Direct]))
  <2> DEFINE u == Thrown([t EXCEPT !.served = Direct])
  <2>1. /\ u \in TurnStates
        /\ Over(t, u, Direct, Response(Nobody, "thrown")) /\ KeptOld(t, u)
        /\ u.legs = t.legs /\ u.blame = t.blame /\ u.bodies = t.bodies
    <3> HIDE DEF t
    <3> QED
      BY <1>1, ThrowShape
  <2>2. turn'[q] = u
    BY <1>4, <2>1, BecomeType DEF IInv
  <2> HIDE DEF t, u
  <2>3. TurnInv(u)
    BY <1>1, <1>2, <2>1, ThrowInv
  <2>4. Throws(t, u)
    BY <1>1, <2>1, UpstreamQuiet, DirectSpent DEF Throws, Ends, Over, Response
  <2> QED
    BY <2>2, <2>3, <2>4 DEF Stepped, Moves, t
<1> QED
  BY <1>3, <1>4 DEF Bypass

-----------------------------------------------------------------------------
(* The inductive invariant                                                 *)

\* Every action of a turn does.
LEMMA TurnStep ==
    ASSUME IInv, NEW q \in Turns, Begin(q) \/ Step(q) \/ Abort(q)
    PROVE  Stepped(q)
<1>1. CASE Begin(q) \/ Abort(q)
  BY <1>1, BeginStep, AbortStep
<1>2. CASE Reject(q) \/ Send(q) \/ Hedge(q)
  BY <1>2, RejectStep, SendStep, HedgeStep
<1>3. CASE Exhaust(q) \/ DirectFails(q) \/ Bypass(q)
  BY <1>3, ExhaustStep, DirectFailsStep, BypassStep
<1>4. CASE \E v \in {"ok", "403"} : DirectAnswers(q, v)
  BY <1>4, DirectAnswersStep
<1>5. ASSUME NEW r \in Relays, Answer(q, r)
      PROVE  Stepped(q)
  <2>1. CASE GatewayTimeout(q, r)
    BY <2>1, GatewayTimeoutStep
  <2>2. ASSUME NEW v \in Faults \cup {"413", "500"},
               RelayFault(q, r, v) \/ RelayRefuses(q, r, v) \/ RollUnmarked(q, r, v)
        PROVE  Stepped(q)
    BY <2>2, KeepStep
  <2>3. CASE \E v \in {"shape", "500"} : Surface(q, r, v)
    BY <2>3, SurfaceStep
  <2>4. CASE Succeed(q, r)
    BY <2>4, SucceedStep
  <2> QED
    BY <1>5, <2>1, <2>2, <2>3, <2>4 DEF Answer
<1>6. ASSUME NEW r \in Relays, Fail(q, r)
      PROVE  Stepped(q)
  BY <1>6, FailAloneStep, FailFirstStep, FailBothStep DEF Fail
<1> QED
  BY <1>1, <1>2, <1>3, <1>4, <1>5, <1>6 DEF Step

\* What a step of turn q does to the rest of the state.
Shared(q) ==
    /\ \E t : Become(q, t)
    /\ cooling' \subseteq Relays /\ primary' \in Relays

\* A lost race penalises its two legs.
LEMMA FailBothShared ==
    ASSUME IInv, NEW q \in Turns, NEW r \in Relays, NEW error \in {"abort", "network"},
           FailBoth(q, r, error)
    PROVE  Shared(q)
<1> DEFINE t == turn[q]
           g == Failed(t, r)
<1>1. TurnInv(t) /\ t \in TurnStates /\ t.phase = "race"
  BY DEF IInv, TypeOK, FailBoth
<1>2. g.order = t.order /\ g.pos = t.pos
  <2> HIDE DEF t
  <2> QED
    BY <1>1 DEF Failed, TurnStates
<1>3. Current(g) \in Relays /\ Following(g) \in Relays
  BY <1>1, <1>2, RaceLegs DEF Current, Following
<1>4. cooling' \subseteq Relays
  BY <1>3 DEF FailBoth, Penalise, IInv, TypeOK
<1>5. primary' \in Relays /\ \E w : Become(q, w)
  BY DEF FailBoth, IInv, TypeOK
<1> QED
  BY <1>4, <1>5 DEF Shared

\* So does every other action.
LEMMA SharedStep ==
    ASSUME IInv, NEW q \in Turns, Begin(q) \/ Step(q) \/ Abort(q)
    PROVE  Shared(q)
<1> USE DEF Shared, IInv, TypeOK
<1>1. CASE Begin(q) \/ Abort(q)
  BY <1>1 DEF Begin, Abort
<1>2. CASE Reject(q) \/ Send(q) \/ Hedge(q)
  BY <1>2 DEF Reject, Send, Hedge
<1>3. CASE Exhaust(q) \/ DirectFails(q) \/ Bypass(q)
  BY <1>3 DEF Exhaust, DirectFails, Bypass
<1>4. CASE \E v \in {"ok", "403"} : DirectAnswers(q, v)
  BY <1>4 DEF DirectAnswers
<1>5. ASSUME NEW r \in Relays, Answer(q, r)
      PROVE  Shared(q)
  <2>1. CASE GatewayTimeout(q, r)
    BY <2>1 DEF GatewayTimeout, Penalise
  <2>2. ASSUME NEW v, RelayFault(q, r, v) \/ RelayRefuses(q, r, v)
        PROVE  Shared(q)
    BY <2>2 DEF RelayFault, RelayRefuses, Penalise
  <2>3. ASSUME NEW v, RollUnmarked(q, r, v) \/ Surface(q, r, v)
        PROVE  Shared(q)
    BY <2>3 DEF RollUnmarked, Surface
  <2>4. CASE Succeed(q, r)
    BY <2>4 DEF Succeed, Clear
  <2> QED
    BY <1>5, <2>1, <2>2, <2>3, <2>4 DEF Answer
<1>6. ASSUME NEW r \in Relays, NEW error \in {"abort", "network"},
             FailAlone(q, r, error) \/ FailFirst(q, r, error)
      PROVE  Shared(q)
  BY <1>6 DEF FailAlone, FailFirst, Penalise
<1> QED
  BY <1>1, <1>2, <1>3, <1>4, <1>5, <1>6, FailBothShared DEF Step, Fail

\* A step of a turn keeps its invariant, is one of the moves, and leaves the
\* other turns alone.
LEMMA StepFacts ==
    ASSUME IInv, NEW q \in Turns, Begin(q) \/ Step(q) \/ Abort(q)
    PROVE  /\ Stepped(q) /\ TypeOK'
           /\ \A p \in Turns \ {q} : turn'[p] = turn[p]
<1>1. Stepped(q) /\ Shared(q)
  BY TurnStep, SharedStep
<1>2. PICK t : turn' = [turn EXCEPT ![q] = t]
  BY <1>1 DEF Shared, Become
<1>3. turn \in [Turns -> TurnStates]
  BY DEF IInv, TypeOK
<1>4. turn'[q] = t /\ t \in TurnStates
  BY <1>1, <1>2, <1>3 DEF Stepped, TurnInv
<1> QED
  BY <1>1, <1>2, <1>3, <1>4 DEF TypeOK, Shared

\* A turn that has not begun has asked nobody.
LEMMA IdleInv == TurnInv(Idle)
<1>1. /\ Idle.phase = "idle" /\ Idle.order = <<>> /\ Idle.pos = 1 /\ Idle.firstError = "none"
      /\ Idle.legs = [r \in Relays |-> "none"] /\ Idle.last = NoResponse
      /\ Idle.blame = [r \in Relays |-> 0] /\ Idle.bodies = {} /\ Idle.result = NoResponse
  BY DEF Idle
<1>2. Len(Idle.order) = 0
  BY <1>1
<1>3. OrderInv(Idle) /\ LoopInv(Idle)
  <2> HIDE DEF Idle
  <2> QED
    BY <1>1, <1>2 DEF OrderInv, LoopInv, Open
<1>4. RaceInv(Idle) /\ LastInv(Idle) /\ BodyInv(Idle) /\ BlameInv(Idle)
  <2> HIDE DEF Idle
  <2> QED
    BY <1>1 DEF RaceInv, LastInv, BodyInv, BlameInv, Faults
<1> QED
  BY <1>3, <1>4, IdleType DEF TurnInv

\* The inductive invariant holds at first.
LEMMA InitIInv == Init => IInv
<1> SUFFICES ASSUME Init
             PROVE  IInv
  OBVIOUS
<1>1. \A q \in Turns : turn[q] = Idle
  BY DEF Init
<1>2. TypeOK
  BY IdleType DEF Init, TypeOK
<1> QED
  BY <1>1, <1>2, IdleInv DEF IInv

\* Every step keeps it.
LEMMA NextIInv == IInv /\ [Next]_vars => IInv'
<1> SUFFICES ASSUME IInv, [Next]_vars
             PROVE  IInv'
  OBVIOUS
<1>1. ASSUME NEW q \in Turns, Begin(q) \/ Step(q) \/ Abort(q)
      PROVE  IInv'
  BY <1>1, StepFacts DEF IInv, Stepped
<1>2. CASE Expire /\ UNCHANGED <<primary, turn>>
  BY <1>2 DEF IInv, TypeOK, Expire
<1>3. CASE UNCHANGED vars
  BY <1>3 DEF IInv, TypeOK, vars
<1> QED
  BY <1>1, <1>2, <1>3 DEF Next

\* Every turn keeps a loop state in which what is open, asked, kept and blamed
\* belong together, whatever the other turns do.
THEOREM Invariance == Spec => []IInv
BY InitIInv, NextIInv, PTL DEF Spec

-----------------------------------------------------------------------------
(* The properties                                                          *)

\* The variables of relayFetch keep their types.
THEOREM TypeCorrect == Spec => []TypeOK
<1>1. IInv => TypeOK
  BY DEF IInv
<1> QED
  BY <1>1, Invariance, PTL

\* No response body that relayFetch received stays open beyond the turn, but
\* the one it returns; before that at most the one of lastResponse is.
THEOREM BodiesAreSettled == Spec => []BodiesSettled
<1>1. IInv => BodiesSettled
  BY DEF IInv, TurnInv, BodyInv, BodiesSettled
<1> QED
  BY <1>1, Invariance, PTL

\* onServed has named the relay, or the upstream, whose response is returned.
THEOREM ServedIsTheIssuer == Spec => []ServedIsIssuer
<1>1. IInv => ServedIsIssuer
  BY DEF IInv, TurnInv, BodyInv, ServedIsIssuer
<1> QED
  BY <1>1, Invariance, PTL

\* The 402 of a disabled deployment never reaches the host.
THEOREM NeverRawDisabled == Spec => []NoRawDisabled
<1>1. IInv => NoRawDisabled
  <2>1. NoResponse.status # "402"
    BY DEF NoResponse, Response
  <2> QED
    BY <2>1 DEF IInv, TurnInv, BodyInv, NoRawDisabled
<1> QED
  BY <1>1, Invariance, PTL

\* markRelayFailure is called once for a relay that failed the turn and never
\* for another.
THEOREM BlameIsJustified == Spec => []BlameJustified
<1>1. IInv => BlameJustified
  BY DEF IInv, TurnInv, BlameInv, BlameJustified
<1> QED
  BY <1>1, Invariance, PTL

-----------------------------------------------------------------------------
(* What the moves of a turn come to                                        *)

\* A leg is opened once.
LEMMA MoveOpens ==
    ASSUME NEW t \in TurnStates, NEW u, Moves(t, u), NEW r \in Relays,
           u.legs[r] = "open", t.legs[r] # "open"
    PROVE  t.legs[r] = "none"
<1>1. t.legs \in [Relays -> LegStates]
  BY DEF TurnStates
<1> QED
  BY <1>1 DEF Moves, Starts, Waits, Cancels, Asks, Returns, FallsBack, Throws, Quiet

\* No relay is sent the same request twice.
THEOREM RequestNeverResent == Spec => NeverResent
<1>1. IInv /\ [Next]_vars
         => [\A q \in Turns, r \in Relays :
                turn'[q].legs[r] = "open" /\ turn[q].legs[r] # "open"
                    => turn[q].legs[r] = "none"]_vars
  <2> DEFINE Once == \A q \in Turns, r \in Relays :
                turn'[q].legs[r] = "open" /\ turn[q].legs[r] # "open"
                    => turn[q].legs[r] = "none"
  <2> SUFFICES ASSUME IInv, [Next]_vars
               PROVE  Once
    OBVIOUS
  <2>1. ASSUME NEW q \in Turns, Begin(q) \/ Step(q) \/ Abort(q)
        PROVE  Once
    <3>1. Stepped(q) /\ turn[q] \in TurnStates
          /\ \A p \in Turns \ {q} : turn'[p] = turn[p]
      BY <2>1, StepFacts DEF IInv, TypeOK
    <3> QED
      BY <3>1, MoveOpens DEF Stepped
  <2>2. CASE UNCHANGED turn
    BY <2>2
  <2> QED
    BY <2>1, <2>2 DEF Next, vars
<1> QED
  BY <1>1, Invariance, PTL DEF Spec, NeverResent

-----------------------------------------------------------------------------
(* relayFetch keeps the promise of Failover                                *)

AskedBy(t) == {r \in Relays : t.legs[r] # "none"}

\* The variables of Failover as the turns have them.
Pools == [q \in Turns |-> Range(turn[q].order)]
AskedSets == [q \in Turns |-> {r \in Relays : turn[q].legs[r] # "none"}]
Cancelled == {q \in Turns : turn[q].aborted}
Finished == {q \in Turns : turn[q].phase = "done"}
Sources == [q \in Turns |-> turn[q].result.from]

\* A step of turn q is a step of these at q alone.
LEMMA Mapped ==
    ASSUME NEW q \in Turns, \A p \in Turns \ {q} : turn'[p] = turn[p]
    PROVE  /\ Pools' = [Pools EXCEPT ![q] = Range(turn'[q].order)]
           /\ AskedSets' = [AskedSets EXCEPT ![q] = AskedBy(turn'[q])]
           /\ Sources' = [Sources EXCEPT ![q] = turn'[q].result.from]
           /\ turn'[q].order = turn[q].order => Pools' = Pools
           /\ SameAsked(turn[q], turn'[q]) => AskedSets' = AskedSets
           /\ turn'[q].result.from = turn[q].result.from => Sources' = Sources
           /\ turn'[q].aborted = turn[q].aborted => Cancelled' = Cancelled
           /\ turn'[q].aborted => Cancelled' = Cancelled \cup {q}
           /\ (turn'[q].phase = "done" <=> turn[q].phase = "done") => Finished' = Finished
           /\ turn'[q].phase = "done" => Finished' = Finished \cup {q}
<1>1. \A p \in Turns : p # q => turn'[p] = turn[p]
  OBVIOUS
<1>2. Pools' = [Pools EXCEPT ![q] = Range(turn'[q].order)]
  BY <1>1 DEF Pools
<1>3. AskedSets' = [AskedSets EXCEPT ![q] = AskedBy(turn'[q])]
  BY <1>1 DEF AskedSets, AskedBy
<1>4. Sources' = [Sources EXCEPT ![q] = turn'[q].result.from]
  BY <1>1 DEF Sources
<1>5. turn'[q].order = turn[q].order => Pools' = Pools
  BY <1>1 DEF Pools
<1>6. SameAsked(turn[q], turn'[q]) => AskedSets' = AskedSets
  <2> SUFFICES ASSUME SameAsked(turn[q], turn'[q])
               PROVE  AskedSets' = AskedSets
    OBVIOUS
  <2>1. \A p \in Turns, r \in Relays : turn'[p].legs[r] # "none" <=> turn[p].legs[r] # "none"
    BY <1>1 DEF SameAsked
  <2>2. \A p \in Turns : {r \in Relays : turn'[p].legs[r] # "none"}
                            = {r \in Relays : turn[p].legs[r] # "none"}
    BY <2>1
  <2> QED
    BY <2>2 DEF AskedSets
<1>7. turn'[q].result.from = turn[q].result.from => Sources' = Sources
  BY <1>1 DEF Sources
<1>8. /\ turn'[q].aborted = turn[q].aborted => Cancelled' = Cancelled
      /\ turn'[q].aborted => Cancelled' = Cancelled \cup {q}
  BY <1>1 DEF Cancelled
<1>9. /\ (turn'[q].phase = "done" <=> turn[q].phase = "done") => Finished' = Finished
      /\ turn'[q].phase = "done" => Finished' = Finished \cup {q}
  BY <1>1 DEF Finished
<1> QED
  BY <1>2, <1>3, <1>4, <1>5, <1>6, <1>7, <1>8, <1>9

\* A turn that has asked its whole order has exhausted its pool.
LEMMA SpentExhausts ==
    ASSUME NEW q \in Turns, turn[q] \in TurnStates, Spent(turn[q])
    PROVE  Pools[q] \ Malformed \subseteq AskedSets[q]
<1>1. turn[q].order \in Seq(Relays)
  BY DEF TurnStates
<1>2. Range(turn[q].order) = {turn[q].order[i] : i \in 1..Len(turn[q].order)}
  BY <1>1 DEF Range
<1>3. \A i \in 1..Len(turn[q].order) : turn[q].order[i] \in Relays
  BY <1>1
<1> QED
  BY <1>2, <1>3 DEF Pools, AskedSets, Spent, Asked

\* Every move of a turn is a step of Failover or none.
LEMMA MoveMapped ==
    ASSUME IInv, NEW q \in Turns, Stepped(q), \A p \in Turns \ {q} : turn'[p] = turn[p]
    PROVE  Promise!Next \/ UNCHANGED Promise!vars
<1> DEFINE t == turn[q]
           u == turn'[q]
<1>1. t \in TurnStates /\ u \in TurnStates /\ TurnInv(t) /\ TurnInv(u)
  BY DEF IInv, Stepped, TurnInv
<1>2. t.phase # "done" => q \notin Finished /\ Sources[q] = Nobody /\ t.result.from = Nobody
  BY <1>1 DEF TurnInv, BodyInv, Finished, Sources, NoResponse, Response
<1> USE DEF Pools, AskedSets, Cancelled, Finished, Sources
<1>3. CASE Starts(t, u)
  <2>1. u.order \in Seq(Relays) /\ Range(u.order) \in SUBSET Relays
    BY SMTT(60), <1>1 DEF TurnStates, Range
  <2>2. Range(t.order) = {}
    BY <1>1, <1>3 DEF Starts, TurnInv, LoopInv, Range
  <2>3. Promise!Start(q)
    BY <1>2, <1>3, <2>1, <2>2, Mapped DEF Promise!Start, Starts, Under, SameAsked
  <2> QED
    BY <2>3 DEF Promise!Next
<1>4. CASE Waits(t, u)
  BY <1>4, Mapped DEF Waits, Quiet, Under, Promise!vars
<1>5. CASE Cancels(t, u)
  <2>1. Promise!Cancel(q)
    BY <1>2, <1>5, Mapped DEF Promise!Cancel, Cancels, Quiet, Under
  <2> QED
    BY <2>1 DEF Promise!Next
<1>6. ASSUME NEW r \in Relays, Asks(t, u, r)
      PROVE  Promise!Ask(q)
  <2>1. r \in Pools[q]
    <3>1. t.order \in Seq(Relays)
      BY <1>1 DEF TurnStates
    <3> QED
      BY <1>6, <3>1 DEF Asks, Range
  <2>2. r \notin Malformed /\ r \notin AskedSets[q]
    BY <1>6 DEF Asks
  <2>3. AskedBy(u) = AskedSets[q] \cup {r}
    BY ZenonT(40), <1>1, <1>6 DEF Asks, AskedBy, TurnStates
  <2>4. AskedSets' = [AskedSets EXCEPT ![q] = @ \cup {r}]
    BY <2>3, Mapped
  <2> QED
    BY <1>2, <1>6, <2>1, <2>2, <2>4, Mapped DEF Promise!Ask, Asks, Under
<1>7. CASE Returns(t, u)
  <2>1. u.result.from \in AskedSets[q]
    BY <1>7 DEF Returns
  <2>2. Promise!Return(q)
    BY <1>2, <1>7, <2>1, Mapped DEF Promise!Return, Returns, Ends, Quiet
  <2> QED
    BY <2>2 DEF Promise!Next
<1>8. CASE FallsBack(t, u)
  <2>1. Promise!Exhausted(q)
    BY <1>1, <1>8, SpentExhausts DEF FallsBack, Promise!Exhausted
  <2>2. Promise!Fallback(q)
    BY <1>2, <1>8, <2>1, Mapped DEF Promise!Fallback, FallsBack, Ends, Quiet
  <2> QED
    BY <2>2 DEF Promise!Next
<1>9. CASE Throws(t, u)
  <2>1. q \in Cancelled \/ Promise!Exhausted(q)
    BY <1>1, <1>9, SpentExhausts DEF Throws, Promise!Exhausted
  <2>2. Promise!Throw(q)
    BY <1>2, <1>9, <2>1, Mapped DEF Promise!Throw, Throws, Ends, Quiet
  <2> QED
    BY <2>2 DEF Promise!Next
<1>10. (\E r \in Relays : Asks(t, u, r)) => Promise!Next
  BY <1>6 DEF Promise!Next
<1> QED
  BY <1>3, <1>4, <1>5, <1>7, <1>8, <1>9, <1>10 DEF Stepped, Moves

\* relayFetch implements Failover: with any number of turns at once, every
\* usable candidate is asked before the upstream, and what is returned is the
\* answer of a relay that was asked, or the upstream's.
THEOREM FailoverKept == Spec => ImplementsFailover
<1>1. Init => Promise!Init
  <2> SUFFICES ASSUME Init
               PROVE  Promise!Init
    OBVIOUS
  <2>1. \A q \in Turns : turn[q] = Idle
    BY DEF Init
  <2>2. /\ Range(Idle.order) = {} /\ \A r \in Relays : Idle.legs[r] = "none"
        /\ ~Idle.aborted /\ Idle.phase # "done" /\ Idle.result.from = Nobody
    BY DEF Idle, NoResponse, Response, Range
  <2> QED
    BY <2>1, <2>2 DEF Promise!Init
<1>2. IInv /\ [Next]_vars => [Promise!Next]_(Promise!vars)
  <2> SUFFICES ASSUME IInv, [Next]_vars
               PROVE  Promise!Next \/ UNCHANGED Promise!vars
    OBVIOUS
  <2>1. ASSUME NEW q \in Turns, Begin(q) \/ Step(q) \/ Abort(q)
        PROVE  Promise!Next \/ UNCHANGED Promise!vars
    BY <2>1, StepFacts, MoveMapped
  <2>2. CASE UNCHANGED turn
    BY <2>2 DEF Promise!vars
  <2> QED
    BY <2>1, <2>2 DEF Next, vars
<1> QED
  BY <1>1, <1>2, Invariance, PTL DEF Spec, ImplementsFailover, Promise!Spec
=============================================================================
