----------------------------- MODULE RelayFetch ------------------------------
(***************************************************************************)
(* relayFetch of src/relay.ts: one turn sends a request to the relays of   *)
(* its candidate order until one answers for good, hedging a slow relay    *)
(* with the next one, and at last to the upstream itself.  Concurrent      *)
(* turns share the relays' health and the sticky primary.                  *)
(*                                                                         *)
(* A leg keeps the branch of the loop that its answer takes.  The peek at a *)
(* body (402, 429, 401) is one step with the headers: the turn touches     *)
(* nothing shared between them.                                            *)
(***************************************************************************)
EXTENDS RelayCooling

CONSTANTS
    Turns,      \* calls of relayFetch
    Malformed,  \* relays whose URL validateRelayUrl refuses
    Answers,    \* the answers relays give
    Direct,     \* the upstream without a relay
    Nobody      \* no relay, no response

\* An answer as it comes: 502 stands for 503 as well, 520 for 408 and for 520 to
\* 530, 200 for any status the loop has no branch for.  edge: x-vercel-error is
\* among its headers; json: its content type says so; body: what a peek finds.
Replies ==
    [status : {"200", "401", "402", "403", "404", "413", "429", "500", "502", "504", "520"},
     edge : BOOLEAN, json : BOOLEAN, body : {"telling", "other", "unreadable"}]

\* A relay URL without a deployment, told from the 404 of the upstream.
IsRelayEdge404(a) == a.status = "404" /\ (a.edge \/ ~a.json)

\* A disabled deployment, told from a payment verdict: by the header, or by the
\* body where it can be read.
IsRelayDeploymentDisabled(a) == a.status = "402" /\ (a.edge \/ a.body = "telling")

\* The worker's own refusal of the relay secret, told from the upstream's 401.
IsRelayAuthRejection(a) == a.status = "401" /\ a.body = "telling"

IsRetriableStatus(a) == a.status \in {"429", "502", "504", "520"}

\* A usage error without a word of quota is about the client's fingerprint.
IsShapeVerdict429(a) == a.status = "429" /\ a.body = "telling"

IsRelayFault(a) ==
    \/ IsRetriableStatus(a) /\ ~IsShapeVerdict429(a)
    \/ IsRelayEdge404(a) \/ IsRelayDeploymentDisabled(a)
    \/ a.status = "403" \/ IsRelayAuthRejection(a)

\* The branch of the loop that an answer takes.
Verdict(a) ==
    IF IsRelayFault(a) \/ a.status \in {"413", "500"} THEN a.status
    ELSE IF IsShapeVerdict429(a) THEN "shape" ELSE "ok"

Faults == {"504", "404", "402", "429", "502", "520", "403", "401"}
Refused == {"403", "401"}
Verdicts == Faults \cup {"ok", "413", "500", "shape"}
Salvaged == {"429", "502"}      \* 429, 502 and 503

ASSUME RelayFetchAssumption ==
    /\ IsFiniteSet(Relays)
    /\ Malformed \subseteq Relays
    /\ Answers \subseteq Replies
    /\ Direct \notin Relays
    /\ Nobody \notin Relays \cup {Direct}

Heard == {Verdict(a) : a \in Answers}

VARIABLES
    primary,    \* url of the pool state, the sticky relay
    turn        \* the local state of each turn

vars == <<cooling, primary, turn>>

Response(r, v) == [from |-> r, status |-> v]
NoResponse == Response(Nobody, "none")

Idle ==
    [phase |-> "idle",
     order |-> <<>>, pos |-> 1,
     pin |-> Nobody,           \* affinity.preferred
     sticky |-> TRUE,          \* neither spread mode nor round robin
     seen |-> Nobody,          \* relayState.url when the turn began
     legs |-> [r \in Relays |-> "none"],   \* the fetch to each relay, or its answer
     firstError |-> "none",    \* of the race under way
     last |-> NoResponse,      \* lastResponse
     lastRelay |-> Nobody,
     disabled |-> FALSE,       \* disabledRelays is not empty
     sawBare500 |-> FALSE,
     rateLimitOnly |-> TRUE,
     attemptNo |-> 0,
     blame |-> [r \in Relays |-> 0],  \* failures this turn has marked
     bodies |-> {},            \* whose response bodies are still open
     aborted |-> FALSE,        \* opts.signal.aborted
     served |-> Nobody,        \* what onServed was told
     result |-> NoResponse]

Phases == {"idle", "pick", "solo", "grace", "race", "direct", "bypass", "done"}
Responses == [from : Relays \cup {Direct, Nobody},
              status : Verdicts \cup {"none", "relay_disabled", "thrown"}]

LegStates == Verdicts \cup {"none", "open", "failed", "lost", "withdrawn"}
TurnStates ==
    [phase : Phases,
     order : Seq(Relays), pos : Nat,
     pin : Relays \cup {Nobody}, sticky : BOOLEAN, seen : Relays \cup {Nobody},
     legs : [Relays -> LegStates], firstError : {"none", "network", "abort"},
     last : Responses, lastRelay : Relays \cup {Nobody},
     disabled : BOOLEAN, sawBare500 : BOOLEAN, rateLimitOnly : BOOLEAN,
     attemptNo : Nat, blame : [Relays -> Nat],
     bodies : SUBSET (Relays \cup {Direct}), aborted : BOOLEAN,
     served : Relays \cup {Direct, Nobody}, result : Responses]

TypeOK ==
    /\ cooling \subseteq Relays
    /\ primary \in Relays
    /\ turn \in [Turns -> TurnStates]

\* The health that earlier turns left behind is arbitrary.
Init ==
    /\ cooling \in SUBSET Relays
    /\ primary \in Relays
    /\ turn = [q \in Turns |-> Idle]

-----------------------------------------------------------------------------
(* What the steps do to the local state of a turn                          *)

Current(t) == t.order[t.pos]
HasNext(t) == t.pos < Len(t.order)
Following(t) == t.order[t.pos + 1]
Open(t) == {r \in Relays : t.legs[r] = "open"}

\* fetch(url) of buildAttempt.
Sent(t, r) == [t EXCEPT !.legs[r] = "open"]

\* reportAbandoned.
Reported(t) == [t EXCEPT !.attemptNo = @ + 1]

Blamed(t, r) == [t EXCEPT !.blame[r] = @ + 1]

\* lastResponse?.body?.cancel()
LastCancelled(t) == [t EXCEPT !.bodies = @ \ {t.last.from}]

\* Mutations: the response kept before is not cancelled, or the issuer is not
\* kept along with the response.
HeldLeaking(t, r, v) == [t EXCEPT !.last = Response(r, v), !.lastRelay = r]
HeldAnonymous(t, r, v) == [LastCancelled(t) EXCEPT !.last = Response(r, v)]

\* Keep the response as lastResponse, cancelling the one kept before.
Held(t, r, v) ==
    [LastCancelled(t) EXCEPT !.last = Response(r, v), !.lastRelay = r]

\* Mutations: the skip after a race forgotten, or made after any hedgeable try.
RolledOne(t) ==
    [t EXCEPT !.phase = "pick", !.pos = @ + 1, !.firstError = "none"]
RolledPastNext(t) ==
    [t EXCEPT !.phase = "pick",
              !.pos = @ + (IF t.phase \in {"grace", "race"} THEN 2 ELSE 1),
              !.firstError = "none"]

\* The roll to the next candidate; a race has consumed two (hedgeSkipNext).
Rolled(t) ==
    [t EXCEPT !.phase = "pick",
              !.pos = @ + (IF t.phase = "race" THEN 2 ELSE 1),
              !.firstError = "none"]

\* Headers of relay r: a rival leg is aborted.
Received(t, r, v) ==
    [t EXCEPT !.legs = [x \in Relays |->
                           IF x = r THEN v
                           ELSE IF x \in Open(t) THEN "lost" ELSE t.legs[x]],
              !.bodies = @ \cup {r}]

\* The turn returns a response, having told onServed its issuer.
Ended(t, issuer, response) ==
    [t EXCEPT !.phase = "done", !.served = issuer, !.result = response]

\* The turn throws; onServed is not called.
Thrown(t) == [t EXCEPT !.phase = "done", !.result = Response(Nobody, "thrown")]

Become(q, t) == turn' = [turn EXCEPT ![q] = t]

-----------------------------------------------------------------------------
(* The candidate loop                                                      *)

\* The turn begins.  Without an enabled pool it goes straight to the upstream.
Begin(q) ==
    /\ turn[q].phase = "idle"
    /\ \E pool \in SUBSET Relays, pin \in Relays \cup {Nobody}, sticky \in BOOLEAN :
       \E order \in SetToSeqs(pool) :
          /\ Admissible(order, pool, pin)
          /\ Become(q, [turn[q] EXCEPT
                !.phase = IF pool = {} THEN "bypass" ELSE "pick",
                !.order = order, !.pin = pin, !.sticky = sticky, !.seen = primary])
    /\ UNCHANGED <<cooling, primary>>

\* A candidate that fails the URL guard is rejected before any fetch.
Reject(q) ==
    LET t == turn[q] IN
    /\ t.phase = "pick"
    /\ t.pos <= Len(t.order)
    /\ Current(t) \in Malformed
    /\ Become(q, Rolled(Reported(t)))
    /\ UNCHANGED <<cooling, primary>>

CanHedge(t) == HasNext(t) /\ {Current(t), Following(t)} \cap cooling = {}

\* The fetch to a candidate; whether it may be hedged is settled here.
Send(q) ==
    LET t == turn[q] IN
    /\ t.phase = "pick"
    /\ t.pos <= Len(t.order)
    /\ Current(t) \notin Malformed
    /\ Become(q, [Sent(t, Current(t)) EXCEPT !.phase = IF CanHedge(t) THEN "grace" ELSE "solo"])
    /\ UNCHANGED <<cooling, primary>>

\* HEDGE_GRACE_MS without headers.
Hedge(q) ==
    LET t == turn[q] IN
    /\ t.phase = "grace"
    /\ Become(q, IF Following(t) \in Malformed
                 THEN [t EXCEPT !.phase = "solo"]
                 ELSE [Sent(t, Following(t)) EXCEPT !.phase = "race"])
    /\ UNCHANGED <<cooling, primary>>

\* An open leg has brought headers with this answer.
Answered(q, r, v) ==
    /\ turn[q].phase \in {"solo", "grace", "race"}
    /\ r \in Open(turn[q])
    /\ ~turn[q].aborted
    /\ v \in Heard

\* 504: the relay is marked and the response dropped.
GatewayTimeout(q, r) ==
    LET t == Received(turn[q], r, "504") IN
    /\ Answered(q, r, "504")
    /\ Penalise({r})
    /\ Become(q, Rolled(Reported(Blamed([t EXCEPT !.bodies = @ \ {r}], r))))
    /\ UNCHANGED primary

\* An edge 404, a disabled deployment and the retriable statuses: the relay is
\* marked and its answer kept.
RelayFault(q, r, v) ==
    LET t == Received(turn[q], r, v) IN
    /\ Answered(q, r, v)
    /\ v \in Faults \ ({"504"} \cup Refused)
    /\ Penalise({r})
    /\ Become(q, Rolled(Reported(Blamed(
            [Held(t, r, v) EXCEPT !.disabled = @ \/ v = "402",
                                  !.rateLimitOnly = @ /\ v = "429"], r))))
    /\ UNCHANGED primary

\* A 403, or the worker's own 401, is no verdict of the upstream.
RelayRefuses(q, r, v) ==
    LET t == Received(turn[q], r, v) IN
    /\ Answered(q, r, v)
    /\ v \in Refused
    /\ Penalise({r})
    /\ Become(q, Rolled(Reported(Blamed([Held(t, r, v) EXCEPT !.rateLimitOnly = FALSE], r))))
    /\ UNCHANGED primary

\* 413 and the first bare 500 of the turn roll without a mark.
RollUnmarked(q, r, v) ==
    LET t == Received(turn[q], r, v) IN
    /\ Answered(q, r, v)
    /\ v = "500" => ~t.sawBare500
    /\ v \in {"413", "500"}
    /\ Become(q, Rolled(Reported(
            [Held(t, r, v) EXCEPT !.sawBare500 = @ \/ v = "500", !.rateLimitOnly = FALSE])))
    /\ UNCHANGED <<cooling, primary>>

\* The second 500 and a shape 429 are returned without a mark.
Surface(q, r, v) ==
    LET t == Received(turn[q], r, v) IN
    /\ Answered(q, r, v)
    /\ v = "500" => t.sawBare500
    /\ v \in {"shape", "500"}
    /\ Become(q, Ended(Held(t, r, v), r, Response(r, v)))
    /\ UNCHANGED <<cooling, primary>>

\* Success, or an answer that is nobody's fault: the relay is cleared, and
\* becomes the primary unless the turn was pinned to it or is not sticky.
Succeed(q, r) ==
    LET t == Received(turn[q], r, "ok") IN
    /\ Answered(q, r, "ok")
    /\ Clear(r)
    /\ primary' = IF t.seen # r /\ t.pin # r /\ t.sticky THEN r ELSE primary
    /\ Become(q, Ended(LastCancelled(t), r, Response(r, "ok")))

\* The error an open leg ends with: the header deadline and the caller's
\* signal abort the fetch, anything else is a network error.
LegFails(q, r, error) ==
    /\ r \in Open(turn[q])
    /\ error \in IF turn[q].aborted THEN {"abort"} ELSE {"abort", "network"}

Failed(t, r) == [t EXCEPT !.legs[r] = IF t.aborted THEN "withdrawn" ELSE "failed"]

CallerCancelled(t, error) == error = "abort" /\ t.aborted

\* The catch of the loop for an attempt without a rival.
FailAlone(q, r, error) ==
    LET t == Failed(turn[q], r) IN
    /\ turn[q].phase \in {"solo", "grace"}
    /\ LegFails(q, r, error)
    /\ IF CallerCancelled(t, error)
       THEN Become(q, Thrown(t)) /\ UNCHANGED cooling
       ELSE /\ Penalise({r})
            /\ Become(q, Rolled(Reported(Blamed([t EXCEPT !.rateLimitOnly = FALSE], r))))
    /\ UNCHANGED primary

\* Mutations: the leg kept instead of its error, the first failure marked at
\* once, and failures not counted.
FailFirstLeg(q, r, error) ==
    LET t == turn[q] IN
    /\ t.phase = "race"
    /\ t.firstError = "none"
    /\ LegFails(q, r, error)
    /\ Become(q, [Failed(t, r) EXCEPT !.firstError = r])
    /\ UNCHANGED <<cooling, primary>>
FailFirstMarked(q, r, error) ==
    LET t == turn[q] IN
    /\ t.phase = "race"
    /\ t.firstError = "none"
    /\ LegFails(q, r, error)
    /\ Penalise({r})
    /\ Become(q, Blamed([Failed(t, r) EXCEPT !.firstError = error], r))
    /\ UNCHANGED primary
FailFirstUncounted(q, r, error) ==
    LET t == turn[q] IN
    /\ t.phase = "race"
    /\ LegFails(q, r, error)
    /\ Become(q, [Failed(t, r) EXCEPT !.firstError = error])
    /\ UNCHANGED <<cooling, primary>>

\* One leg of a race fails, the other is still out.
FailFirst(q, r, error) ==
    LET t == turn[q] IN
    /\ t.phase = "race"
    /\ t.firstError = "none"
    /\ LegFails(q, r, error)
    /\ Become(q, [Failed(t, r) EXCEPT !.firstError = error])
    /\ UNCHANGED <<cooling, primary>>

\* Both legs have failed: the race rejects with the first error, the inner
\* catch marks the hedge leg and the outer one the candidate.
FailBoth(q, r, error) ==
    LET t == Failed(turn[q], r) IN
    /\ turn[q].phase = "race"
    /\ t.firstError # "none"
    /\ LegFails(q, r, error)
    /\ IF CallerCancelled(t, t.firstError)
       THEN Become(q, Thrown(t)) /\ UNCHANGED cooling
       ELSE /\ Penalise({Current(t), Following(t)})
            /\ Become(q, Rolled(Reported(Reported(Blamed(Blamed(
                    [t EXCEPT !.rateLimitOnly = FALSE], Current(t)), Following(t))))))
    /\ UNCHANGED primary

\* The caller aborts its signal, which also closes the bodies it covers.
Abort(q) ==
    /\ turn[q].phase \notin {"idle", "done"}
    /\ ~turn[q].aborted
    /\ Become(q, [turn[q] EXCEPT !.aborted = TRUE, !.bodies = {}])
    /\ UNCHANGED <<cooling, primary>>

-----------------------------------------------------------------------------
(* The direct fallback                                                     *)

Exhaust(q) ==
    LET t == turn[q] IN
    /\ t.phase = "pick"
    /\ t.pos > Len(t.order)
    /\ Become(q, [t EXCEPT !.phase = "direct"])
    /\ UNCHANGED <<cooling, primary>>

\* The upstream answers: a 403 gives way to a rate limit or a bad gateway that
\* a relay answered with.
DirectAnswers(q, v) ==
    LET t == [turn[q] EXCEPT !.bodies = @ \cup {Direct}] IN
    /\ t.phase = "direct"
    /\ ~t.aborted
    /\ v \in {"ok", "403"}
    /\ Become(q, IF v = "403" /\ t.last.status \in Salvaged
                 THEN Ended([t EXCEPT !.bodies = @ \ {Direct}], t.lastRelay, t.last)
                 ELSE Ended(LastCancelled(t), Direct, Response(Direct, v)))
    /\ UNCHANGED <<cooling, primary>>

\* Mutation: the salvage looked at before the disabled relays.
DirectFailsSalvaging(q) ==
    LET t == turn[q] IN
    /\ t.phase = "direct"
    /\ Become(q, IF t.last # NoResponse
                 THEN Ended(t, t.lastRelay, t.last)
                 ELSE IF t.disabled
                 THEN Ended(LastCancelled(t), Direct, Response(Direct, "relay_disabled"))
                 ELSE Thrown(t))
    /\ UNCHANGED <<cooling, primary>>

\* The upstream cannot be reached: a disabled relay is reported as such, else
\* the last answer of a relay is salvaged, else the turn throws.
DirectFails(q) ==
    LET t == turn[q] IN
    /\ t.phase = "direct"
    /\ Become(q, IF t.disabled
                 THEN Ended(LastCancelled(t), Direct, Response(Direct, "relay_disabled"))
                 ELSE IF t.last # NoResponse
                 THEN Ended(t, t.lastRelay, t.last)
                 ELSE Thrown(t))
    /\ UNCHANGED <<cooling, primary>>

\* Relays are disabled or the pool is empty: onServed precedes the fetch.
Bypass(q) ==
    LET t == turn[q] IN
    /\ t.phase = "bypass"
    /\ \/ /\ ~t.aborted
          /\ Become(q, Ended([t EXCEPT !.bodies = {Direct}], Direct, Response(Direct, "ok")))
       \/ Become(q, Thrown([t EXCEPT !.served = Direct]))
    /\ UNCHANGED <<cooling, primary>>

-----------------------------------------------------------------------------
Answer(q, r) ==
    \/ GatewayTimeout(q, r)
    \/ \E v \in Faults : RelayFault(q, r, v) \/ RelayRefuses(q, r, v)
    \/ \E v \in {"413", "500"} : RollUnmarked(q, r, v)
    \/ \E v \in {"shape", "500"} : Surface(q, r, v)
    \/ Succeed(q, r)

Fail(q, r) ==
    \E error \in {"abort", "network"} :
        \/ FailAlone(q, r, error)
        \/ FailFirst(q, r, error)
        \/ FailBoth(q, r, error)

Step(q) ==
    \/ Reject(q) \/ Send(q) \/ Hedge(q)
    \/ \E r \in Relays : Answer(q, r) \/ Fail(q, r)
    \/ Exhaust(q) \/ DirectFails(q) \/ Bypass(q)
    \/ \E v \in {"ok", "403"} : DirectAnswers(q, v)

Next ==
    \/ \E q \in Turns : Begin(q) \/ Step(q) \/ Abort(q)
    \/ Expire /\ UNCHANGED <<primary, turn>>

Spec == Init /\ [][Next]_vars

\* Every fetch to a relay meets its header deadline, the fetch to the upstream
\* the deadline of the HTTP client, and the loop runs on between them.
FairSpec == Spec /\ \A q \in Turns : WF_vars(Step(q))

-----------------------------------------------------------------------------
(* Properties                                                              *)

\* Once the turn is over every response it received was returned or had its
\* body cancelled, and the body returned is open; before that at most the one
\* kept for salvage is open (src/relay.ts, "would otherwise hold its connection
\* out of the shared relay agent until GC").
BodiesSettled ==
    \A q \in Turns :
        LET t == turn[q] IN
        IF t.phase # "done"
        THEN t.bodies \subseteq {t.last.from}
        ELSE t.aborted \/ t.bodies =
               IF t.result.status \in {"thrown", "relay_disabled"} THEN {} ELSE {t.result.from}

\* onServed names the relay whose response the caller gets, whether that is the
\* one just received, a salvaged one or the upstream's: the reasoning of a
\* conversation is readable by that relay alone.
ServedIsIssuer ==
    \A q \in Turns :
        turn[q].phase = "done" /\ turn[q].result.status # "thrown"
            => turn[q].served = turn[q].result.from

\* "never surface the raw Vercel 402 to the host", by any path through rolls,
\* salvage and fallback.
NoRawDisabled == \A q \in Turns : turn[q].result.status # "402"

\* A relay is marked by a turn at most once, and only for its own answer or
\* error: the loser of a race, aborted before headers, is never marked, nor is
\* a relay whose answer is the request's or the model's fault; and no answer
\* that is the relay's fault goes unmarked.
BlameJustified ==
    \A q \in Turns, r \in Relays :
        /\ turn[q].blame[r] <= 1
        /\ turn[q].blame[r] = 1 => turn[q].legs[r] \in Faults \cup {"failed", "withdrawn"}
        /\ turn[q].legs[r] \in Faults => turn[q].blame[r] = 1

\* A request is never sent to the same relay twice ("so the loser is never
\* retried in this request").
NeverResent ==
    [][\A q \in Turns, r \in Relays :
           turn'[q].legs[r] = "open" /\ turn[q].legs[r] # "open"
               => turn[q].legs[r] = "none"]_vars

\* Whatever answers, hedges, aborts and other turns do, a turn asks each usable
\* candidate before it gives up on the relays, and returns the answer of a relay
\* it asked or of the upstream (Failover): no skip after a race ever swallows a
\* candidate that was not in it.
Promise == INSTANCE Failover WITH
    Unusable <- Malformed,
    pool <- [q \in Turns |-> Range(turn[q].order)],
    asked <- [q \in Turns |-> {r \in Relays : turn[q].legs[r] # "none"}],
    cancelled <- {q \in Turns : turn[q].aborted},
    over <- {q \in Turns : turn[q].phase = "done"},
    from <- [q \in Turns |-> turn[q].result.from]
ImplementsFailover == Promise!Spec

\* Every turn ends, whatever relays and upstream do.
TurnEnds == \A q \in Turns : turn[q].phase # "idle" ~> turn[q].phase = "done"
=============================================================================
