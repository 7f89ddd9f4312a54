------------------------------- MODULE HostTurn -------------------------------
(***************************************************************************)
(* The turns of one conversation of a host, as src/proxy.ts and            *)
(* src/proxy-lanes.ts serve them: the lane of the model, the failover of   *)
(* refused sessions, the relays and the direct path behind them, the       *)
(* retries that drop reasoning no backend can read, and the hand-over to   *)
(* StreamPipe with its one replacement.  Composes StreamPipe, Reasoning    *)
(* and UpstreamGates.                                                      *)
(*                                                                         *)
(* The host asks one turn after the other.  relayFetch is what Failover    *)
(* promises of it: an answer of some backend, reported as the one that     *)
(* served, or an exception.  A turn that is turned away before its body is *)
(* read changes nothing and is left out.                                   *)
(***************************************************************************)
EXTENDS StreamPipe, Reasoning, UpstreamGates

CONSTANT Settings        \* conversations, each with its bounds

\* A conversation: the lane of its model, whether it is one of Responses, wants
\* streams, and is answered by tool calls that are cloaked, and whether the user opted in to the
\* failover of refused sessions.  Bounds: its turns, the items it may hold, and
\* the chunks of a stream before it falls silent.
SettingType == [lane : {"zen", "paid", "kilo", "cline", "ovh"}, responses : BOOLEAN,
                streams : BOOLEAN, cloak : Cloaks, optIn : BOOLEAN, turns : Nat,
                items : SUBSET Items, chunks : Nat]

ASSUME TurnAssumption == Settings \subseteq SettingType

VARIABLES
    setting,   \* the conversation
    origin,    \* the host's history: the backend of each item
    aged,      \* items that no backend knows any longer
    mem,       \* what the daemon remembers of the conversation
    asked,     \* turns asked so far
    turn       \* the turn under way

turnVars == <<setting, origin, aged, mem, asked, turn, pipe, ug>>

Idle == [
    phase  |-> "idle",      \* idle, fetching, reading a body, or piping
    path   |-> "none",      \* who is asked: relay, direct, kilo or chat
    stage  |-> "first",     \* first, portable, bare: which body; or clamped
    body   |-> NoHistory,   \* bodyForUpstream
    sent   |-> NoHistory,   \* the body under way
    served |-> Unknown,     \* servedIssuer
    canary |-> FALSE,       \* isCanary
    href   |-> "compat",    \* the URL of the direct path
    renewed |-> FALSE,      \* the stale user agent was replaced
    shown  |-> "none"]      \* what the host has been answered

Shown == {"none", "ok", "mismatch", "expired", "gate", "forbidden", "limited", "absent", "stale",
          "bad"}

TypeOK ==
    /\ PipeTypeOK /\ GatesTypeOK
    /\ setting \in Settings
    /\ DOMAIN origin \subseteq Items /\ \A i \in DOMAIN origin : origin[i] \in Backends
    /\ aged \subseteq Items
    /\ mem \in [issuer : Backends \cup {Unset}, blobs : SUBSET Items, ids : SUBSET Items]
    /\ asked \in 0..setting.turns
    /\ DOMAIN turn = DOMAIN Idle
    /\ turn.phase \in {"idle", "fetching", "reading", "piping"}
    /\ turn.path \in {"none", "relay", "direct", "kilo", "chat"}
    /\ turn.stage \in {"first", "portable", "bare", "clamped"}
    /\ {turn.body, turn.sent} \subseteq Body
    /\ turn.served \in Backends \cup {Unknown}
    /\ turn.href \in {"compat", "plain"} /\ turn.shown \in Shown
    /\ {turn.canary, turn.renewed} \subseteq BOOLEAN

\* requestBody: the host sends all it has.
Base == [items |-> DOMAIN origin, blobs |-> DOMAIN origin]

\* Bound: the gates are followed only where something reads them.
Gates(outcomes) == IF setting.optIn THEN outcomes ELSE {ug}

-----------------------------------------------------------------------------
(* Asking                                                                  *)

\* What is sent to `backend` in the first place, by a turn that recalls m.
Addressed(t, path, m, backend) ==
    LET b == IF setting.responses THEN ForUpstream(Base, m, backend) ELSE NoHistory
    IN [t EXCEPT !.phase = "fetching", !.path = path, !.stage = "first", !.body = b, !.sent = b,
                 !.href = "compat"]

\* The blobs of the backend it leaves are never replayed.
Leaving(m, backend) ==
    IF setting.responses /\ IssuerChanged(m, backend) THEN RememberRejectedReasoning(m, Base) ELSE m

\* The turn goes to the direct path, on whatever ground.
Directly(t) ==
    \E m \in Recalls(mem) :
      /\ turn' = Addressed(t, "direct", m, Direct)
      /\ mem' = Leaving(m, Direct)

\* The first candidate is the issuer if it is healthy, or any relay.
ByRelay(t) ==
    \E m \in Recalls(mem), first \in Relays :
      /\ turn' = Addressed(t, "relay", m, first)
      /\ mem' = Leaving(m, first)

Elsewhere(t, path) ==
    /\ turn' = [t EXCEPT !.phase = "fetching", !.path = path]
    /\ UNCHANGED mem

\* Only free models leave by the pool, and those of Cline do not.
IsRelayEligibleModel == setting.lane \in {"zen", "kilo", "ovh"}

\* The lane of the model, unless the session fails over to Kilo.  The pool may
\* be off, or kept out of by the sidecar.
HostAsks ==
    LET decided == IF setting.optIn /\ setting.lane = "zen"
                   THEN ClassifyZenFailover(ug, ~setting.responses /\ asked > 0)
                   ELSE [route |-> "passthrough", g |-> ug]
        t == [Idle EXCEPT !.canary = decided.route = "canary"]
    IN /\ turn.phase = "idle" /\ asked < setting.turns
       /\ asked' = asked + 1
       /\ ug' = decided.g
       /\ \/ decided.route = "failover" /\ Elsewhere(t, "kilo")
          \/ /\ decided.route # "failover" /\ setting.lane \in {"zen", "paid"}
             /\ IsRelayEligibleModel /\ ByRelay(t)
          \/ decided.route # "failover" /\ setting.lane \in {"zen", "paid"} /\ Directly(t)
          \/ setting.lane = "kilo" /\ Elsewhere(t, "kilo")
          \/ setting.lane \in {"cline", "ovh"} /\ Elsewhere(t, "chat")
       /\ UNCHANGED <<setting, origin, aged, pipe>>

-----------------------------------------------------------------------------
(* What comes back                                                         *)

\* Of a backend of Zen: what it cannot read it refuses, the rest it serves; it
\* may refuse either for other reasons.
Refusals == {"gate", "forbidden", "limited", "absent", "stale", "bad"}
Verdicts(b, backend) ==
    LET cannot == Unreadable(b, backend, origin, aged)
    IN Refusals \cup (IF cannot = {} THEN {"ok"} ELSE cannot)

\* Mutation: an expired item is not looked for once the blobs were dropped.
ResentOnce(t, answer) ==
    CASE t.stage = "first" /\ answer = "mismatch" ->
           {[t EXCEPT !.stage = "portable", !.sent = StripReasoningEncryption(Base)]}
      [] t.stage = "first" /\ answer = "expired" ->
           {[t EXCEPT !.stage = "bare", !.sent = StripUnresolvableReasoning(Base)]}
      [] OTHER -> {}

\* retryWithoutReasoningEncryption: what is sent once more after an answer.
Resent(t, answer) ==
    CASE t.stage = "first" /\ answer = "mismatch" ->
           {[t EXCEPT !.stage = "portable", !.sent = StripReasoningEncryption(Base)]}
      [] t.stage = "first" /\ answer = "expired" ->
           {[t EXCEPT !.stage = "bare", !.sent = StripUnresolvableReasoning(Base)]}
      [] t.stage = "portable" /\ answer = "expired" ->
           {[t EXCEPT !.stage = "bare", !.sent = StripUnresolvableReasoning(t.sent)]}
      [] OTHER -> {}

\* What the answer to a retry teaches: all blobs were refused, whatever it is;
\* and the ids an expiry names.
Learnt(t, answer) ==
    LET m == IF t.stage = "portable" THEN RememberRejectedReasoning(mem, Base) ELSE mem
    IN IF t.stage \in {"first", "portable"} /\ answer = "expired"
       THEN RememberRejectedReasoningIds(m, Expired(t.sent, aged)) ELSE m

\* The backend that served is remembered.
Issued(m, answer, backend) ==
    IF setting.responses /\ answer = "ok" THEN RememberIssuerRelay(m, backend) ELSE m

\* Successes, and the refusals of the direct path only.
Taught(t, answer, backend) ==
    CASE answer = "ok" -> RecordUpstreamSuccess(ug, TRUE, t.canary)
      [] answer = "gate" /\ backend = Direct ->
           {RememberGateRejection(g) : g \in RecordUpstreamFailure(ug, TRUE)}
      [] answer = "forbidden" /\ backend = Direct -> RecordUpstreamFailure(ug, FALSE)
      [] OTHER -> {ug}

\* The body is read as a whole and shown, or piped; what else the turn knew is
\* of no more use, but for the body the replacement of a stream is asked with.
Reading(t, answer) ==
    [Idle EXCEPT !.phase = "reading", !.path = t.path, !.served = t.served, !.canary = t.canary,
                 !.shown = answer]

Piped(t, answer, hook) ==
    [Idle EXCEPT !.phase = "piping", !.canary = t.canary, !.shown = answer,
                 !.body = IF hook THEN t.body ELSE NoHistory]

\* streamCloak: only requests to Zen declare placeholders to hide again.
StreamCloakOf(t) == IF t.path \in {"relay", "direct"} THEN setting.cloak ELSE "none"

Delivered(t, answer, backend, blame, hook, contents) ==
    \/ /\ setting.streams /\ contents # {}
       /\ turn' = Piped(t, answer, hook)
       /\ \E gate \in contents :
            pipe' = Piping(backend, blame, hook, gate, StreamCloakOf(t), setting.chunks)
    \/ /\ ~setting.streams \/ contents = {}
       /\ turn' = Reading(t, answer)
       /\ UNCHANGED pipe

Contents(answer) == IF answer = "ok" THEN {"sse", "raw", "undecided"} ELSE {}

\* The request is out, under its deadline and the host's hang-up.
Fetching(path) == turn.phase = "fetching" /\ turn.path = path

\* Some more of the same fetch.
Resend(ts, answer) ==
    /\ turn' \in ts
    /\ mem' = Learnt(turn, answer)
    /\ UNCHANGED <<setting, origin, aged, asked, pipe, ug>>

RelayAnswers ==
    /\ Fetching("relay")
    /\ \E backend \in Backends : \E answer \in Verdicts(turn.sent, backend) :
         LET t == [turn EXCEPT !.served = backend]
             more == IF setting.responses THEN Resent(t, answer) ELSE {}
         IN \/ more # {} /\ Resend(more, answer)
            \/ /\ more = {}
               /\ mem' = Issued(Learnt(turn, answer), answer, backend)
               /\ ug' \in Gates(Taught(turn, answer, backend))
               /\ Delivered(t, answer, backend, backend, TRUE, Contents(answer))
               /\ UNCHANGED <<setting, origin, aged, asked>>

\* An exception, and nothing has been sent: the direct path.
RelayThrows ==
    /\ Fetching("relay")
    /\ Directly(turn)
    /\ UNCHANGED <<setting, origin, aged, asked, pipe, ug>>

\* The plain URL if the other does not know the path, and a new user agent if
\* ours is too old, once each; every later request goes to the first URL.
Redirected(t, answer) ==
    CASE t.stage = "first" /\ answer = "absent" /\ t.href = "compat" /\ ~t.renewed ->
           {[t EXCEPT !.href = "plain"]}
      [] t.stage = "first" /\ answer = "stale" /\ ~t.renewed ->
           {[t EXCEPT !.href = "compat", !.renewed = TRUE]}
      [] OTHER -> {}

\* Errors are buffered, or piped as they are; a user agent may be found current.
DirectAnswers ==
    /\ Fetching("direct")
    /\ \E answer \in Verdicts(turn.sent, Direct) :
         LET t == [turn EXCEPT !.served = Direct]
             more == Redirected(t, answer) \cup
                     (IF setting.responses THEN Resent([t EXCEPT !.href = "compat"], answer) ELSE {})
         IN \/ more # {} /\ Resend(more, answer)
            \/ /\ more = {} \/ answer = "stale"
               /\ mem' = Issued(Learnt(turn, answer), answer, Direct)
               /\ ug' \in Gates(Taught(turn, answer, Direct))
               /\ Delivered(t, answer, Direct, Direct, FALSE,
                            IF answer \in {"limited", "gate", "forbidden"} THEN {}
                            ELSE IF answer = "ok" THEN Contents(answer) ELSE {"raw"})
               /\ UNCHANGED <<setting, origin, aged, asked>>

DirectThrows ==
    /\ Fetching("direct")
    /\ turn' = Idle
    /\ UNCHANGED <<setting, origin, aged, mem, asked, pipe, ug>>

-----------------------------------------------------------------------------
(* The other lanes                                                         *)

\* Kilo: through the relays, which the pipe is not told; a request that is too
\* large is sent once more with fewer tokens, and only a success counts then.
KiloAnswers ==
    /\ Fetching("kilo")
    /\ \E backend \in Backends, answer \in {"ok", "limited", "bad"} :
         \/ /\ turn.stage = "first" /\ answer = "bad"
            /\ turn' = [turn EXCEPT !.stage = "clamped"]
            /\ UNCHANGED <<pipe, ug>>
         \/ LET verdict == IF turn.stage = "clamped" /\ answer # "ok" THEN "bad" ELSE answer
            IN /\ ug' \in Gates(IF verdict = "ok" THEN RecordKiloSuccess(ug, TRUE) ELSE {ug})
               /\ Delivered(turn, verdict, backend, Unknown, FALSE, Contents(verdict))
    /\ UNCHANGED <<setting, origin, aged, mem, asked>>

\* An exception of the first request is a 502; one of the second is ignored.
KiloThrows ==
    /\ Fetching("kilo")
    /\ turn' = IF turn.stage = "clamped" THEN Reading(turn, "bad") ELSE Idle
    /\ UNCHANGED <<setting, origin, aged, mem, asked, pipe, ug>>

\* Cline and OVH: chat only, so that Responses are translated from the whole
\* body.  Cline has no relays, but the roll of ClineRoll.
Spoken(answer) == IF setting.responses THEN {} ELSE Contents(answer)

ClineAnswers ==
    /\ Fetching("chat") /\ setting.lane = "cline"
    /\ \E answer \in {"ok", "limited", "bad"} :
         Delivered(turn, answer, Direct, Direct, FALSE, Spoken(answer))
    /\ UNCHANGED <<setting, origin, aged, mem, asked, ug>>

\* A stream without text or call, read as a whole, is an error, lest the host
\* take it for a finished turn; one that is piped is not looked at.
Starved(answer) ==
    IF answer # "empty" THEN answer
    ELSE IF setting.streams /\ ~setting.responses THEN "ok" ELSE "bad"

OvhAnswers ==
    /\ Fetching("chat") /\ setting.lane = "ovh"
    /\ \E backend \in Backends, answer \in {"ok", "empty", "limited", "bad"} :
         Delivered(turn, Starved(answer), backend, backend, FALSE, Spoken(Starved(answer)))
    /\ UNCHANGED <<setting, origin, aged, mem, asked, ug>>

ChatThrows ==
    /\ Fetching("chat")
    /\ turn' = Idle
    /\ UNCHANGED <<setting, origin, aged, mem, asked, pipe, ug>>

-----------------------------------------------------------------------------
(* Bodies that are read as a whole                                         *)

\* The host keeps what an answer adds to the conversation.
Kept(backend) ==
    IF setting.lane \in {"zen", "paid"} /\ setting.items \ DOMAIN origin # {}
    THEN LET i == CHOOSE i \in setting.items \ DOMAIN origin : TRUE IN (i :> backend) @@ origin
    ELSE origin

BodyRead ==
    /\ turn.phase = "reading"
    /\ turn' = Idle
    /\ origin' = IF turn.shown = "ok" /\ turn.served \in Backends THEN Kept(turn.served) ELSE origin
    /\ UNCHANGED <<setting, aged, mem, asked, pipe, ug>>

\* The catch of the relay path does not ask what threw.
BodyBreaks ==
    /\ turn.phase = "reading"
    /\ \/ turn.path = "relay" /\ Directly([turn EXCEPT !.shown = "none"])
       \/ turn.path # "relay" /\ turn' = Idle /\ UNCHANGED mem
    /\ UNCHANGED <<setting, origin, aged, asked, pipe, ug>>

\* The host hangs up while nothing is piped: whatever is under way is aborted,
\* or goes on for nobody.
HostAborts ==
    /\ turn.phase \in {"fetching", "reading"}
    /\ turn' = Idle
    /\ UNCHANGED <<setting, origin, aged, mem, asked, pipe, ug>>

-----------------------------------------------------------------------------
(* Bodies that are piped                                                   *)

\* The refire hook is called as soon as the pipe asks; it sends the body of the
\* turn again, and marks the relay.
Asking ==
    /\ turn' = IF pipe.pending = "no" /\ pipe'.pending # "no"
               THEN [turn EXCEPT !.stage = "first", !.sent = turn.body] ELSE turn
    /\ UNCHANGED <<setting, origin, aged, mem, asked, ug>>

PipeStep == turn.phase = "piping" /\ PipeEvent /\ Asking
PipeStalls == turn.phase = "piping" /\ StallCut /\ Asking

Refires == turn.phase = "piping" /\ pipe.pending # "no"

\* Of the refusals of a replacement only those of the history differ.
RefireVerdicts(backend) == Verdicts(turn.sent, backend) \ (Refusals \ {"bad"})

\* Mutation: the backend of the replacement is not remembered.
RefireAnswersOnly ==
    /\ Refires
    /\ \E backend \in Backends : \E answer \in RefireVerdicts(backend) :
         LET more == IF setting.responses THEN Resent(turn, answer) ELSE {}
         IN \/ more # {} /\ Resend(more, answer)
            \/ /\ more = {}
               /\ turn' = Piped(turn, turn.shown, FALSE)
               /\ mem' = Learnt(turn, answer)
               /\ ug' \in Gates(IF answer = "ok" THEN RecordUpstreamSuccess(ug, TRUE, turn.canary) ELSE {ug})
               /\ pipe' = IF answer = "ok" THEN Rescued(pipe, backend) ELSE RescueFailed(pipe)
               /\ UNCHANGED <<setting, origin, aged, asked>>

RefireAnswers ==
    /\ Refires
    /\ \E backend \in Backends : \E answer \in RefireVerdicts(backend) :
         LET more == IF setting.responses THEN Resent(turn, answer) ELSE {}
         IN \/ more # {} /\ Resend(more, answer)
            \/ /\ more = {}
               /\ turn' = Piped(turn, turn.shown, FALSE)
               /\ mem' = Issued(Learnt(turn, answer), answer, backend)
               /\ ug' \in Gates(IF answer = "ok" THEN RecordUpstreamSuccess(ug, TRUE, turn.canary) ELSE {ug})
               /\ pipe' = IF answer = "ok" THEN Rescued(pipe, backend) ELSE RescueFailed(pipe)
               /\ UNCHANGED <<setting, origin, aged, asked>>

RefireThrows ==
    /\ Refires
    /\ pipe' = RescueFailed(pipe)
    /\ turn' = Piped(turn, turn.shown, FALSE)
    /\ UNCHANGED <<setting, origin, aged, mem, asked, ug>>

\* The pipe is done; the host keeps an item of either backend that it heard.  Kilo is
\* asked for no blobs.
PipeOver ==
    /\ turn.phase = "piping" /\ pipe.pending = "no" /\ pipe.ended
    /\ turn' = Idle
    /\ \/ origin' = origin
       \/ /\ turn.shown = "ok" /\ ~pipe.gone /\ pipe.blame # Unknown
          /\ \E backend \in {pipe.from, pipe.blame} : origin' = Kept(backend)
    /\ pipe' = NoPipe
    /\ UNCHANGED <<setting, aged, mem, asked, ug>>

-----------------------------------------------------------------------------
(* The world around the turns                                              *)

ItemAges ==
    /\ turn.phase = "idle"
    /\ \E i \in DOMAIN origin \ aged : aged' = aged \cup {i}
    /\ UNCHANGED <<setting, origin, mem, asked, turn, pipe, ug>>

\* The daemon is replaced; a turn under way was aborted before.
DaemonRestarts ==
    /\ turn.phase = "idle"
    /\ \E saved \in {Unset, mem.issuer} \cup {origin[i] : i \in DOMAIN origin} : mem' = Restarted(saved)
    /\ ug' \in Gates({GatesRestarted(ug)})
    /\ UNCHANGED <<setting, origin, aged, asked, turn, pipe>>

OthersStep ==
    /\ setting.optIn
    /\ GatesStep
    /\ UNCHANGED <<setting, origin, aged, mem, asked, turn, pipe>>

\* A conversation that the daemon knows nothing of, with any past.
Init ==
    /\ setting \in Settings
    /\ origin \in UNION {[s -> Backends] : s \in SUBSET setting.items}
    /\ aged \in SUBSET DOMAIN origin
    /\ mem = Fresh /\ ug = GatesStart
    /\ asked = 0 /\ turn = Idle /\ pipe = NoPipe

Next ==
    \/ HostAsks
    \/ RelayAnswers \/ RelayThrows \/ DirectAnswers \/ DirectThrows
    \/ KiloAnswers \/ KiloThrows \/ ClineAnswers \/ OvhAnswers \/ ChatThrows
    \/ BodyRead \/ BodyBreaks \/ HostAborts
    \/ PipeStep \/ PipeStalls \/ RefireAnswers \/ RefireThrows \/ PipeOver
    \/ ItemAges \/ DaemonRestarts \/ OthersStep

Answered ==
    \/ RelayAnswers \/ RelayThrows \/ DirectAnswers \/ DirectThrows
    \/ KiloAnswers \/ KiloThrows \/ ClineAnswers \/ OvhAnswers \/ ChatThrows

\* Requests time out before their headers, except those to Cline, which have no
\* timer, the stall cut fires, and what is done is finished.  Hosts and
\* upstreams owe nothing.  Of the stall cut it is said that it does not stay
\* armed for ever, which is weak fairness of PipeStalls: that is enabled while
\* it is armed, and disarms it.
Fairness ==
    /\ WF_turnVars(setting.lane # "cline" /\ Answered)
    /\ WF_turnVars(RefireAnswers \/ RefireThrows)
    /\ []<>~(turn.phase = "piping" /\ Watched /\ pipe.stall)
    /\ WF_turnVars(PipeOver)

Spec == Init /\ [][Next]_turnVars /\ Fairness

-----------------------------------------------------------------------------
(* Properties                                                              *)

\* The backend remembered as the issuer is the one whose stream the host has
\* been left with: the next turn goes where its reasoning can be read.  What Kilo
\* streams for a refused session has no reasoning to be read.  (the calls of
\* rememberIssuerRelay, of the request and of its replacement)
IssuerServed ==
    turn.phase = "piping" /\ setting.responses /\ setting.lane \in {"zen", "paid"}
      /\ turn.shown = "ok" /\ pipe.blame # Unknown /\ pipe.ended /\ ~pipe.gone
    => mem.issuer = pipe.from

\* The host is never shown that a backend cannot read its history, whatever
\* it holds and wherever the turn goes.  (retryWithoutReasoningEncryption)
HistoryHealed == turn.shown \notin {"mismatch", "expired"}

\* A turn ends, however silent its upstream: unless Cline is asked, its body is
\* read as a whole, or it replaces a stream that was held, which nothing
\* limits.  (the timers of the requests and of the pipe)
Unlimited ==
    \/ turn.phase = "fetching" /\ setting.lane = "cline"
    \/ turn.phase = "reading"
    \/ pipe.leg = 2 /\ ~pipe.stall

TurnEnds == turn.phase # "idle" ~> (turn.phase = "idle" \/ Unlimited)

=============================================================================
