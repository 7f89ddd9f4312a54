----------------------------- MODULE StreamPipe -----------------------------
(***************************************************************************)
(* How an upstream body reaches the host: pipeUpstreamStream of            *)
(* src/stream-pipe.ts.  The body is an event stream, something else that   *)
(* is passed through, or not yet known; an event stream is forwarded block *)
(* by block, ends with exactly one terminal marker if all goes well, and   *)
(* may once be handed over to a replacement: when it breaks off before     *)
(* that marker, or when it carries a failure that is held back meanwhile.  *)
(*                                                                         *)
(* An error of a Node stream is followed by `close` in the same tick,      *)
(* before anything awaited by the error handler goes on: StreamErrors is   *)
(* both handlers in that order.  An abort of the proxy's own is impossible *)
(* here, as the timers of the request are cleared with its headers.  The   *)
(* events of a stream that is being replaced are ignored and not modelled, *)
(* nor is what happens to a stream once the response has ended, except     *)
(* for the close that trails an error.                                     *)
(***************************************************************************)
EXTENDS CallAudit, SequencesExt

CONSTANTS
    Relays,        \* relays of the pool
    Direct,        \* an upstream asked without a relay
    Unknown,       \* no relay is named to the pipe: the Kilo lane
    Deltas         \* what an upstream sends of calls; arguments if not Silent

ASSUME PipeAssumption ==
    /\ Deltas \subseteq [idx : Indices, id : CallIds \cup {NoId}, name : Seq(Pieces), args : Seq(Nat)]
    /\ {Direct, Unknown} \cap Relays = {}
    /\ \E c \in Pieces : <<c>> \notin Injected \cup Repairable

VARIABLE pipe

Backends == Relays \cup {Direct}

\* Blocks of an event stream.  `limit` and `limited` are retriable rate limits,
\* the second in a terminal event; `fault` is a transient failure of the model,
\* `done` any other terminal event, `tool` a call the cloak has no part in.
Plain(kind) == [kind |-> kind, d |-> Delta(0, NoId, Unnamed, Silent)]
CallFrame(d) == [kind |-> "call", d |-> d]
Absent == Plain("none")

Final(f) == f.kind \in {"limited", "fault", "done"}        \* checkTerminalEvent
RateLimited(f) == f.kind \in {"limit", "limited"}          \* isRetriableRateLimitFrame
ModelFault(f) == f.kind = "fault"                          \* isTransientModelFailureFrame

Cloaks == {"none", "chat", "messages", "responses"}

Kinds == {"text", "tool", "call", "finish", "limit", "limited", "fault", "done"}

\* A response without a pipe yet, or at all.
NoPipe == [
    stream |-> "none",        \* none, open, or closed: no event of it is to come
    from   |-> Unknown,       \* the backend of the current stream
    leg    |-> 1,             \* 2: the replacement
    blame  |-> Unknown,       \* relayUrl
    hook   |-> FALSE,         \* opts.refire
    gate   |-> "undecided",   \* bodyGate
    chunks |-> 0,
    most   |-> 0,             \* bound: chunks of a stream before it falls silent
    tail   |-> Absent,        \* the block sseBuffer holds
    cloak  |-> "none",        \* the cloak that applies, by the path: chat, messages or responses
    k      |-> CloakStart,    \* cloakState, for chat
    b      |-> BlocksStart,   \* cloakState, for messages and responses
    heard  |-> <<>>,          \* what the host makes of the calls
    agg    |-> AggregateStart,\* what a caller that does not stream would get
    aud    |-> <<>>,          \* opts.audit: the calls it has observed
    tool   |-> FALSE,         \* sawToolCall
    terminal |-> FALSE,       \* hasTerminalEvent
    marks  |-> 0,             \* markRelayFailure calls
    told   |-> FALSE,         \* the host was sent a terminal event
    held   |-> Absent,        \* heldFailureChunk
    pending |-> "no",         \* refirePending, and who waits for it
    used   |-> FALSE,         \* refireUsed
    verdict |-> "none",       \* recordOnce
    upEnded |-> FALSE, aborted |-> FALSE,
    stall  |-> FALSE,         \* the stall cut is armed
    paused |-> FALSE,         \* the host does not read
    ended  |-> FALSE,         \* res.end
    gone   |-> FALSE]         \* the host has hung up

PipeTypeOK ==
    /\ DOMAIN pipe = DOMAIN NoPipe
    /\ pipe.stream \in {"none", "open", "closed"}
    /\ {pipe.from, pipe.blame} \subseteq Backends \cup {Unknown}
    /\ pipe.leg \in 1..2 /\ pipe.most \in Nat /\ pipe.chunks \in 0..2*pipe.most
    /\ pipe.gate \in {"sse", "raw", "undecided"}
    /\ {pipe.tail.kind, pipe.held.kind} \subseteq Kinds \cup {"none"}
    /\ pipe.cloak \in Cloaks /\ IsCloak(pipe.k) /\ AreBlocks(pipe.b)
    /\ \A i \in DOMAIN pipe.heard : pipe.heard[i] \in Heard
    /\ \A i \in DOMAIN pipe.aud : pipe.aud[i] \in Heard
    /\ pipe.pending \in {"no", "hold", "end", "error", "close"}
    /\ pipe.verdict \in {"none", "ok", "failed"}
    /\ pipe.marks \in 0..2
    /\ \A b \in {"hook", "tool", "terminal", "told", "used", "upEnded", "aborted", "stall",
                 "paused", "ended", "gone"} : pipe[b] \in BOOLEAN

-----------------------------------------------------------------------------
(* Writing to the host                                                     *)

Reached(p) == ~p.ended /\ ~p.gone

Heed(p, f, out) ==
    IF Reached(p) THEN [p EXCEPT !.heard = Hears(@, out), !.told = @ \/ Final(f)]
    ELSE p

\* A failure may be held while a replacement is asked for, once a turn and
\* never after a tool call.
MayHold(p) ==
    /\ p.pending = "no" /\ p.held = Absent
    /\ ~p.tool /\ ~p.aborted /\ ~p.used /\ p.hook /\ Reached(p)

\* opts.audit.observe, of the calls in a block.
Observed(p, f, out) ==
    CASE p.cloak = "none" -> p
      [] p.cloak = "responses" ->
           IF f.kind = "call" THEN [p EXCEPT !.aud = ObserveResponses(@, f.d)] ELSE p
      [] OTHER -> [p EXCEPT !.aud = ObserveFragments(@, p.cloak, out)]

\* forwardText: one block, as the cloak left it.
Forward(p, f, out) ==
    LET q == [p EXCEPT !.tool = @ \/ f.kind = "tool" \/ out # Nothing]
    IN CASE p.pending # "no" -> p
         [] p.pending = "no" /\ ~p.terminal /\ (RateLimited(f) \/ ModelFault(f)) /\ MayHold(q) ->
              [q EXCEPT !.held = f, !.pending = "hold", !.used = TRUE]
         [] OTHER -> Heed(Observed([q EXCEPT !.terminal = @ \/ Final(f)], f, out), f, out)

\* rewriteSseBlock: the pipe after an event of a call, and what is sent of it.
Rewriting(p, d) ==
    LET chat == Rewrite(p.k, d)
        other == IF p.cloak = "messages" THEN RewriteMessages(p.b, d) ELSE RewriteResponses(p.b, d)
    IN IF p.cloak = "chat"
       THEN [p |-> [p EXCEPT !.k = chat.k, !.agg = Aggregate(@, p.k, d)], out |-> chat.out]
       ELSE [p |-> [p EXCEPT !.b = other.b, !.agg = AggregateBlock(@, p.b, d)], out |-> other.out]

\* The same of what is withheld, if the cloak withholds anything.
Releasing(p) ==
    LET chat == Released(p.k)
        other == HeldReleased(p.b)
    IN CASE p.cloak = "chat" -> [p |-> [p EXCEPT !.k = chat.k], out |-> chat.out]
         [] p.cloak = "messages" -> [p |-> [p EXCEPT !.b = other.b], out |-> other.out]
         [] OTHER -> [p |-> p, out |-> Nothing]

\* Blocks before which a stream has to send what it withholds.
Closing(p, f) == f.kind = "finish" \/ (p.cloak = "messages" /\ f.kind = "done")

\* A complete block: rewritten, and forwarded unless nothing is left of it.
Block(p, f) ==
    LET event == Rewriting(p, f.d)
        last == Releasing(p)
    IN CASE f.kind = "none" -> p
         [] f.kind = "call" -> IF event.out = Nothing THEN event.p ELSE Forward(event.p, f, event.out)
         [] Closing(p, f) -> Forward(last.p, f, last.out)
         [] f.kind = "done" /\ p.cloak = "responses" ->
              Forward([p EXCEPT !.agg = Completed(@)], f, Nothing)
         [] OTHER -> Forward(p, f, Nothing)

\* The arguments that a cut stream would never release.
FlushArgs(p) ==
    LET r == Releasing(p) IN IF r.out # Nothing THEN Forward(r.p, Plain("text"), r.out) ELSE p

-----------------------------------------------------------------------------
(* The end of a turn                                                       *)

Record(p, v) == IF p.verdict = "none" THEN [p EXCEPT !.verdict = v] ELSE p
Marked(p) == IF p.blame \in Relays THEN [p EXCEPT !.marks = @ + 1] ELSE p
Ended(p) == [p EXCEPT !.ended = TRUE]

\* ensureTerminalEvent: the terminal event the upstream owes.
Ensure(p, penalize) ==
    LET r == IF p.aborted THEN p ELSE Record(p, "failed")
        b == IF penalize THEN Marked(r) ELSE r
    IN IF p.terminal \/ p.ended THEN p
       ELSE IF p.chunks > 0 THEN Heed([b EXCEPT !.terminal = TRUE], Plain("done"), Nothing) ELSE b

\* tryRefire, as far as the call of the hook.
\* Mutation: a turn with tool calls is resumed as well.
MayRefireTools(p) == ~p.aborted /\ ~p.used /\ p.hook /\ Reached(p)
MayRefire(p) == ~p.aborted /\ ~p.used /\ p.hook /\ ~p.tool /\ Reached(p)
Refiring(p, who) == [p EXCEPT !.pending = who, !.used = TRUE]

\* onClose, for a stream that had no error.
OnClose(p) ==
    LET q == FlushArgs(p)
    IN IF q.gate # "sse" THEN Ended(IF q.aborted \/ q.upEnded THEN q ELSE Marked(q))
       ELSE IF q.terminal \/ q.chunks = 0 THEN Ended(q)
       ELSE IF q.aborted \/ q.upEnded THEN Ended(Ensure(q, FALSE))
       ELSE IF MayRefire(q) THEN Refiring(q, "close")
       ELSE Ended(Ensure(q, TRUE))

\* onError, and the close that trails it.  If nothing was received and no
\* replacement is to be had, the close ends the response before the error
\* handler comes to the relay's mark.
OnError(p) ==
    IF p.gate # "sse" THEN Marked(Ended(Marked(p)))
    ELSE IF MayRefire(p) THEN Refiring(p, "error")
    ELSE LET q == FlushArgs(p) IN IF q.chunks = 0 THEN Ended(q) ELSE Ended(Ensure(q, TRUE))

\* The block left over at the end is forwarded if it has a terminal marker or
\* lacks nothing but its blank line.
Leftover(p, whole) ==
    LET q == [p EXCEPT !.tail = Absent] IN IF Final(p.tail) \/ whole THEN Block(q, p.tail) ELSE q

\* Mutation: the terminal event is left to the close.
OnEndBare(p, whole) ==
    LET q == FlushArgs(Leftover([p EXCEPT !.upEnded = TRUE, !.stall = FALSE], whole))
    IN IF p.gate = "sse" /\ q.pending # "no" THEN q ELSE Ended(q)

OnEnd(p, whole) ==
    LET e == [p EXCEPT !.upEnded = TRUE, !.stall = FALSE]
        q == FlushArgs(Leftover(e, whole))
    IN IF p.gate # "sse" THEN Ended(e)
       ELSE IF q.pending # "no" THEN q
       ELSE IF q.terminal THEN Ended(Record(q, "ok"))
       ELSE IF q.chunks = 0 THEN Ended(q)
       ELSE IF MayRefire(q) THEN Refiring(q, "end")
       ELSE Ended(Ensure(q, FALSE))

-----------------------------------------------------------------------------
(* The replacement                                                         *)

\* A held failure is what the upstream had to say, and delivered as such.
Unheld(p) ==
    LET q == [p EXCEPT !.held = Absent] IN
    IF p.held = Absent \/ p.ended THEN q
    ELSE Heed([q EXCEPT !.terminal = @ \/ Final(p.held)], p.held, Nothing)

RescueFailed(p) ==
    LET q == [p EXCEPT !.pending = "no"]
    IN CASE p.pending = "hold" -> Ended(Ensure(Unheld(q), FALSE))
         [] p.pending = "end" -> Ended(Ensure(q, FALSE))
         [] OTHER -> Ended(Ensure(q, TRUE))

\* The turn goes on with the stream of another backend.  The stall cut is
\* armed for it only if no failure was held.
Replaced(p, b) ==
    [p EXCEPT !.stream = "open", !.from = b, !.leg = 2, !.pending = "no",
              !.held = Absent, !.tail = Absent, !.agg = AggregateStart, !.paused = FALSE,
              !.upEnded = FALSE, !.stall = p.pending # "hold"]

Rescued(p, b) == IF p.gone \/ p.aborted THEN RescueFailed(p) ELSE Replaced(p, b)

\* Mutation: the stall cut is armed for event streams only.
PipingUnguarded(b, blame, hook, gate, cloak, most) ==
    [NoPipe EXCEPT !.stream = "open", !.from = b, !.blame = blame, !.hook = hook,
                   !.gate = gate, !.cloak = cloak, !.most = most, !.stall = gate = "sse"]

\* pipeUpstreamStream, called with an answer of the given content type.
Piping(b, blame, hook, gate, cloak, most) ==
    [NoPipe EXCEPT !.stream = "open", !.from = b, !.blame = blame, !.hook = hook,
                   !.gate = gate, !.cloak = cloak, !.most = most, !.stall = TRUE]

-----------------------------------------------------------------------------
(* Events of the stream and of the host                                    *)

\* The stream is being forwarded; no replacement is awaited.
Watched == pipe.stream = "open" /\ pipe.pending = "no" /\ ~pipe.ended

\* What may come in a chunk after the block `before`.  A call is given the number
\* of the chunk as its fragment.  Assumed of upstreams: calls are over with the
\* finish reason, and with a failure in the same chunk.
CallsOver(p, before) ==
    \/ \E c \in DOMAIN p.k.calls : p.k.calls[c].flushed
    \/ RateLimited(before) \/ ModelFault(before)
    \/ p.cloak # "chat" /\ p.terminal

Numbered(p, d) == [d EXCEPT !.args = IF @ = Silent THEN Silent ELSE <<p.chunks>>]

\* Where calls are announced, under an index of their own in each stream: any
\* call may begin, and any that has begun may go on or stop.
Ordinary == CHOOSE name \in {<<c>> : c \in Pieces} : name \notin Injected \cup Repairable

Announced(p) ==
    LET next == Cardinality(DOMAIN p.agg.calls)
        said(i) == IF p.cloak = "responses" THEN p.agg.calls[i] ELSE [name |-> Unnamed, args |-> Silent]
    IN {Part("start", i, name, Silent) : i \in {next} \cap Indices,
                                         name \in Injected \cup Repairable \cup {Ordinary}}
       \cup {Part("more", i, Unnamed, <<p.chunks>>) : i \in p.agg.open}
       \cup {Part("stop", i, said(i).name, said(i).args) : i \in p.agg.open}

Calls(p) == IF p.cloak = "chat" THEN {Numbered(p, d) : d \in Deltas} ELSE Announced(p)

Frames(p, before) ==
    {Plain(kind) : kind \in {"text", "limit", "limited", "fault", "done"}}
    \cup (IF p.cloak = "none" THEN {Plain("tool")} ELSE {})
    \cup (IF p.cloak \in {"chat", "messages"} THEN {Plain("finish")} ELSE {})
    \cup (IF p.cloak = "none" \/ CallsOver(p, before) THEN {} ELSE {CallFrame(d) : d \in Calls(p)})

Quiet(p) == p.chunks >= p.leg * p.most

\* A chunk completes the block begun before it and brings another, perhaps
\* without its end.  The host may be too slow for it; bound: not under the cloak.
DataArrives ==
    /\ Watched /\ ~Quiet(pipe) /\ ~pipe.paused /\ pipe.gate = "sse"
    /\ LET p == Block([pipe EXCEPT !.chunks = @ + 1, !.tail = Absent], pipe.tail)
       IN \E f \in Frames(p, pipe.tail), unfinished, slow \in BOOLEAN :
            LET q == IF unfinished THEN [p EXCEPT !.tail = f] ELSE Block(p, f)
            IN /\ slow => q.cloak = "none" /\ q.pending = "no" /\ (~unfinished \/ pipe.tail # Absent)
               /\ pipe' = [q EXCEPT !.paused = slow]

\* Without a content type the body is judged by its start.
DataUnjudged ==
    /\ Watched /\ ~Quiet(pipe) /\ pipe.gate = "undecided"
    /\ LET p == [pipe EXCEPT !.chunks = @ + 1]
       IN \/ pipe' = p
          \/ pipe' = [p EXCEPT !.gate = "raw"]
          \/ \E f \in Frames(p, Absent) : pipe' = Block([p EXCEPT !.gate = "sse"], f)

DataPassed ==
    /\ Watched /\ ~Quiet(pipe) /\ ~pipe.paused /\ pipe.gate = "raw"
    /\ \E slow \in BOOLEAN : pipe' = [pipe EXCEPT !.chunks = @ + 1, !.paused = slow]

HostReads ==
    /\ Watched /\ pipe.paused
    /\ pipe' = [pipe EXCEPT !.paused = FALSE]

\* The handlers are done with a stream that has closed.
Closed(p) == [p EXCEPT !.stream = "closed", !.stall = FALSE]

StreamErrors == Watched /\ pipe' = Closed(OnError(pipe))

\* The stream closes without an error or an end.
StreamCloses == Watched /\ pipe' = Closed(OnClose(pipe))

StreamEnds ==
    /\ Watched /\ ~pipe.paused
    /\ \E whole \in BOOLEAN :
         /\ whole => pipe.tail # Absent
         /\ pipe' = Closed(OnEnd(pipe, whole))

\* fireStallCut: nothing was forwarded for bodyStallCutMs.
StallCut == Watched /\ pipe.stall /\ pipe' = Closed(OnError([pipe EXCEPT !.stall = FALSE]))

HostLeaves ==
    /\ pipe.stream # "none" /\ ~pipe.ended /\ ~pipe.gone
    /\ LET p == [pipe EXCEPT !.gone = TRUE, !.aborted = @ \/ pipe.stream = "open"]
       IN pipe' = IF pipe.pending = "no" THEN Closed(OnClose(p)) ELSE p

PipeEvent ==
    \/ DataArrives \/ DataUnjudged \/ DataPassed \/ HostReads
    \/ StreamErrors \/ StreamCloses \/ StreamEnds \/ HostLeaves

-----------------------------------------------------------------------------
(* Properties                                                              *)

\* A host that got any of an event stream gets a terminal event with it,
\* whichever way the stream broke: without one it waits for the rest of the
\* turn.  (ensureTerminalEvent, and the hold of failures)
TerminalOwed ==
    pipe.ended /\ ~pipe.gone /\ pipe.gate = "sse" /\ pipe.chunks > 0 => pipe.told

\* Once a tool call has been forwarded the turn is never generated again: the
\* host would execute the call twice.  (sawToolCall, over two handlers, a tail
\* and a flush that may forward calls just before the offer)
ToolsOnce == [][pipe'.leg > pipe.leg => ~pipe.tool]_pipe

\* What a host assembles from the stream is what the aggregation makes of the
\* same events: as many calls, each with all of its arguments and its name,
\* placeholders taken out; also if the stream was cut.  Calls of chat are named
\* in one of the shapes known, Responses are aggregated from the object that
\* completes them, and no call takes the index of a placeholder of the stream
\* that was replaced, unless it has an id of its own.  (rewriteSseBlock, flushBufferedToolArgs, convertSseToJson)
SameCall(heard, call) == heard.args = call.args /\ IsPrefix(call.name, heard.name)

Comparable(p) == ~p.agg.odd /\ (p.cloak = "responses" => p.agg.whole)

StreamedAsAggregated ==
    pipe.ended /\ ~pipe.gone /\ pipe.cloak # "none" /\ pipe.gate = "sse" /\ Comparable(pipe) =>
      /\ Cardinality(DOMAIN pipe.heard) = Cardinality(Aggregated(pipe.agg))
      /\ \A c \in Aggregated(pipe.agg) :
           \E i \in DOMAIN pipe.heard : SameCall(pipe.heard[i], pipe.agg.calls[c])

\* The record of a streamed turn has the arguments of every call, each once,
\* and accuses the model of nothing that the same answer read as a whole would
\* not show: at least if all calls have arguments, as the release of a call
\* without any repeats its name.  (forwardText, which decides what the recorder
\* observes of the rewritten stream)
Declared == Repairable \cup {Ordinary}

AuditAgrees ==
    pipe.ended /\ ~pipe.gone /\ pipe.cloak # "none" /\ pipe.gate = "sse" /\ Comparable(pipe) =>
      LET recorded == {pipe.aud[i] : i \in DOMAIN pipe.aud}
          answered == {pipe.agg.calls[c] : c \in Aggregated(pipe.agg)}
      IN /\ Cardinality(DOMAIN pipe.aud) = Cardinality(Aggregated(pipe.agg))
         /\ {c.args : c \in recorded} = {c.args : c \in answered}
         /\ "empty_arguments" \notin Failures(answered, Declared)
              => Failures(recorded, Declared) = Failures(answered, Declared)

=============================================================================
