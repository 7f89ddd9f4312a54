---------------------------- MODULE HostTurnProofs ----------------------------
(***************************************************************************)
(* Proofs about HostTurn and what it is composed of, for any conversation, *)
(* any relays, and streams of any length.                                  *)
(***************************************************************************)
EXTENDS HostTurn, TLAPS, FiniteSetTheorems

PipeFields ==
    {"stream", "from", "leg", "blame", "hook", "gate", "chunks", "most", "tail", "cloak", "k", "b",
     "heard", "agg", "aud", "tool", "terminal", "marks", "told", "held", "pending", "used",
     "verdict", "upEnded", "aborted", "stall", "paused", "ended", "gone"}

\* A record with the fields of the pipe.
IsPipe(p) == p = [field \in PipeFields |-> p[field]]

\* Of every pipe: whoever was sent a terminal event knows; a replacement is only asked for
\* while no tool call went out; and only a host that is gone aborts.
Steady(p) ==
    /\ IsPipe(p) /\ p.chunks \in Nat /\ p.leg \in {1, 2}
    /\ p.terminal /\ ~p.gone => p.told
    /\ p.pending # "no" => ~p.tool
    /\ p.aborted => p.gone

\* Of one that is being forwarded or replaced.
Live(p) == Steady(p) /\ ~p.ended

\* TerminalOwed, of one pipe.
Owed(p) == p.ended /\ ~p.gone /\ p.gate = "sse" /\ p.chunks > 0 => p.told

PipeInv(p) == Steady(p) /\ Owed(p) /\ (p.pending # "no" => ~p.ended)

\* What the handling of a block leaves alone.
Keeps(p, q) ==
    /\ q.from = p.from /\ q.leg = p.leg /\ q.blame = p.blame /\ q.gate = p.gate
    /\ q.chunks = p.chunks /\ q.gone = p.gone /\ q.aborted = p.aborted

\* What the bookkeeping of calls leaves alone, besides.
Unmoved(p, q) ==
    /\ Keeps(p, q) /\ q.ended = p.ended /\ q.tool = p.tool /\ q.terminal = p.terminal
    /\ q.told = p.told /\ q.pending = p.pending

\* What an event of the stream leaves alone.
Stays(p, q) ==
    q.from = p.from /\ q.leg = p.leg /\ q.blame = p.blame /\ (p.gone => q.gone)

TurnFields ==
    {"phase", "path", "stage", "body", "sent", "served", "canary", "href", "renewed", "shown"}

\* A record with the fields of a turn, one with those of the memory.
IsTurn(t) == t = [field \in TurnFields |-> t[field]]
IsMemory(m) == m = [field \in {"issuer", "blobs", "ids"} |-> m[field]]

\* The gate of the daemon, its file, and whether that was written by another.
GateSound(g) ==
    IF g.moved THEN ~g.file.gated
    ELSE g.file.gated = g.mem.gated /\ (g.mem.gated => g.file.due = g.mem.due)

GateStates == [mem : Gate, file : Gate, moved : BOOLEAN, rejected : BOOLEAN]
GateInv(g) == g \in GateStates /\ GateSound(g)

\* What is sent once more has less in it that a backend could fail to read.
SentInv ==
    turn.phase = "fetching" /\ turn.path \in {"relay", "direct"} =>
        /\ turn.stage \in {"first", "portable", "bare"}
        /\ ~setting.responses => turn.sent = NoHistory
        /\ turn.stage = "portable" => turn.sent.blobs = {}
        /\ turn.stage = "bare" => turn.sent = NoHistory

\* The issuer is the backend of the stream as soon as that is piped.
IssuerInv ==
    turn.phase = "piping" /\ setting.responses /\ setting.lane \in {"zen", "paid"}
      /\ turn.shown = "ok" /\ pipe.blame # Unknown /\ ~pipe.gone
    => mem.issuer = pipe.from

\* The inductive invariant.
IInv ==
    /\ IsTurn(turn) /\ IsMemory(mem) /\ PipeInv(pipe) /\ GateInv(ug)
    /\ SentInv /\ IssuerInv /\ HistoryHealed

-----------------------------------------------------------------------------
(* Blocks of a stream                                                      *)

\* The bookkeeping of calls does not touch what PipeInv is about.
LEMMA UnmovedLive ==
    ASSUME NEW p, NEW q, Live(p), IsPipe(q), Unmoved(p, q)
    PROVE  Live(q)
BY DEF Live, Steady, Unmoved, Keeps

\* What is left alone twice is left alone.
LEMMA KeepsTransitive ==
    ASSUME NEW p, NEW q, NEW r, Keeps(p, q), Keeps(q, r)
    PROVE  Keeps(p, r)
BY DEF Keeps

\* What is heeded may be told; nothing else changes.
LEMMA HeedFacts ==
    ASSUME NEW p, IsPipe(p), NEW f, NEW out
    PROVE  /\ IsPipe(Heed(p, f, out)) /\ Keeps(p, Heed(p, f, out))
           /\ Heed(p, f, out).ended = p.ended
           /\ Heed(p, f, out).tool = p.tool /\ Heed(p, f, out).terminal = p.terminal
           /\ Heed(p, f, out).pending = p.pending
           /\ p.told => Heed(p, f, out).told
           /\ Reached(p) /\ Final(f) => Heed(p, f, out).told
BY ZenonT(40) DEF IsPipe, PipeFields, Heed, Keeps

\* The record of calls is beside the pipe.
LEMMA ObservedFacts ==
    ASSUME NEW p, IsPipe(p), NEW f, NEW out
    PROVE  IsPipe(Observed(p, f, out)) /\ Unmoved(p, Observed(p, f, out))
BY ZenonT(40) DEF IsPipe, PipeFields, Observed, Keeps, Unmoved

\* A block that is forwarded, or whose failure is held.
LEMMA ForwardFacts ==
    ASSUME NEW p, Live(p), NEW f, NEW out
    PROVE  /\ Live(Forward(p, f, out)) /\ Keeps(p, Forward(p, f, out))
           /\ ~RateLimited(f) /\ ~ModelFault(f) => Forward(p, f, out).pending = p.pending
<1> DEFINE q == [p EXCEPT !.tool = @ \/ f.kind = "tool" \/ out # Nothing]
           h == [q EXCEPT !.held = f, !.pending = "hold", !.used = TRUE]
           t == [q EXCEPT !.terminal = @ \/ Final(f)]
           o == Observed(t, f, out)
           e == Heed(o, f, out)
<1>1. CASE p.pending # "no"
  BY <1>1 DEF Forward, Keeps
<1>2. CASE p.pending = "no"
  <2>1. IsPipe(p)
    BY DEF Live, Steady
  <2>2. /\ IsPipe(q) /\ Keeps(p, q) /\ q.ended = p.ended /\ q.terminal = p.terminal
        /\ q.told = p.told /\ q.pending = p.pending
    BY <2>1 DEF IsPipe, PipeFields, Keeps
  <2>3. Forward(p, f, out) =
            IF ~p.terminal /\ (RateLimited(f) \/ ModelFault(f)) /\ MayHold(q) THEN h ELSE e
    BY <1>2 DEF Forward
  <2> HIDE DEF q
  <2>4. /\ IsPipe(h) /\ Keeps(q, h) /\ h.ended = q.ended /\ h.terminal = q.terminal
        /\ h.told = q.told /\ h.tool = q.tool
    BY ZenonT(40), <2>2 DEF IsPipe, PipeFields, Keeps
  <2>5. /\ IsPipe(t) /\ Keeps(q, t) /\ t.ended = q.ended /\ t.told = q.told
        /\ t.pending = q.pending /\ (t.terminal <=> q.terminal \/ Final(f))
    BY <2>2 DEF IsPipe, PipeFields, Keeps
  <2> HIDE DEF h, t
  <2>6. IsPipe(o) /\ Unmoved(t, o)
    BY <2>5, ObservedFacts
  <2> HIDE DEF o
  <2>7. /\ IsPipe(e) /\ Keeps(o, e) /\ e.ended = o.ended /\ e.terminal = o.terminal
        /\ e.pending = o.pending
        /\ o.told => e.told
        /\ Reached(o) /\ Final(f) => e.told
    BY <2>6, HeedFacts
  <2> HIDE DEF e
  <2>8. CASE ~p.terminal /\ (RateLimited(f) \/ ModelFault(f)) /\ MayHold(q)
    BY <1>2, <2>2, <2>3, <2>4, <2>8 DEF Live, Steady, Keeps, MayHold
  <2>9. CASE ~(~p.terminal /\ (RateLimited(f) \/ ModelFault(f)) /\ MayHold(q))
    BY <1>2, <2>2, <2>3, <2>5, <2>6, <2>7, <2>9 DEF Live, Steady, Keeps, Unmoved, Reached
  <2> QED
    BY <2>8, <2>9
<1> QED
  BY <1>1, <1>2

\* An event of a call, and what is withheld of calls.
LEMMA RewritingFacts ==
    ASSUME NEW p, IsPipe(p), NEW d
    PROVE  IsPipe(Rewriting(p, d).p) /\ Unmoved(p, Rewriting(p, d).p)
BY ZenonT(40) DEF IsPipe, PipeFields, Rewriting, Keeps, Unmoved

\* So is what the cloak withholds.
LEMMA ReleasingFacts ==
    ASSUME NEW p, IsPipe(p)
    PROVE  IsPipe(Releasing(p).p) /\ Unmoved(p, Releasing(p).p)
BY ZenonT(40) DEF IsPipe, PipeFields, Releasing, Keeps, Unmoved

\* A complete block.
LEMMA BlockFacts ==
    ASSUME NEW p, Live(p), NEW f
    PROVE  Live(Block(p, f)) /\ Keeps(p, Block(p, f))
<1> DEFINE e == Rewriting(p, f.d).p
           l == Releasing(p).p
           c == [p EXCEPT !.agg = Completed(@)]
<1>1. IsPipe(p)
  BY DEF Live, Steady
<1>2. Live(e) /\ Keeps(p, e)
  BY <1>1, RewritingFacts, UnmovedLive DEF Unmoved
<1>3. Live(l) /\ Keeps(p, l)
  BY <1>1, ReleasingFacts, UnmovedLive DEF Unmoved
<1>4. Live(c) /\ Keeps(p, c)
  <2>1. IsPipe(c) /\ Unmoved(p, c)
    BY <1>1 DEF IsPipe, PipeFields, Keeps, Unmoved
  <2> HIDE DEF c
  <2> QED
    BY <2>1, UnmovedLive DEF Unmoved
<1>5. \/ Block(p, f) \in {p, e}
      \/ \E out : Block(p, f) \in {Forward(e, f, out), Forward(l, f, out), Forward(c, f, out),
                                    Forward(p, f, out)}
  BY DEF Block
<1> HIDE DEF e, l, c
<1>6. Keeps(p, p)
  BY DEF Keeps
<1> QED
  BY <1>2, <1>3, <1>4, <1>5, <1>6, ForwardFacts, KeepsTransitive

\* The arguments that are released at the end are text: no replacement is asked for.
LEMMA FlushFacts ==
    ASSUME NEW p, Live(p)
    PROVE  Live(FlushArgs(p)) /\ Keeps(p, FlushArgs(p)) /\ FlushArgs(p).pending = p.pending
<1> DEFINE r == Releasing(p).p
<1>1. Live(r) /\ Unmoved(p, r)
  BY ReleasingFacts, UnmovedLive DEF Live, Steady
<1>2. ~RateLimited(Plain("text")) /\ ~ModelFault(Plain("text"))
  BY DEF RateLimited, ModelFault, Plain
<1>3. \E out : FlushArgs(p) \in {p, Forward(r, Plain("text"), out)}
  BY DEF FlushArgs
<1> HIDE DEF r
<1> QED
  BY <1>1, <1>2, <1>3, ForwardFacts DEF Unmoved, Keeps

-----------------------------------------------------------------------------
(* The end of a stream, and its replacement                                *)

\* The outcome and the relay's mark.
LEMMA RecordFacts ==
    ASSUME NEW p, IsPipe(p), NEW v
    PROVE  /\ IsPipe(Record(p, v)) /\ Unmoved(p, Record(p, v))
           /\ IsPipe(Marked(p)) /\ Unmoved(p, Marked(p))
BY ZenonT(40) DEF IsPipe, PipeFields, Record, Marked, Keeps, Unmoved

\* What does not move twice has not moved.
LEMMA UnmovedTransitive ==
    ASSUME NEW p, NEW q, NEW r, Unmoved(p, q), Unmoved(q, r)
    PROVE  Unmoved(p, r)
BY DEF Unmoved, Keeps

\* A response that ends: nothing but that changes.
LEMMA EndedFacts ==
    ASSUME NEW p, IsPipe(p)
    PROVE  /\ IsPipe(Ended(p)) /\ Keeps(p, Ended(p)) /\ Ended(p).ended = TRUE
           /\ Ended(p).tool = p.tool /\ Ended(p).terminal = p.terminal
           /\ Ended(p).told = p.told /\ Ended(p).pending = p.pending
BY DEF IsPipe, PipeFields, Ended, Keeps

\* ... which is right for a response that owes nothing and is not to be replaced.
LEMMA EndedInv ==
    ASSUME NEW p, Steady(p), p.pending = "no", p.gate = "sse" /\ p.chunks > 0 /\ ~p.gone => p.told
    PROVE  PipeInv(Ended(p)) /\ Keeps(p, Ended(p))
<1>1. IsPipe(p)
  BY DEF Steady
<1> QED
  BY <1>1, EndedFacts DEF PipeInv, Steady, Owed, Keeps

\* ensureTerminalEvent leaves nothing owed.
LEMMA EnsureFacts ==
    ASSUME NEW p, Live(p), NEW penalize
    PROVE  /\ Live(Ensure(p, penalize)) /\ Keeps(p, Ensure(p, penalize))
           /\ Ensure(p, penalize).pending = p.pending
           /\ p.chunks > 0 /\ ~p.gone => Ensure(p, penalize).told
<1> DEFINE r == IF p.aborted THEN p ELSE Record(p, "failed")
           b == IF penalize THEN Marked(r) ELSE r
           t == [b EXCEPT !.terminal = TRUE]
           e == Heed(t, Plain("done"), Nothing)
<1>1. IsPipe(p)
  BY DEF Live, Steady
<1>2. IsPipe(r) /\ Unmoved(p, r)
  BY <1>1, RecordFacts DEF Unmoved, Keeps
<1>3. Ensure(p, penalize) = IF p.terminal \/ p.ended THEN p ELSE IF p.chunks > 0 THEN e ELSE b
  BY DEF Ensure
<1> HIDE DEF r
<1>4. IsPipe(b) /\ Unmoved(p, b)
  <2>1. IsPipe(b) /\ Unmoved(r, b)
    BY <1>2, RecordFacts DEF Unmoved, Keeps
  <2> HIDE DEF b
  <2> QED
    BY <1>2, <2>1, UnmovedTransitive
<1> HIDE DEF b
<1>5. Live(b)
  BY <1>4, UnmovedLive
<1>6. /\ IsPipe(t) /\ Keeps(b, t) /\ t.ended = b.ended /\ t.tool = b.tool /\ t.terminal = TRUE
      /\ t.told = b.told /\ t.pending = b.pending
  BY <1>4 DEF IsPipe, PipeFields, Keeps
<1> HIDE DEF t
<1>7. Final(Plain("done"))
  BY DEF Final, Plain
<1>8. /\ IsPipe(e) /\ Keeps(t, e) /\ e.ended = t.ended /\ e.tool = t.tool
      /\ e.terminal = t.terminal /\ e.pending = t.pending
      /\ t.told => e.told
      /\ Reached(t) => e.told
  BY <1>6, <1>7, HeedFacts
<1> HIDE DEF e
<1>9. CASE p.terminal \/ p.ended
  BY <1>3, <1>9 DEF Live, Steady, Keeps
<1>10. CASE ~(p.terminal \/ p.ended) /\ p.chunks > 0
  <2>1. Reached(t) \/ p.gone
    BY <1>4, <1>6, <1>10 DEF Unmoved, Keeps, Reached
  <2>2. Keeps(p, e) /\ e.pending = p.pending /\ ~e.ended
    BY <1>4, <1>6, <1>8, <1>10 DEF Unmoved, Keeps
  <2>3. Live(e)
    BY <1>4, <1>5, <1>6, <1>8, <2>1, <2>2 DEF Live, Steady, Unmoved, Keeps
  <2> QED
    BY <1>3, <1>10, <2>1, <2>2, <2>3, <1>8
<1>11. CASE ~(p.terminal \/ p.ended) /\ ~(p.chunks > 0)
  BY <1>3, <1>4, <1>5, <1>11 DEF Unmoved
<1> QED
  BY <1>9, <1>10, <1>11

\* Ended with the terminal event it owed.
LEMMA EnsuredInv ==
    ASSUME NEW p, Live(p), NEW penalize, p.pending = "no"
    PROVE  /\ PipeInv(Ended(Ensure(p, penalize))) /\ Keeps(p, Ended(Ensure(p, penalize)))
           /\ Ended(Ensure(p, penalize)).ended
<1> DEFINE e == Ensure(p, penalize)
<1>1. Live(e) /\ Keeps(p, e) /\ e.pending = "no" /\ (p.chunks > 0 /\ ~p.gone => e.told)
  BY EnsureFacts
<1> HIDE DEF e
<1>2. PipeInv(Ended(e)) /\ Keeps(e, Ended(e))
  BY <1>1, EndedInv DEF Live, Keeps
<1>3. Keeps(p, Ended(e)) /\ Ended(e).ended
  BY <1>1, <1>2, KeepsTransitive, EndedFacts DEF Live, Steady
<1> QED
  BY <1>2, <1>3 DEF e

\* A replacement is asked for, by a stream that is not over and had no tool call.
LEMMA RefiringInv ==
    ASSUME NEW p, Live(p), MayRefire(p), NEW who
    PROVE  PipeInv(Refiring(p, who)) /\ Keeps(p, Refiring(p, who))
<1>1. IsPipe(p)
  BY DEF Live, Steady
<1>2. /\ IsPipe(Refiring(p, who)) /\ Keeps(p, Refiring(p, who))
      /\ Refiring(p, who).ended = p.ended
      /\ Refiring(p, who).tool = p.tool /\ Refiring(p, who).terminal = p.terminal
      /\ Refiring(p, who).told = p.told
  BY ZenonT(40), <1>1 DEF IsPipe, PipeFields, Keeps, Refiring
<1> QED
  BY <1>2 DEF PipeInv, Live, Steady, Owed, Keeps, MayRefire

\* A stream that closes without an error.
LEMMA OnCloseInv ==
    ASSUME NEW p, Live(p), p.pending = "no"
    PROVE  /\ PipeInv(OnClose(p)) /\ Keeps(p, OnClose(p))
           /\ OnClose(p).ended \/ OnClose(p).pending # "no"
<1> DEFINE q == FlushArgs(p)
           m == IF q.aborted \/ q.upEnded THEN q ELSE Marked(q)
<1>1. Live(q) /\ Keeps(p, q) /\ q.pending = "no" /\ IsPipe(q)
  BY FlushFacts DEF Live, Steady
<1>2. OnClose(p) = IF q.gate # "sse" THEN Ended(m)
                   ELSE IF q.terminal \/ q.chunks = 0 THEN Ended(q)
                   ELSE IF q.aborted \/ q.upEnded THEN Ended(Ensure(q, FALSE))
                   ELSE IF MayRefire(q) THEN Refiring(q, "close")
                   ELSE Ended(Ensure(q, TRUE))
  BY DEF OnClose
<1> HIDE DEF q
<1>3. Live(m) /\ Keeps(q, m) /\ m.pending = "no" /\ IsPipe(m)
  <2>1. IsPipe(m) /\ Unmoved(q, m)
    BY <1>1, RecordFacts DEF Unmoved, Keeps
  <2> HIDE DEF m
  <2> QED
    BY <1>1, <2>1, UnmovedLive DEF Unmoved
<1> HIDE DEF m
<1>4. q.gate # "sse" => PipeInv(Ended(m)) /\ Keeps(m, Ended(m)) /\ Ended(m).ended
  BY <1>3, EndedInv, EndedFacts DEF Live, Keeps
<1>5. q.terminal \/ q.chunks = 0 => PipeInv(Ended(q)) /\ Keeps(q, Ended(q)) /\ Ended(q).ended
  <2>1. Ended(q).ended
    BY <1>1, EndedFacts
  <2> QED
    BY <1>1, <2>1, EndedInv DEF Live, Steady
<1>6. \A penalize : /\ PipeInv(Ended(Ensure(q, penalize))) /\ Keeps(q, Ended(Ensure(q, penalize)))
                    /\ Ended(Ensure(q, penalize)).ended
  BY <1>1, EnsuredInv
<1>7. MayRefire(q) => /\ PipeInv(Refiring(q, "close")) /\ Keeps(q, Refiring(q, "close"))
                      /\ Refiring(q, "close").pending # "no"
  <2>1. Refiring(q, "close").pending = "close"
    BY <1>1 DEF IsPipe, PipeFields, Refiring
  <2> QED
    BY <1>1, <2>1, RefiringInv
<1> QED
  BY <1>1, <1>2, <1>3, <1>4, <1>5, <1>6, <1>7, KeepsTransitive

\* A stream that errs, and its close.
LEMMA OnErrorInv ==
    ASSUME NEW p, Live(p), p.pending = "no"
    PROVE  PipeInv(OnError(p)) /\ Keeps(p, OnError(p))
<1> DEFINE q == FlushArgs(p)
<1>1. Live(q) /\ Keeps(p, q) /\ q.pending = "no" /\ IsPipe(q) /\ IsPipe(p)
  BY FlushFacts DEF Live, Steady
<1>2. OnError(p) = IF p.gate # "sse" THEN Marked(Ended(Marked(p)))
                   ELSE IF MayRefire(p) THEN Refiring(p, "error")
                   ELSE IF q.chunks = 0 THEN Ended(q) ELSE Ended(Ensure(q, TRUE))
  BY DEF OnError
<1> HIDE DEF q
<1>3. CASE p.gate # "sse"
  <2>1. Live(Marked(p)) /\ Unmoved(p, Marked(p))
    BY <1>1, RecordFacts, UnmovedLive
  <2>2. PipeInv(Ended(Marked(p))) /\ Keeps(Marked(p), Ended(Marked(p)))
    BY <1>3, <2>1, EndedInv DEF Live, Unmoved, Keeps
  <2>3. IsPipe(Ended(Marked(p)))
    BY <2>2 DEF PipeInv, Steady
  <2>4. /\ IsPipe(Marked(Ended(Marked(p))))
        /\ Unmoved(Ended(Marked(p)), Marked(Ended(Marked(p))))
    BY <2>3, RecordFacts
  <2>5. PipeInv(Marked(Ended(Marked(p))))
    BY <2>2, <2>4 DEF PipeInv, Steady, Owed, Unmoved, Keeps
  <2> QED
    BY <1>2, <1>3, <2>1, <2>2, <2>4, <2>5, KeepsTransitive DEF Unmoved
<1>4. MayRefire(p) => PipeInv(Refiring(p, "error")) /\ Keeps(p, Refiring(p, "error"))
  BY RefiringInv
<1>5. q.chunks = 0 => PipeInv(Ended(q)) /\ Keeps(q, Ended(q))
  BY <1>1, EndedInv DEF Live, Steady
<1>6. PipeInv(Ended(Ensure(q, TRUE))) /\ Keeps(q, Ended(Ensure(q, TRUE)))
  BY <1>1, EnsuredInv
<1> QED
  BY <1>1, <1>2, <1>3, <1>4, <1>5, <1>6, KeepsTransitive

\* A stream that ends, with a block left over or not.
LEMMA OnEndInv ==
    ASSUME NEW p, Live(p), p.pending = "no", NEW whole
    PROVE  PipeInv(OnEnd(p, whole)) /\ Keeps(p, OnEnd(p, whole))
<1> DEFINE e == [p EXCEPT !.upEnded = TRUE, !.stall = FALSE]
           u == [e EXCEPT !.tail = Absent]
           l == Leftover(e, whole)
           q == FlushArgs(l)
<1>1. OnEnd(p, whole) = IF p.gate # "sse" THEN Ended(e)
                        ELSE IF q.pending # "no" THEN q
                        ELSE IF q.terminal THEN Ended(Record(q, "ok"))
                        ELSE IF q.chunks = 0 THEN Ended(q)
                        ELSE IF MayRefire(q) THEN Refiring(q, "end")
                        ELSE Ended(Ensure(q, FALSE))
  BY DEF OnEnd
<1>2. IsPipe(p)
  BY DEF Live, Steady
<1>3. l \in {u, Block(u, e.tail)}
  BY DEF Leftover
<1> HIDE DEF q, l
<1>4. /\ IsPipe(e) /\ Unmoved(p, e)
      /\ IsPipe(u) /\ Unmoved(p, u)
  BY ZenonT(40), <1>2 DEF IsPipe, PipeFields, Keeps, Unmoved
<1> HIDE DEF e, u
<1>5. Live(e) /\ Live(u) /\ Keeps(p, e) /\ Keeps(p, u)
  BY <1>4, UnmovedLive DEF Unmoved
<1>6. Live(l) /\ Keeps(p, l)
  BY <1>3, <1>5, BlockFacts, KeepsTransitive
<1>7. Live(q) /\ Keeps(p, q) /\ IsPipe(q)
  <2>1. Live(q) /\ Keeps(l, q)
    BY <1>6, FlushFacts DEF q
  <2> QED
    BY <1>6, <2>1, KeepsTransitive DEF Live, Steady
<1>8. p.gate # "sse" => PipeInv(Ended(e)) /\ Keeps(e, Ended(e))
  BY <1>4, <1>5, EndedInv DEF Live, Keeps, Unmoved
<1>9. q.pending # "no" => PipeInv(q)
  BY <1>7 DEF Live, PipeInv, Owed
<1>10. q.pending = "no" /\ q.terminal =>
         PipeInv(Ended(Record(q, "ok"))) /\ Keeps(q, Ended(Record(q, "ok")))
  <2> SUFFICES ASSUME q.pending = "no", q.terminal
               PROVE  PipeInv(Ended(Record(q, "ok"))) /\ Keeps(q, Ended(Record(q, "ok")))
    OBVIOUS
  <2>1. Live(Record(q, "ok")) /\ Unmoved(q, Record(q, "ok"))
    BY <1>7, RecordFacts, UnmovedLive
  <2>2. PipeInv(Ended(Record(q, "ok"))) /\ Keeps(Record(q, "ok"), Ended(Record(q, "ok")))
    BY <2>1, EndedInv DEF Live, Steady, Unmoved, Keeps
  <2> QED
    BY <2>1, <2>2, KeepsTransitive DEF Unmoved
<1>11. q.pending = "no" /\ q.chunks = 0 => PipeInv(Ended(q)) /\ Keeps(q, Ended(q))
  BY <1>7, EndedInv DEF Live, Steady
<1>12. MayRefire(q) => PipeInv(Refiring(q, "end")) /\ Keeps(q, Refiring(q, "end"))
  BY <1>7, RefiringInv
<1>13. q.pending = "no" => PipeInv(Ended(Ensure(q, FALSE))) /\ Keeps(q, Ended(Ensure(q, FALSE)))
  BY <1>7, EnsuredInv
<1>14. \A r : (Keeps(q, r) => Keeps(p, r)) /\ (Keeps(e, r) => Keeps(p, r))
  BY <1>5, <1>7, KeepsTransitive
<1> QED
  BY <1>1, <1>7, <1>8, <1>9, <1>10, <1>11, <1>12, <1>13, <1>14

\* The replacement fails: the host gets what was held, or what is owed.
LEMMA RescueFailedInv ==
    ASSUME NEW p, PipeInv(p), p.pending # "no"
    PROVE  PipeInv(RescueFailed(p)) /\ Keeps(p, RescueFailed(p)) /\ RescueFailed(p).ended
<1> DEFINE q == [p EXCEPT !.pending = "no"]
           n == [q EXCEPT !.held = Absent]
           h == [n EXCEPT !.terminal = @ \/ Final(q.held)]
           u == Unheld(q)
<1>1. IsPipe(p) /\ Live(p)
  BY DEF PipeInv, Steady, Live
<1>2. \/ RescueFailed(p) = Ended(Ensure(u, FALSE))
      \/ \E penalize : RescueFailed(p) = Ended(Ensure(q, penalize))
  BY DEF RescueFailed
<1>3. u = IF q.held = Absent \/ q.ended THEN n ELSE Heed(h, q.held, Nothing)
  BY DEF Unheld
<1> HIDE DEF u
<1>4. /\ IsPipe(q) /\ Keeps(p, q) /\ q.ended = p.ended /\ q.terminal = p.terminal
      /\ q.told = p.told /\ q.pending = "no"
  BY <1>1 DEF IsPipe, PipeFields, Keeps
<1> HIDE DEF q
<1>5. Live(q)
  BY <1>1, <1>4 DEF Live, Steady, Keeps
<1>6. IsPipe(n) /\ Unmoved(q, n)
  BY <1>4 DEF IsPipe, PipeFields, Keeps, Unmoved
<1> HIDE DEF n
<1>7. /\ IsPipe(h) /\ Keeps(n, h) /\ h.ended = n.ended /\ h.told = n.told
      /\ h.pending = n.pending /\ (h.terminal <=> n.terminal \/ Final(q.held))
  BY <1>6 DEF IsPipe, PipeFields, Keeps
<1> HIDE DEF h
<1>8. Live(u) /\ Keeps(q, u) /\ u.pending = "no"
  <2>1. Live(n) /\ Keeps(q, n) /\ n.pending = "no"
    BY <1>4, <1>5, <1>6, UnmovedLive DEF Unmoved
  <2> DEFINE w == Heed(h, q.held, Nothing)
  <2>2. /\ IsPipe(w) /\ Keeps(h, w) /\ w.ended = h.ended /\ w.terminal = h.terminal
        /\ w.pending = h.pending
        /\ h.told => w.told
        /\ Reached(h) /\ Final(q.held) => w.told
    BY <1>7, HeedFacts
  <2>3. u \in {n, w}
    BY <1>3
  <2> HIDE DEF w
  <2>4. Live(w) /\ Keeps(q, w) /\ w.pending = "no"
    BY <1>7, <2>1, <2>2 DEF Live, Steady, Keeps, Reached
  <2> QED
    BY <2>1, <2>3, <2>4
<1>9. /\ PipeInv(Ended(Ensure(u, FALSE))) /\ Keeps(u, Ended(Ensure(u, FALSE)))
      /\ Ended(Ensure(u, FALSE)).ended
  BY <1>8, EnsuredInv
<1>10. \A penalize : /\ PipeInv(Ended(Ensure(q, penalize))) /\ Keeps(q, Ended(Ensure(q, penalize)))
                     /\ Ended(Ensure(q, penalize)).ended
  BY <1>4, <1>5, EnsuredInv
<1> QED
  BY <1>2, <1>4, <1>8, <1>9, <1>10, KeepsTransitive

\* Or the turn goes on with another stream; only then does the leg grow.
LEMMA RescuedInv ==
    ASSUME NEW p, PipeInv(p), p.pending # "no", NEW b
    PROVE  /\ PipeInv(Rescued(p, b))
           /\ Rescued(p, b).gone = p.gone /\ Rescued(p, b).blame = p.blame
           /\ ~p.gone => Rescued(p, b).from = b
<1>1. CASE p.gone \/ p.aborted
  BY <1>1, RescueFailedInv DEF Rescued, PipeInv, Steady, Keeps
<1>2. CASE ~(p.gone \/ p.aborted)
  <2>1. IsPipe(p)
    BY DEF PipeInv, Steady
  <2> DEFINE q == [p EXCEPT !.stream = "open", !.from = b, !.leg = 2, !.pending = "no"]
             r == [q EXCEPT !.held = Absent, !.tail = Absent, !.agg = AggregateStart,
                            !.paused = FALSE]
             t == [r EXCEPT !.upEnded = FALSE, !.stall = p.pending # "hold"]
  <2>2. Rescued(p, b) = t
    BY <1>2 DEF Rescued, Replaced
  <2>3. /\ IsPipe(q) /\ q.from = b /\ q.leg = 2 /\ q.pending = "no" /\ q.gone = p.gone
        /\ q.blame = p.blame /\ q.aborted = p.aborted /\ q.chunks = p.chunks
        /\ q.terminal = p.terminal /\ q.told = p.told /\ q.ended = p.ended
    BY ZenonT(40), <2>1 DEF IsPipe, PipeFields
  <2> HIDE DEF q
  <2>4. IsPipe(r) /\ Unmoved(q, r)
    BY ZenonT(40), <2>3 DEF IsPipe, PipeFields, Unmoved, Keeps
  <2> HIDE DEF r
  <2>5. IsPipe(t) /\ Unmoved(r, t)
    BY ZenonT(40), <2>4 DEF IsPipe, PipeFields, Unmoved, Keeps
  <2> HIDE DEF t
  <2>6. /\ IsPipe(t) /\ t.from = b /\ t.leg = 2 /\ t.pending = "no" /\ t.gone = p.gone
        /\ t.blame = p.blame /\ t.aborted = p.aborted /\ t.chunks = p.chunks
        /\ t.terminal = p.terminal /\ t.told = p.told /\ t.ended = p.ended
    BY <2>3, <2>4, <2>5 DEF Unmoved, Keeps
  <2> QED
    BY <1>2, <2>2, <2>6 DEF PipeInv, Steady, Owed
<1> QED
  BY <1>1, <1>2

-----------------------------------------------------------------------------
(* Events of the stream and of the host                                    *)

\* A pipe that is forwarded, and what a chunk adds before its blocks.
LEMMA WatchedLive ==
    ASSUME PipeInv(pipe), Watched
    PROVE  Live(pipe) /\ pipe.pending = "no" /\ IsPipe(pipe)
BY DEF PipeInv, Watched, Live, Steady

\* A pipe that is being forwarded owes nothing yet.
LEMMA LiveInv ==
    ASSUME NEW p, Live(p)
    PROVE  PipeInv(p) /\ IsPipe(p)
BY DEF PipeInv, Live, Steady, Owed

\* Fields that no invariant is about.
LEMMA SetAside ==
    ASSUME NEW p, IsPipe(p), NEW x
    PROVE  /\ IsPipe([p EXCEPT !.tail = x]) /\ Unmoved(p, [p EXCEPT !.tail = x])
           /\ IsPipe([p EXCEPT !.paused = x]) /\ Unmoved(p, [p EXCEPT !.paused = x])
           /\ IsPipe([p EXCEPT !.stall = x]) /\ Unmoved(p, [p EXCEPT !.stall = x])
BY ZenonT(40) DEF IsPipe, PipeFields, Keeps, Unmoved

\* A chunk that comes, and what it tells of the body.
LEMMA ChunkFacts ==
    ASSUME NEW p, Live(p), NEW x
    PROVE  /\ Live([p EXCEPT !.chunks = @ + 1]) /\ Stays(p, [p EXCEPT !.chunks = @ + 1])
           /\ Live([p EXCEPT !.chunks = @ + 1, !.tail = x])
           /\ Stays(p, [p EXCEPT !.chunks = @ + 1, !.tail = x])
           /\ Live([p EXCEPT !.gate = x]) /\ Stays(p, [p EXCEPT !.gate = x])
<1> DEFINE c == [p EXCEPT !.chunks = @ + 1]
           t == [c EXCEPT !.tail = x]
           g == [p EXCEPT !.gate = x]
<1>1. IsPipe(p)
  BY DEF Live, Steady
<1>2. /\ IsPipe(c) /\ c.chunks = p.chunks + 1 /\ Stays(p, c) /\ c.ended = p.ended
      /\ c.gone = p.gone /\ c.terminal = p.terminal /\ c.told = p.told /\ c.tool = p.tool
      /\ c.pending = p.pending /\ c.aborted = p.aborted
  BY <1>1 DEF IsPipe, PipeFields, Stays
<1> HIDE DEF c
<1>3. Live(c)
  BY <1>2 DEF Live, Steady, Stays
<1>4. IsPipe(t) /\ Unmoved(c, t)
  BY <1>2, SetAside
<1> HIDE DEF t
<1>5. Live(t) /\ Stays(p, t)
  BY <1>2, <1>3, <1>4, UnmovedLive DEF Unmoved, Keeps, Stays
<1>6. /\ IsPipe(g) /\ g.chunks = p.chunks /\ Stays(p, g) /\ g.ended = p.ended
      /\ g.gone = p.gone /\ g.terminal = p.terminal /\ g.told = p.told /\ g.tool = p.tool
      /\ g.pending = p.pending /\ g.aborted = p.aborted
  BY <1>1 DEF IsPipe, PipeFields, Stays
<1> HIDE DEF g
<1>7. Live(g)
  BY <1>6 DEF Live, Steady, Stays
<1> QED
  BY <1>2, <1>3, <1>5, <1>6, <1>7 DEF c, t, g

\* The handling of a block is part of an event.
LEMMA KeepsStays ==
    ASSUME NEW p, NEW q, NEW r, Stays(p, q), Keeps(q, r)
    PROVE  Stays(p, r)
BY DEF Stays, Keeps

\* The handlers are done.
LEMMA ClosedInv ==
    ASSUME NEW p, PipeInv(p)
    PROVE  PipeInv(Closed(p)) /\ Keeps(p, Closed(p))
<1>1. IsPipe(p)
  BY DEF PipeInv, Steady
<1>2. IsPipe(Closed(p)) /\ Unmoved(p, Closed(p))
  BY ZenonT(40), <1>1 DEF IsPipe, PipeFields, Keeps, Unmoved, Closed
<1> QED
  BY <1>2 DEF PipeInv, Steady, Owed, Keeps, Unmoved

\* A chunk of an event stream.
LEMMA DataArrivesInv ==
    ASSUME PipeInv(pipe), DataArrives
    PROVE  PipeInv(pipe') /\ Stays(pipe, pipe')
<1> DEFINE c == [pipe EXCEPT !.chunks = @ + 1, !.tail = Absent]
           p == Block(c, pipe.tail)
<1>1. PICK f \in Frames(p, pipe.tail), unfinished \in BOOLEAN, slow \in BOOLEAN :
         pipe' = [(IF unfinished THEN [p EXCEPT !.tail = f] ELSE Block(p, f)) EXCEPT !.paused = slow]
  BY DEF DataArrives
<1> DEFINE q == IF unfinished THEN [p EXCEPT !.tail = f] ELSE Block(p, f)
<1>2. Live(c) /\ Stays(pipe, c)
  BY WatchedLive, ChunkFacts DEF DataArrives
<1> HIDE DEF c
<1>3. Live(p) /\ Stays(pipe, p)
  BY <1>2, BlockFacts, KeepsStays
<1> HIDE DEF p
<1>4. Live(q) /\ Stays(pipe, q)
  <2>1. Live([p EXCEPT !.tail = f]) /\ Keeps(p, [p EXCEPT !.tail = f])
    BY <1>3, SetAside, UnmovedLive, LiveInv DEF Unmoved
  <2>2. Live(Block(p, f)) /\ Keeps(p, Block(p, f))
    BY <1>3, BlockFacts
  <2> QED
    BY <1>3, <2>1, <2>2, KeepsStays
<1>5. pipe' = [q EXCEPT !.paused = slow]
  BY <1>1
<1> HIDE DEF q
<1>6. Live(pipe') /\ Keeps(q, pipe')
  BY <1>4, <1>5, SetAside, UnmovedLive, LiveInv DEF Unmoved
<1> QED
  BY <1>4, <1>6, LiveInv, KeepsStays

\* A chunk of another body, and a host that reads again.
LEMMA OtherDataInv ==
    ASSUME PipeInv(pipe), DataUnjudged \/ DataPassed \/ HostReads
    PROVE  PipeInv(pipe') /\ Stays(pipe, pipe')
<1> DEFINE c == [pipe EXCEPT !.chunks = @ + 1]
<1>1. Live(pipe) /\ IsPipe(pipe)
  BY WatchedLive DEF DataUnjudged, DataPassed, HostReads
<1>2. Live(c) /\ Stays(pipe, c)
  BY <1>1, ChunkFacts
<1>3. \/ pipe' = c
      \/ \E x : pipe' = [c EXCEPT !.gate = x]
      \/ \E x, f : pipe' = Block([c EXCEPT !.gate = x], f)
      \/ \E x : pipe' = [c EXCEPT !.paused = x]
      \/ \E x : pipe' = [pipe EXCEPT !.paused = x]
  BY DEF DataUnjudged, DataPassed, HostReads
<1> HIDE DEF c
<1>4. \A x : /\ Live([c EXCEPT !.gate = x]) /\ Stays(pipe, [c EXCEPT !.gate = x])
             /\ Live([c EXCEPT !.paused = x]) /\ Stays(pipe, [c EXCEPT !.paused = x])
             /\ Live([pipe EXCEPT !.paused = x]) /\ Stays(pipe, [pipe EXCEPT !.paused = x])
  <2> TAKE x
  <2>1. Live([c EXCEPT !.gate = x]) /\ Stays(c, [c EXCEPT !.gate = x])
    BY <1>2, ChunkFacts
  <2>2. Live([c EXCEPT !.paused = x]) /\ Keeps(c, [c EXCEPT !.paused = x])
    BY <1>2, SetAside, UnmovedLive, LiveInv DEF Unmoved
  <2>3. Live([pipe EXCEPT !.paused = x]) /\ Keeps(pipe, [pipe EXCEPT !.paused = x])
    BY <1>1, SetAside, UnmovedLive DEF Unmoved
  <2> QED
    BY <1>2, <2>1, <2>2, <2>3 DEF Stays, Keeps
<1>5. \A x, f : /\ Live(Block([c EXCEPT !.gate = x], f))
                /\ Stays(pipe, Block([c EXCEPT !.gate = x], f))
  BY <1>4, BlockFacts, KeepsStays
<1>6. Live(pipe') /\ Stays(pipe, pipe')
  <2>1. CASE pipe' = c
    BY <1>2, <2>1
  <2>2. CASE \E x : pipe' = [c EXCEPT !.gate = x]
    BY <1>4, <2>2
  <2>3. CASE \E x, f : pipe' = Block([c EXCEPT !.gate = x], f)
    BY <1>5, <2>3
  <2>4. CASE \E x : pipe' = [c EXCEPT !.paused = x]
    BY <1>4, <2>4
  <2>5. CASE \E x : pipe' = [pipe EXCEPT !.paused = x]
    BY <1>4, <2>5
  <2> QED
    BY <1>3, <2>1, <2>2, <2>3, <2>4, <2>5
<1> QED
  BY <1>6, LiveInv

\* The end, the error, the close and the stall cut.
LEMMA StreamOverInv ==
    ASSUME PipeInv(pipe), StreamErrors \/ StreamCloses \/ StreamEnds \/ StallCut
    PROVE  PipeInv(pipe') /\ Stays(pipe, pipe')
<1> DEFINE s == [pipe EXCEPT !.stall = FALSE]
<1>1. Live(pipe) /\ pipe.pending = "no" /\ IsPipe(pipe)
  BY WatchedLive DEF StreamErrors, StreamCloses, StreamEnds, StallCut
<1>2. Live(s) /\ Keeps(pipe, s) /\ s.pending = "no"
  BY <1>1, SetAside, UnmovedLive DEF Unmoved
<1>3. \/ pipe' \in {Closed(OnError(pipe)), Closed(OnClose(pipe)), Closed(OnError(s))}
      \/ \E whole : pipe' = Closed(OnEnd(pipe, whole))
  BY DEF StreamErrors, StreamCloses, StreamEnds, StallCut
<1> HIDE DEF s
<1>4. /\ PipeInv(OnError(pipe)) /\ Keeps(pipe, OnError(pipe))
      /\ PipeInv(OnClose(pipe)) /\ Keeps(pipe, OnClose(pipe))
      /\ PipeInv(OnError(s)) /\ Keeps(pipe, OnError(s))
      /\ \A whole : PipeInv(OnEnd(pipe, whole)) /\ Keeps(pipe, OnEnd(pipe, whole))
  BY <1>1, <1>2, OnErrorInv, OnCloseInv, OnEndInv, KeepsTransitive
<1>5. \E r : PipeInv(r) /\ Keeps(pipe, r) /\ pipe' = Closed(r)
  BY <1>3, <1>4
<1> QED
  BY <1>5, ClosedInv DEF Keeps, Stays

\* A host that hangs up: nothing is owed to it, and nothing replaced for it.
LEMMA HostLeavesInv ==
    ASSUME PipeInv(pipe), HostLeaves
    PROVE  PipeInv(pipe') /\ Stays(pipe, pipe')
<1> DEFINE p == [pipe EXCEPT !.gone = TRUE, !.aborted = @ \/ pipe.stream = "open"]
<1>1. IsPipe(pipe) /\ Live(pipe) /\ ~pipe.gone
  BY DEF PipeInv, Live, Steady, HostLeaves
<1>2. pipe' = IF pipe.pending = "no" THEN Closed(OnClose(p)) ELSE p
  BY DEF HostLeaves
<1>3. /\ IsPipe(p) /\ p.gone = TRUE /\ Stays(pipe, p) /\ p.chunks = pipe.chunks
      /\ p.ended = pipe.ended /\ p.pending = pipe.pending /\ p.tool = pipe.tool
  BY ZenonT(40), <1>1 DEF IsPipe, PipeFields, Stays
<1> HIDE DEF p
<1>4. Live(p)
  BY <1>1, <1>3 DEF Live, Steady, Stays
<1>5. CASE pipe.pending = "no"
  <2>1. PipeInv(OnClose(p)) /\ Keeps(p, OnClose(p))
    BY <1>3, <1>4, <1>5, OnCloseInv
  <2>2. PipeInv(Closed(OnClose(p))) /\ Keeps(OnClose(p), Closed(OnClose(p)))
    BY <2>1, ClosedInv
  <2> QED
    BY <1>2, <1>3, <1>5, <2>1, <2>2, KeepsStays
<1>6. CASE pipe.pending # "no"
  BY <1>2, <1>3, <1>4, <1>6, LiveInv
<1> QED
  BY <1>5, <1>6

\* Every event of the stream and of its host.
LEMMA PipeEventInv ==
    ASSUME PipeInv(pipe), PipeEvent \/ StallCut
    PROVE  PipeInv(pipe') /\ Stays(pipe, pipe')
BY DataArrivesInv, OtherDataInv, StreamOverInv, HostLeavesInv DEF PipeEvent

\* A response without a pipe, and one that gets its first.
LEMMA FirstPipes ==
    /\ PipeInv(NoPipe) /\ NoPipe.leg = 1
    /\ \A b, blame, hook, gate, cloak, most :
          LET p == Piping(b, blame, hook, gate, cloak, most)
          IN  PipeInv(p) /\ p.leg = 1 /\ p.from = b /\ p.blame = blame /\ p.gone = FALSE
<1>1. /\ IsPipe(NoPipe) /\ NoPipe.leg = 1 /\ NoPipe.chunks = 0 /\ NoPipe.terminal = FALSE
      /\ NoPipe.ended = FALSE /\ NoPipe.pending = "no" /\ NoPipe.aborted = FALSE
      /\ NoPipe.gone = FALSE
  BY DEF NoPipe, IsPipe, PipeFields
<1>2. Live(NoPipe)
  BY <1>1 DEF Live, Steady
<1>3. ASSUME NEW b, NEW blame, NEW hook, NEW gate, NEW cloak, NEW most
      PROVE  LET p == Piping(b, blame, hook, gate, cloak, most)
             IN  PipeInv(p) /\ p.leg = 1 /\ p.from = b /\ p.blame = blame /\ p.gone = FALSE
  <2> DEFINE p == Piping(b, blame, hook, gate, cloak, most)
  <2>1. /\ IsPipe(p) /\ p.leg = 1 /\ p.chunks = 0 /\ p.terminal = FALSE /\ p.ended = FALSE
        /\ p.pending = "no" /\ p.aborted = FALSE /\ p.gone = FALSE /\ p.from = b
        /\ p.blame = blame
    <3>1. ASSUME NEW n, IsPipe(n)
          PROVE  LET m == [n EXCEPT !.stream = "open", !.from = b, !.blame = blame,
                                    !.hook = hook, !.gate = gate, !.cloak = cloak,
                                    !.most = most, !.stall = TRUE]
                 IN  /\ IsPipe(m) /\ m.leg = n.leg /\ m.chunks = n.chunks
                     /\ m.terminal = n.terminal /\ m.ended = n.ended
                     /\ m.pending = n.pending /\ m.aborted = n.aborted /\ m.gone = n.gone
                     /\ m.from = b /\ m.blame = blame
      <4> DEFINE h == [n EXCEPT !.stream = "open", !.from = b, !.blame = blame, !.hook = hook]
                 m == [h EXCEPT !.gate = gate, !.cloak = cloak, !.most = most, !.stall = TRUE]
      <4>1. /\ IsPipe(h) /\ h.leg = n.leg /\ h.chunks = n.chunks
            /\ h.terminal = n.terminal /\ h.ended = n.ended
            /\ h.pending = n.pending /\ h.aborted = n.aborted /\ h.gone = n.gone
            /\ h.from = b /\ h.blame = blame
        BY ZenonT(40), <3>1 DEF IsPipe, PipeFields
      <4> HIDE DEF h
      <4>2. /\ IsPipe(m) /\ m.leg = h.leg /\ m.chunks = h.chunks
            /\ m.terminal = h.terminal /\ m.ended = h.ended
            /\ m.pending = h.pending /\ m.aborted = h.aborted /\ m.gone = h.gone
            /\ m.from = h.from /\ m.blame = h.blame
        BY ZenonT(40), <4>1 DEF IsPipe, PipeFields
      <4>3. m = [n EXCEPT !.stream = "open", !.from = b, !.blame = blame, !.hook = hook,
                          !.gate = gate, !.cloak = cloak, !.most = most, !.stall = TRUE]
        BY DEF h
      <4> QED
        BY <4>1, <4>2, <4>3
    <3>2. p = [NoPipe EXCEPT !.stream = "open", !.from = b, !.blame = blame, !.hook = hook,
                             !.gate = gate, !.cloak = cloak, !.most = most, !.stall = TRUE]
      BY DEF Piping
    <3> HIDE DEF p
    <3> QED
      BY <1>1, <3>1, <3>2
  <2> HIDE DEF p
  <2>2. Live(p)
    BY <2>1 DEF Live, Steady
  <2> QED
    BY <2>1, <2>2, LiveInv DEF p
<1> QED
  BY <1>1, <1>2, <1>3, LiveInv

-----------------------------------------------------------------------------
(* The gates                                                               *)

\* A state that is saved is the same in memory and in the file.
LEMMA PersistedInv ==
    ASSUME NEW g \in GateStates
    PROVE  GateInv(Persisted(g))
<1>1. Persisted(g) \in GateStates /\ Persisted(g).moved = FALSE /\ Persisted(g).file = Persisted(g).mem
  BY DEF Persisted, GateStates
<1> QED
  BY <1>1 DEF GateInv, GateSound

\* A save that may be throttled.
LEMMA MaybePersistedInv ==
    ASSUME NEW g, GateInv(g), NEW dirty
    PROVE  /\ \A h \in PersistedOrNot(g) : GateInv(h)
           /\ \A h \in Noted(g, dirty) : GateInv(h)
BY PersistedInv DEF GateInv, PersistedOrNot, Noted

\* Whoever finds the file written by another adopts it.
LEMMA EnsureLoadedInv ==
    ASSUME NEW g, GateInv(g)
    PROVE  GateInv(EnsureLoaded(g)) /\ EnsureLoaded(g).moved = FALSE
<1>1. CASE g.moved
  <2>1. /\ EnsureLoaded(g) \in GateStates /\ EnsureLoaded(g).moved = FALSE
        /\ EnsureLoaded(g).file = EnsureLoaded(g).mem
    BY <1>1 DEF EnsureLoaded, GateStates, GateInv
  <2> QED
    BY <2>1 DEF GateInv, GateSound
<1>2. CASE ~g.moved
  BY <1>2 DEF EnsureLoaded, GateInv, GateStates
<1> QED
  BY <1>1, <1>2

\* A change of memory that neither opens nor closes the gate, nor spends the canary of one
\* that is closed, may go unsaved.
LEMMA LesserInv ==
    ASSUME NEW g, GateInv(g), g.moved = FALSE, NEW m \in Gate, NEW r \in BOOLEAN,
           m.gated = g.mem.gated, m.gated => m.due = g.mem.due
    PROVE  /\ GateInv([g EXCEPT !.mem = m])
           /\ GateInv([g EXCEPT !.mem = m, !.rejected = r])
<1> DEFINE h == [g EXCEPT !.mem = m]
           i == [h EXCEPT !.rejected = r]
<1>1. h \in GateStates /\ h.moved = FALSE /\ h.file = g.file /\ h.mem = m
  BY DEF GateInv, GateStates
<1> HIDE DEF h
<1>2. i \in GateStates /\ i.moved = FALSE /\ i.file = g.file /\ i.mem = m
  BY <1>1 DEF GateStates
<1> HIDE DEF i
<1>3. GateInv(h) /\ GateInv(i)
  BY <1>1, <1>2 DEF GateInv, GateSound
<1> QED
  BY <1>3 DEF h, i

\* The fields of a gate, one at a time.
LEMMA GateFields ==
    ASSUME NEW m \in Gate, NEW e \in BOOLEAN, NEW n \in 0..EnterAfter
    PROVE  /\ [m EXCEPT !.known = e] \in Gate /\ [m EXCEPT !.known = e].gated = m.gated
           /\ [m EXCEPT !.known = e].due = m.due
           /\ [m EXCEPT !.strikes = n] \in Gate /\ [m EXCEPT !.strikes = n].gated = m.gated
           /\ [m EXCEPT !.strikes = n].due = m.due
           /\ [m EXCEPT !.due = e] \in Gate /\ [m EXCEPT !.due = e].gated = m.gated
           /\ [m EXCEPT !.gated = e] \in Gate /\ [m EXCEPT !.gated = e].due = m.due
<1>1. [m EXCEPT !.known = e] \in Gate /\ [m EXCEPT !.known = e].gated = m.gated
      /\ [m EXCEPT !.known = e].due = m.due
  BY DEF Gate
<1>2. [m EXCEPT !.strikes = n] \in Gate /\ [m EXCEPT !.strikes = n].gated = m.gated
      /\ [m EXCEPT !.strikes = n].due = m.due
  BY DEF Gate
<1>3. [m EXCEPT !.due = e] \in Gate /\ [m EXCEPT !.due = e].gated = m.gated
  BY DEF Gate
<1>4. [m EXCEPT !.gated = e] \in Gate /\ [m EXCEPT !.gated = e].due = m.due
  BY DEF Gate
<1> QED
  BY <1>1, <1>2, <1>3, <1>4

\* An opened gate has no strikes.
LEMMA OpenedType ==
    ASSUME NEW m \in Gate
    PROVE  Opened(m) \in Gate /\ Opened(m).gated = FALSE
<1>1. 0 \in 0..EnterAfter
  BY GatesAssumption
<1> QED
  BY <1>1 DEF Opened, Gate

\* A conversation that is now known is a lesser change.
LEMMA KnownInv ==
    ASSUME NEW g, GateInv(g), NEW keyed \in BOOLEAN
    PROVE  LET k == [EnsureLoaded(g) EXCEPT !.mem.known = @ \/ keyed]
           IN  GateInv(k) /\ k.moved = FALSE
<1> DEFINE l == EnsureLoaded(g)
           m == [l.mem EXCEPT !.known = @ \/ keyed]
           k == [l EXCEPT !.mem = m]
<1>1. GateInv(l) /\ l.moved = FALSE
  BY EnsureLoadedInv
<1> HIDE DEF l
<1>2. l.mem \in Gate /\ l.mem.known \in BOOLEAN /\ l \in GateStates
  BY <1>1 DEF GateInv, GateStates, Gate
<1>3. m \in Gate /\ m.gated = l.mem.gated /\ m.due = l.mem.due
  <2>1. (l.mem.known \/ keyed) \in BOOLEAN
    OBVIOUS
  <2> DEFINE e == l.mem.known \/ keyed
  <2> HIDE DEF e
  <2>2. m = [l.mem EXCEPT !.known = e]
    BY DEF e
  <2>3. e \in BOOLEAN
    BY DEF e
  <2> QED
    BY <1>2, <2>2, <2>3 DEF Gate
<1>4. [l EXCEPT !.mem.known = @ \/ keyed] = k
  BY <1>2 DEF GateStates
<1> HIDE DEF m
<1>5. GateInv(k) /\ k.moved = FALSE
  BY <1>1, <1>2, <1>3, LesserInv DEF GateStates
<1> QED
  BY <1>4, <1>5 DEF l

\* recordUpstreamSuccess: the recovery is saved at once, the rest may wait.
LEMMA SuccessInv ==
    ASSUME NEW g, GateInv(g), NEW keyed \in BOOLEAN, NEW canary
    PROVE  \A h \in RecordUpstreamSuccess(g, keyed, canary) : GateInv(h)
<1> DEFINE k == [EnsureLoaded(g) EXCEPT !.mem.known = @ \/ keyed]
           proven == [k EXCEPT !.mem.due = FALSE, !.rejected = FALSE]
           opened == [proven EXCEPT !.mem = Opened(@)]
           calm == [k EXCEPT !.mem.strikes = 0]
<1>1. GateInv(k) /\ k.moved = FALSE
  BY KnownInv
<1>2. \/ canary /\ k.mem.gated /\ RecordUpstreamSuccess(g, keyed, canary) = {Persisted(opened)}
      \/ ~k.mem.gated /\ RecordUpstreamSuccess(g, keyed, canary) = PersistedOrNot(proven)
      \/ RecordUpstreamSuccess(g, keyed, canary) = Noted(k, keyed)
      \/ RecordUpstreamSuccess(g, keyed, canary) = Noted(calm, keyed \/ k.mem.strikes # 0)
  BY DEF RecordUpstreamSuccess
<1> HIDE DEF k
<1>3. k.mem \in Gate /\ k \in GateStates /\ 0 \in 0..EnterAfter
  BY <1>1, GatesAssumption DEF GateInv, GateStates
<1>4. GateInv(calm)
  <2>1. calm = [k EXCEPT !.mem = [k.mem EXCEPT !.strikes = 0]]
    BY <1>3 DEF GateStates
  <2> QED
    BY <1>1, <1>3, <2>1, GateFields, LesserInv
<1>5. proven = [k EXCEPT !.mem = [k.mem EXCEPT !.due = FALSE], !.rejected = FALSE]
  BY <1>3 DEF GateStates
<1>6. ~k.mem.gated => GateInv(proven)
  <2>1. [k.mem EXCEPT !.due = FALSE] \in Gate /\ [k.mem EXCEPT !.due = FALSE].gated = k.mem.gated
    BY <1>3 DEF Gate
  <2> QED
    BY <1>1, <1>5, <2>1, LesserInv
<1>7. proven \in GateStates
  <2>1. [k.mem EXCEPT !.due = FALSE] \in Gate
    BY <1>3 DEF Gate
  <2> QED
    BY <1>3, <1>5, <2>1 DEF GateStates
<1> HIDE DEF proven, calm
<1>8. opened \in GateStates
  BY <1>7, OpenedType DEF GateStates
<1> HIDE DEF opened
<1> QED
  BY <1>1, <1>2, <1>4, <1>6, <1>8, PersistedInv, MaybePersistedInv

\* recordKiloSuccess: the sessions may go unsaved.
LEMMA KiloSuccessInv ==
    ASSUME NEW g, GateInv(g), NEW keyed \in BOOLEAN
    PROVE  \A h \in RecordKiloSuccess(g, keyed) : GateInv(h)
BY KnownInv, MaybePersistedInv DEF RecordKiloSuccess

\* recordUpstreamFailure: so is the closing.
LEMMA FailureInv ==
    ASSUME NEW g, GateInv(g), NEW freeTier
    PROVE  \A h \in RecordUpstreamFailure(g, freeTier) : GateInv(h)
<1> DEFINE l == EnsureLoaded(g)
           n == IF l.mem.strikes < EnterAfter THEN l.mem.strikes + 1 ELSE EnterAfter
           shut == [l EXCEPT !.mem.gated = TRUE, !.mem.strikes = n]
           struck == [l EXCEPT !.mem.strikes = n]
           calm == [l EXCEPT !.mem.strikes = 0]
<1>1. GateInv(l) /\ l.moved = FALSE
  BY EnsureLoadedInv
<1>2. \/ RecordUpstreamFailure(g, freeTier) = Noted(calm, l.mem.strikes # 0)
      \/ RecordUpstreamFailure(g, freeTier) = {Persisted(shut)}
      \/ RecordUpstreamFailure(g, freeTier) = PersistedOrNot(struck)
  BY DEF RecordUpstreamFailure
<1> HIDE DEF l
<1>3. /\ l.mem \in Gate /\ l \in GateStates /\ 0 \in 0..EnterAfter
      /\ l.mem.strikes \in 0..EnterAfter
  BY <1>1, GatesAssumption DEF GateInv, GateStates, Gate
<1>4. n \in 0..EnterAfter
  BY <1>3, GatesAssumption
<1> HIDE DEF n
<1>5. GateInv(calm) /\ GateInv(struck)
  <2>1. /\ calm = [l EXCEPT !.mem = [l.mem EXCEPT !.strikes = 0]]
        /\ struck = [l EXCEPT !.mem = [l.mem EXCEPT !.strikes = n]]
    BY <1>3 DEF GateStates
  <2> QED
    BY ZenonT(40), <1>1, <1>3, <1>4, <2>1, GateFields, LesserInv
<1>6. shut \in GateStates
  <2>1. shut = [l EXCEPT !.mem = [l.mem EXCEPT !.gated = TRUE, !.strikes = n]]
    BY <1>3 DEF GateStates
  <2>2. [l.mem EXCEPT !.gated = TRUE, !.strikes = n] \in Gate
    BY <1>3, <1>4 DEF Gate
  <2> QED
    BY <1>3, <2>1, <2>2 DEF GateStates
<1> HIDE DEF calm, struck, shut
<1> QED
  BY <1>2, <1>5, <1>6, PersistedInv, MaybePersistedInv

\* What is remembered of refusals is not in the file.
LEMMA RejectionInv ==
    ASSUME NEW g, GateInv(g), NEW r \in BOOLEAN
    PROVE  GateInv([g EXCEPT !.rejected = r])
<1>1. /\ [g EXCEPT !.rejected = r] \in GateStates /\ [g EXCEPT !.rejected = r].mem = g.mem
      /\ [g EXCEPT !.rejected = r].file = g.file /\ [g EXCEPT !.rejected = r].moved = g.moved
  BY DEF GateInv, GateStates
<1> QED
  BY <1>1 DEF GateInv, GateSound

\* decideZenRoute saves the window of the canary before it flies.
LEMMA ClassifyInv ==
    ASSUME NEW g, GateInv(g), NEW long
    PROVE  GateInv(ClassifyZenFailover(g, long).g)
<1> DEFINE l == EnsureLoaded(g)
           spent == [l EXCEPT !.mem.due = FALSE]
<1>1. GateInv(l)
  BY EnsureLoadedInv
<1>2. ClassifyZenFailover(g, long).g \in {g, l, Persisted(spent)}
  BY DEF ClassifyZenFailover, DecideZenRoute
<1> HIDE DEF l
<1>3. spent \in GateStates
  <2>1. l \in GateStates /\ l.mem \in Gate
    BY <1>1 DEF GateInv, GateStates
  <2>2. spent = [l EXCEPT !.mem = [l.mem EXCEPT !.due = FALSE]]
    BY <2>1 DEF GateStates
  <2>3. [l.mem EXCEPT !.due = FALSE] \in Gate
    BY <2>1 DEF Gate
  <2> QED
    BY <2>1, <2>2, <2>3 DEF GateStates
<1> HIDE DEF spent
<1> QED
  BY <1>1, <1>2, <1>3, PersistedInv

\* A restart reads the file, a host's reset writes it, and windows pass for both.
LEMMA RestartedInv ==
    ASSUME NEW g, GateInv(g)
    PROVE  GateInv(GatesRestarted(g))
<1>1. /\ GatesRestarted(g) \in GateStates /\ GatesRestarted(g).moved = FALSE
      /\ GatesRestarted(g).file = GatesRestarted(g).mem
  BY DEF GateInv, GatesRestarted, GateStates
<1> QED
  BY <1>1 DEF GateInv, GateSound

\* The steps of others, and of time.
LEMMA GatesStepInv ==
    ASSUME GateInv(ug), GatesStep
    PROVE  GateInv(ug')
<1>1. CASE OthersServed
  BY <1>1, SuccessInv DEF OthersServed
<1>2. CASE OthersRefused
  BY <1>2, FailureInv DEF OthersRefused
<1>3. CASE HostResets
  <2>1. ug' = [ug EXCEPT !.file = Opened(ug.file), !.moved = TRUE]
    BY <1>3 DEF HostResets
  <2>2. Opened(ug.file) \in Gate /\ Opened(ug.file).gated = FALSE
    BY OpenedType DEF GateInv, GateStates
  <2>3. ug' \in GateStates /\ ug'.moved = TRUE /\ ug'.file = Opened(ug.file)
    BY <2>1, <2>2 DEF GateInv, GateStates
  <2> QED
    BY <2>2, <2>3 DEF GateInv, GateSound
<1>4. CASE WindowPasses
  <2>1. ug \in GateStates /\ ug.mem \in Gate /\ ug.file \in Gate
    BY DEF GateInv, GateStates
  <2>2. ug' = [ug EXCEPT !.mem = [ug.mem EXCEPT !.due = TRUE], !.file = [ug.file EXCEPT !.due = TRUE]]
    BY <1>4, <2>1 DEF WindowPasses, GateStates
  <2>3. /\ [ug.mem EXCEPT !.due = TRUE] \in Gate /\ [ug.file EXCEPT !.due = TRUE] \in Gate
        /\ [ug.mem EXCEPT !.due = TRUE].gated = ug.mem.gated
        /\ [ug.file EXCEPT !.due = TRUE].gated = ug.file.gated
        /\ [ug.mem EXCEPT !.due = TRUE].due = [ug.file EXCEPT !.due = TRUE].due
    BY <2>1 DEF Gate
  <2>4. /\ ug' \in GateStates /\ ug'.moved = ug.moved /\ ug'.mem = [ug.mem EXCEPT !.due = TRUE]
        /\ ug'.file = [ug.file EXCEPT !.due = TRUE]
    BY <2>1, <2>2, <2>3 DEF GateStates
  <2> QED
    BY <2>3, <2>4 DEF GateInv, GateSound
<1>5. CASE RejectionLapses
  BY <1>5, RejectionInv DEF RejectionLapses
<1> QED
  BY <1>1, <1>2, <1>3, <1>4, <1>5 DEF GatesStep

-----------------------------------------------------------------------------
(* Turns                                                                   *)

\* A turn that is not being fetched, or piped to a host, is held to nothing.
LEMMA Rest ==
    ASSUME IInv, IsTurn(turn'), IsMemory(mem'), PipeInv(pipe'), GateInv(ug'), HistoryHealed',
           turn'.phase \notin {"fetching", "piping"}
    PROVE  IInv'
BY DEF IInv, SentInv, IssuerInv

\* The turns between turns, at the reading of a body, and at its piping.
LEMMA IdleFacts ==
    /\ IsTurn(Idle) /\ Idle.phase = "idle" /\ Idle.shown = "none" /\ Idle.path = "none"
    /\ \A t, answer : /\ IsTurn(Reading(t, answer)) /\ Reading(t, answer).phase = "reading"
                      /\ Reading(t, answer).shown = answer
    /\ \A t, answer, hook : /\ IsTurn(Piped(t, answer, hook)) /\ Piped(t, answer, hook).phase = "piping"
                            /\ Piped(t, answer, hook).shown = answer
<1>1. IsTurn(Idle) /\ Idle.phase = "idle" /\ Idle.shown = "none" /\ Idle.path = "none"
  BY DEF Idle, IsTurn, TurnFields
<1> HIDE DEF Idle
<1>2. ASSUME NEW t, NEW answer
      PROVE  /\ IsTurn(Reading(t, answer)) /\ Reading(t, answer).phase = "reading"
             /\ Reading(t, answer).shown = answer
  BY <1>1 DEF Reading, IsTurn, TurnFields
<1>3. ASSUME NEW t, NEW answer, NEW hook
      PROVE  /\ IsTurn(Piped(t, answer, hook)) /\ Piped(t, answer, hook).phase = "piping"
             /\ Piped(t, answer, hook).shown = answer
  <2> DEFINE b == IF hook THEN t.body ELSE NoHistory
             u == [Idle EXCEPT !.phase = "piping", !.canary = t.canary, !.shown = answer, !.body = b]
  <2>1. Piped(t, answer, hook) = u
    BY DEF Piped
  <2> HIDE DEF b
  <2>2. IsTurn(u) /\ u.phase = "piping" /\ u.shown = answer
    BY <1>1 DEF IsTurn, TurnFields
  <2> QED
    BY <2>1, <2>2
<1> QED
  BY <1>1, <1>2, <1>3

\* A turn that is over, or whose answer is read as a whole.
LEMMA OverInv ==
    ASSUME IInv, turn' = Idle \/ \E t : turn' = Reading(t, "bad"),
           IsMemory(mem'), PipeInv(pipe'), GateInv(ug')
    PROVE  IInv'
<1>1. IsTurn(turn') /\ turn'.phase \notin {"fetching", "piping"} /\ turn'.shown \in {"none", "bad"}
  BY IdleFacts
<1> QED
  BY <1>1, Rest DEF HistoryHealed

\* What a turn learns, and what it leaves behind.
LEMMA MemoryFacts ==
    ASSUME NEW m, IsMemory(m), NEW b, NEW dead, NEW backend
    PROVE  /\ IsMemory(RememberRejectedReasoning(m, b))
           /\ RememberRejectedReasoning(m, b).issuer = m.issuer
           /\ IsMemory(RememberRejectedReasoningIds(m, dead))
           /\ RememberRejectedReasoningIds(m, dead).issuer = m.issuer
           /\ IsMemory(RememberIssuerRelay(m, backend))
           /\ RememberIssuerRelay(m, backend).issuer = backend
BY DEF IsMemory, RememberRejectedReasoning, RememberRejectedReasoningIds, RememberIssuerRelay

\* What an answer teaches about blobs and ids is not about the issuer.
LEMMA LearntFacts ==
    ASSUME IsMemory(mem), NEW t, NEW answer
    PROVE  IsMemory(Learnt(t, answer)) /\ Learnt(t, answer).issuer = mem.issuer
<1> DEFINE m == IF t.stage = "portable" THEN RememberRejectedReasoning(mem, Base) ELSE mem
<1>1. IsMemory(m) /\ m.issuer = mem.issuer
  BY MemoryFacts
<1>2. Learnt(t, answer) \in {m, RememberRejectedReasoningIds(m, Expired(t.sent, aged))}
  BY DEF Learnt
<1> HIDE DEF m
<1> QED
  BY <1>1, <1>2, MemoryFacts

\* An answer that is right makes its backend the issuer; no other does.
LEMMA IssuedFacts ==
    ASSUME NEW m, IsMemory(m), NEW answer, NEW backend
    PROVE  /\ IsMemory(Issued(m, answer, backend))
           /\ setting.responses /\ answer = "ok" => Issued(m, answer, backend).issuer = backend
           /\ answer # "ok" => Issued(m, answer, backend).issuer = m.issuer
BY MemoryFacts DEF Issued

\* The first request of a path.
LEMMA AddressedFacts ==
    ASSUME NEW t, IsTurn(t), NEW path, NEW m, NEW backend
    PROVE  LET u == Addressed(t, path, m, backend) IN
           /\ IsTurn(u) /\ u.stage = "first" /\ u.shown = t.shown
           /\ ~setting.responses => u.sent = NoHistory
<1> DEFINE b == IF setting.responses THEN ForUpstream(Base, m, backend) ELSE NoHistory
           u == [t EXCEPT !.phase = "fetching", !.path = path, !.stage = "first", !.body = b,
                          !.sent = b, !.href = "compat"]
<1>1. Addressed(t, path, m, backend) = u
  BY DEF Addressed
<1>2. ~setting.responses => b = NoHistory
  OBVIOUS
<1> HIDE DEF b
<1>3. IsTurn(u) /\ u.stage = "first" /\ u.shown = t.shown /\ u.sent = b
  BY DEF IsTurn, TurnFields
<1> QED
  BY <1>1, <1>2, <1>3

\* A turn that goes to a relay or to the direct path.
LEMMA GoingInv ==
    ASSUME IInv, NEW t, IsTurn(t), t.shown \notin {"mismatch", "expired"},
           ByRelay(t) \/ Directly(t), GateInv(ug'), UNCHANGED <<setting, pipe>>
    PROVE  IInv'
<1>1. PICK m \in Recalls(mem) :
         \E path \in {"relay", "direct"} : \E backend :
            turn' = Addressed(t, path, m, backend) /\ mem' = Leaving(m, backend)
  BY DEF ByRelay, Directly
<1>2. IsMemory(m)
  BY <1>1 DEF Recalls, IsMemory
<1>3. IsMemory(mem')
  BY <1>1, <1>2, MemoryFacts DEF Leaving
<1>4. /\ IsTurn(turn') /\ turn'.stage = "first" /\ turn'.shown = t.shown
      /\ ~setting.responses => turn'.sent = NoHistory
  BY <1>1, AddressedFacts
<1>5. turn'.phase = "fetching"
  <2>1. PICK path, backend : turn' = Addressed(t, path, m, backend)
    BY <1>1
  <2> QED
    BY <2>1 DEF Addressed, IsTurn, TurnFields
<1> QED
  BY <1>3, <1>4, <1>5 DEF IInv, SentInv, IssuerInv, HistoryHealed

\* To another lane.
LEMMA ElsewhereInv ==
    ASSUME IInv, NEW t, IsTurn(t), t.shown \notin {"mismatch", "expired"},
           NEW path \in {"kilo", "chat"}, Elsewhere(t, path), GateInv(ug'),
           UNCHANGED <<setting, pipe>>
    PROVE  IInv'
<1>1. turn' = [t EXCEPT !.phase = "fetching", !.path = path] /\ mem' = mem
  BY DEF Elsewhere
<1>2. /\ IsTurn(turn') /\ turn'.phase = "fetching" /\ turn'.path = path
      /\ turn'.shown = t.shown
  BY <1>1 DEF IsTurn, TurnFields
<1> QED
  BY <1>1, <1>2 DEF IInv, SentInv, IssuerInv, HistoryHealed

\* A turn begins, in one of the lanes.
LEMMA HostAsksInv ==
    ASSUME IInv, HostAsks
    PROVE  IInv'
<1> DEFINE decided == IF setting.optIn /\ setting.lane = "zen"
                      THEN ClassifyZenFailover(ug, ~setting.responses /\ asked > 0)
                      ELSE [route |-> "passthrough", g |-> ug]
           t == [Idle EXCEPT !.canary = decided.route = "canary"]
<1>1. GateInv(decided.g)
  BY ClassifyInv DEF IInv
<1>2. /\ ug' = decided.g /\ UNCHANGED <<setting, pipe>>
      /\ ByRelay(t) \/ Directly(t) \/ Elsewhere(t, "kilo") \/ Elsewhere(t, "chat")
  BY DEF HostAsks
<1> HIDE DEF decided
<1>3. IsTurn(t) /\ t.shown = "none"
  BY IdleFacts DEF IsTurn, TurnFields
<1> HIDE DEF t
<1> QED
  BY <1>1, <1>2, <1>3, GoingInv, ElsewhereInv

\* What a backend cannot read is resent until it has nothing of the kind.
LEMMA Healing ==
    ASSUME SentInv, Fetching("relay") \/ Fetching("direct"), NEW backend,
           NEW answer \in Verdicts(turn.sent, backend), NEW t, t.stage = turn.stage,
           answer \in {"mismatch", "expired"}
    PROVE  setting.responses /\ Resent(t, answer) # {}
<1>1. /\ turn.stage \in {"first", "portable", "bare"}
      /\ ~setting.responses => turn.sent = NoHistory
      /\ turn.stage = "portable" => turn.sent.blobs = {}
      /\ turn.stage = "bare" => turn.sent = NoHistory
  BY DEF SentInv, Fetching
<1>2. answer \in Unreadable(turn.sent, backend, origin, aged)
  BY DEF Verdicts, Refusals
<1>3. NoHistory.blobs = {} /\ NoHistory.items = {}
  BY DEF NoHistory
<1>4. CASE answer = "mismatch"
  <2>1. turn.sent.blobs # {}
    BY <1>2, <1>4 DEF Unreadable, Foreign
  <2>2. turn.stage = "first" /\ setting.responses
    BY <1>1, <1>3, <2>1
  <2> QED
    BY <1>4, <2>2 DEF Resent
<1>5. CASE answer = "expired"
  <2>1. turn.sent.items # {}
    BY <1>2, <1>5 DEF Unreadable, Expired
  <2>2. turn.stage \in {"first", "portable"} /\ setting.responses
    BY <1>1, <1>3, <2>1
  <2> QED
    BY <1>5, <2>2 DEF Resent
<1> QED
  BY <1>4, <1>5

\* What is resent is portable, or bare.
LEMMA ResentFacts ==
    ASSUME NEW t, IsTurn(t), NEW answer, NEW u \in Resent(t, answer)
    PROVE  /\ IsTurn(u) /\ u.phase = t.phase /\ u.path = t.path /\ u.shown = t.shown
           /\ u.stage \in {"portable", "bare"}
           /\ u.stage = "portable" => u.sent.blobs = {}
           /\ u.stage = "bare" => u.sent = NoHistory
<1> DEFINE p == StripReasoningEncryption(Base)
           v == [t EXCEPT !.stage = "portable", !.sent = p]
           w == [t EXCEPT !.stage = "bare", !.sent = NoHistory]
<1>1. u \in {v, w}
  BY DEF Resent, StripUnresolvableReasoning
<1>2. p.blobs = {}
  BY DEF StripReasoningEncryption, Base
<1> HIDE DEF p
<1>3. /\ IsTurn(v) /\ v.phase = t.phase /\ v.path = t.path /\ v.shown = t.shown
      /\ v.stage = "portable" /\ v.sent = p
  BY DEF IsTurn, TurnFields
<1>4. /\ IsTurn(w) /\ w.phase = t.phase /\ w.path = t.path /\ w.shown = t.shown
      /\ w.stage = "bare" /\ w.sent = NoHistory
  BY DEF IsTurn, TurnFields
<1> QED
  BY <1>1, <1>2, <1>3, <1>4

\* Either way the turn stays where it is.
LEMMA ResendInv ==
    ASSUME IInv, NEW t, IsTurn(t), t.phase = turn.phase, t.path = turn.path, t.shown = turn.shown,
           NEW answer, setting.responses, turn' \in Resent(t, answer),
           IsMemory(mem'), mem'.issuer = mem.issuer, UNCHANGED <<setting, pipe, ug>>
    PROVE  IInv'
<1>1. /\ IsTurn(turn') /\ turn'.phase = turn.phase /\ turn'.shown = turn.shown
      /\ turn'.stage \in {"portable", "bare"}
      /\ turn'.stage = "portable" => turn'.sent.blobs = {}
      /\ turn'.stage = "bare" => turn'.sent = NoHistory
  BY ResentFacts
<1> QED
  BY <1>1 DEF IInv, SentInv, IssuerInv, HistoryHealed

\* An answer is delivered, which is not about the history; if it is Zen's, its backend is
\* the issuer.
LEMMA DeliveredInv ==
    ASSUME IInv, NEW t, NEW answer, answer \notin {"mismatch", "expired"}, NEW backend, NEW blame,
           NEW hook, NEW contents, Delivered(t, answer, backend, blame, hook, contents),
           IsMemory(mem'), GateInv(ug'), setting' = setting,
           setting.responses /\ setting.lane \in {"zen", "paid"} /\ answer = "ok" /\ blame # Unknown
             => mem'.issuer = backend
    PROVE  IInv'
<1>1. CASE turn' = Reading(t, answer) /\ pipe' = pipe
  BY <1>1, IdleFacts, Rest DEF IInv, HistoryHealed
<1>2. CASE /\ turn' = Piped(t, answer, hook)
           /\ \E gate \in contents :
                 pipe' = Piping(backend, blame, hook, gate, StreamCloakOf(t), setting.chunks)
  <2>1. PipeInv(pipe') /\ pipe'.from = backend /\ pipe'.blame = blame
    BY <1>2, FirstPipes
  <2>2. IsTurn(turn') /\ turn'.phase = "piping" /\ turn'.shown = answer
    BY <1>2, IdleFacts
  <2> QED
    BY <2>1, <2>2 DEF IInv, SentInv, IssuerInv, HistoryHealed
<1> QED
  BY <1>1, <1>2 DEF Delivered

-----------------------------------------------------------------------------
(* Answers                                                                 *)

\* What any answer teaches about the gate leaves that sound.
LEMMA TaughtInv ==
    ASSUME GateInv(ug), NEW t, NEW answer, NEW backend, ug' \in Gates(Taught(t, answer, backend))
    PROVE  GateInv(ug')
<1>1. TRUE \in BOOLEAN
  OBVIOUS
<1>2. \A g \in RecordUpstreamSuccess(ug, TRUE, t.canary) : GateInv(g)
  BY <1>1, SuccessInv
<1>3. \A freeTier : \A g \in RecordUpstreamFailure(ug, freeTier) : GateInv(g)
  BY FailureInv
<1>4. \A g \in RecordUpstreamFailure(ug, TRUE) : GateInv(RememberGateRejection(g))
  BY <1>1, <1>3, RejectionInv DEF RememberGateRejection
<1> QED
  BY <1>2, <1>3, <1>4 DEF Gates, Taught

\* So does the success of another lane, or of a replacement.
LEMMA SucceededInv ==
    ASSUME GateInv(ug), NEW canary, NEW P \in BOOLEAN,
           \/ ug' \in Gates(IF P THEN RecordUpstreamSuccess(ug, TRUE, canary) ELSE {ug})
           \/ ug' \in Gates(IF P THEN RecordKiloSuccess(ug, TRUE) ELSE {ug})
    PROVE  GateInv(ug')
<1>1. TRUE \in BOOLEAN
  OBVIOUS
<1> QED
  BY <1>1, SuccessInv, KiloSuccessInv DEF Gates

\* The answer of a relay.
LEMMA RelayAnswersInv ==
    ASSUME IInv, RelayAnswers
    PROVE  IInv'
<1>1. PICK backend, answer :
         /\ backend \in Backends /\ answer \in Verdicts(turn.sent, backend)
         /\ LET t == [turn EXCEPT !.served = backend]
                more == IF setting.responses THEN Resent(t, answer) ELSE {}
            IN \/ more # {} /\ Resend(more, answer)
               \/ /\ more = {}
                  /\ mem' = Issued(Learnt(turn, answer), answer, backend)
                  /\ ug' \in Gates(Taught(turn, answer, backend))
                  /\ Delivered(t, answer, backend, backend, TRUE, Contents(answer))
                  /\ UNCHANGED <<setting, origin, aged, asked>>
  BY DEF RelayAnswers
<1> DEFINE t == [turn EXCEPT !.served = backend]
           more == IF setting.responses THEN Resent(t, answer) ELSE {}
<1>2. /\ IsTurn(t) /\ t.phase = turn.phase /\ t.path = turn.path /\ t.shown = turn.shown
      /\ t.stage = turn.stage
  BY DEF IInv, IsTurn, TurnFields
<1>3. IsMemory(Learnt(turn, answer)) /\ Learnt(turn, answer).issuer = mem.issuer
  BY LearntFacts DEF IInv
<1> HIDE DEF t
<1>4. CASE more # {} /\ Resend(more, answer)
  <2>1. setting.responses /\ turn' \in Resent(t, answer)
    BY <1>4 DEF Resend
  <2> QED
    BY <1>2, <1>3, <1>4, <2>1, ResendInv DEF Resend
<1>5. CASE /\ more = {}
           /\ mem' = Issued(Learnt(turn, answer), answer, backend)
           /\ ug' \in Gates(Taught(turn, answer, backend))
           /\ Delivered(t, answer, backend, backend, TRUE, Contents(answer))
           /\ setting' = setting
  <2>1. answer \notin {"mismatch", "expired"}
    BY <1>1, <1>2, <1>5, Healing DEF RelayAnswers, IInv
  <2>2. GateInv(ug')
    BY <1>5, TaughtInv DEF IInv
  <2>3. /\ IsMemory(mem')
        /\ setting.responses /\ answer = "ok" => mem'.issuer = backend
    BY <1>3, <1>5, IssuedFacts
  <2> QED
    BY <1>5, <2>1, <2>2, <2>3, DeliveredInv
<1> QED
  BY <1>1, <1>4, <1>5 DEF t

\* The direct path may ask once more without touching the body.
LEMMA RedirectedInv ==
    ASSUME IInv, NEW t, IsTurn(t), t.phase = turn.phase, t.path = turn.path, t.shown = turn.shown,
           t.stage = turn.stage, t.sent = turn.sent, turn.phase = "fetching",
           NEW answer, turn' \in Redirected(t, answer),
           IsMemory(mem'), UNCHANGED <<setting, pipe, ug>>
    PROVE  IInv'
<1>1. turn' \in {[t EXCEPT !.href = "plain"], [t EXCEPT !.href = "compat", !.renewed = TRUE]}
  BY DEF Redirected
<1>2. /\ IsTurn(turn') /\ turn'.phase = turn.phase /\ turn'.path = turn.path
      /\ turn'.shown = turn.shown /\ turn'.stage = turn.stage /\ turn'.sent = turn.sent
  BY <1>1 DEF IsTurn, TurnFields
<1> QED
  BY <1>2 DEF IInv, SentInv, IssuerInv, HistoryHealed

\* The answer of the direct path: redirected, resent, or delivered.
LEMMA DirectAnswersInv ==
    ASSUME IInv, DirectAnswers
    PROVE  IInv'
<1>1. PICK answer \in Verdicts(turn.sent, Direct) :
         LET t == [turn EXCEPT !.served = Direct]
             more == Redirected(t, answer) \cup
                     (IF setting.responses THEN Resent([t EXCEPT !.href = "compat"], answer) ELSE {})
         IN \/ more # {} /\ Resend(more, answer)
            \/ /\ more = {} \/ answer = "stale"
               /\ mem' = Issued(Learnt(turn, answer), answer, Direct)
               /\ ug' \in Gates(Taught(turn, answer, Direct))
               /\ Delivered(t, answer, Direct, Direct, FALSE,
                            IF answer \in {"limited", "gate", "forbidden"} THEN {}
                            ELSE IF answer = "ok" THEN Contents(answer) ELSE {"raw"})
               /\ UNCHANGED <<setting, origin, aged, asked>>
  BY DEF DirectAnswers
<1> DEFINE t == [turn EXCEPT !.served = Direct]
           s == [t EXCEPT !.href = "compat"]
           bodies == IF answer \in {"limited", "gate", "forbidden"} THEN {}
                     ELSE IF answer = "ok" THEN Contents(answer) ELSE {"raw"}
           more == Redirected(t, answer) \cup (IF setting.responses THEN Resent(s, answer) ELSE {})
<1>2. /\ IsTurn(t) /\ t.phase = turn.phase /\ t.path = turn.path /\ t.shown = turn.shown
      /\ t.stage = turn.stage /\ t.sent = turn.sent
  BY DEF IInv, IsTurn, TurnFields
<1>3. IsMemory(Learnt(turn, answer)) /\ Learnt(turn, answer).issuer = mem.issuer
  BY LearntFacts DEF IInv
<1> HIDE DEF t
<1>4. /\ IsTurn(s) /\ s.phase = turn.phase /\ s.path = turn.path /\ s.shown = turn.shown
      /\ s.stage = turn.stage
  BY <1>2 DEF IsTurn, TurnFields
<1> HIDE DEF s, bodies
<1>5. CASE more # {} /\ Resend(more, answer)
  <2>1. CASE turn' \in Redirected(t, answer)
    BY <1>2, <1>3, <1>5, <2>1, RedirectedInv DEF Resend, DirectAnswers, Fetching
  <2>2. CASE setting.responses /\ turn' \in Resent(s, answer)
    BY <1>3, <1>4, <1>5, <2>2, ResendInv DEF Resend
  <2> QED
    BY <1>5, <2>1, <2>2 DEF Resend
<1>6. CASE /\ more = {} \/ answer = "stale"
           /\ mem' = Issued(Learnt(turn, answer), answer, Direct)
           /\ ug' \in Gates(Taught(turn, answer, Direct))
           /\ Delivered(t, answer, Direct, Direct, FALSE, bodies)
           /\ setting' = setting
  <2>1. answer \notin {"mismatch", "expired"}
    BY <1>1, <1>4, <1>6, Healing DEF DirectAnswers, IInv
  <2>2. GateInv(ug')
    BY <1>6, TaughtInv DEF IInv
  <2>3. /\ IsMemory(mem')
        /\ setting.responses /\ answer = "ok" => mem'.issuer = Direct
    BY <1>3, <1>6, IssuedFacts
  <2> QED
    BY <1>6, <2>1, <2>2, <2>3, DeliveredInv
<1> QED
  BY <1>1, <1>5, <1>6 DEF t, s, bodies

\* Requests that end in an exception.
LEMMA ThrowsInv ==
    ASSUME IInv, RelayThrows \/ DirectThrows \/ KiloThrows \/ ChatThrows
    PROVE  IInv'
<1>1. CASE RelayThrows
  BY <1>1, GoingInv DEF RelayThrows, IInv, HistoryHealed
<1>2. CASE DirectThrows \/ KiloThrows \/ ChatThrows
  <2>1. (turn' = Idle \/ \E t : turn' = Reading(t, "bad")) /\ UNCHANGED <<mem, pipe, ug>>
    BY <1>2 DEF DirectThrows, KiloThrows, ChatThrows
  <2> QED
    BY <2>1, OverInv DEF IInv
<1> QED
  BY <1>1, <1>2

\* Kilo is not asked for reasoning, and its streams have no backend to remember.
LEMMA KiloAnswersInv ==
    ASSUME IInv, KiloAnswers
    PROVE  IInv'
<1>1. PICK backend \in Backends, answer \in {"ok", "limited", "bad"} :
         \/ /\ turn.stage = "first" /\ answer = "bad"
            /\ turn' = [turn EXCEPT !.stage = "clamped"]
            /\ UNCHANGED <<pipe, ug>>
         \/ LET verdict == IF turn.stage = "clamped" /\ answer # "ok" THEN "bad" ELSE answer
            IN /\ ug' \in Gates(IF verdict = "ok" THEN RecordKiloSuccess(ug, TRUE) ELSE {ug})
               /\ Delivered(turn, verdict, backend, Unknown, FALSE, Contents(verdict))
  BY DEF KiloAnswers
<1>2. Fetching("kilo") /\ UNCHANGED <<setting, mem>>
  BY DEF KiloAnswers
<1>3. CASE turn' = [turn EXCEPT !.stage = "clamped"] /\ UNCHANGED <<pipe, ug>>
  <2>1. /\ IsTurn(turn') /\ turn'.phase = turn.phase /\ turn'.path = turn.path
        /\ turn'.shown = turn.shown
    BY <1>3 DEF IInv, IsTurn, TurnFields
  <2> QED
    BY <1>2, <1>3, <2>1 DEF IInv, Fetching, SentInv, IssuerInv, HistoryHealed
<1>4. ASSUME NEW verdict \in {"ok", "limited", "bad"},
             ug' \in Gates(IF verdict = "ok" THEN RecordKiloSuccess(ug, TRUE) ELSE {ug}),
             Delivered(turn, verdict, backend, Unknown, FALSE, Contents(verdict))
      PROVE  IInv'
  <2>1. GateInv(ug')
    BY <1>4, SucceededInv DEF IInv
  <2> QED
    BY <1>2, <1>4, <2>1, DeliveredInv DEF IInv
<1> QED
  BY <1>1, <1>3, <1>4

\* The lanes of chat know no issuer either.
LEMMA ChatAnswersInv ==
    ASSUME IInv, ClineAnswers \/ OvhAnswers
    PROVE  IInv'
<1>1. PICK verdict \in {"ok", "limited", "bad"} :
         \E backend, contents : Delivered(turn, verdict, backend, backend, FALSE, contents)
  BY DEF ClineAnswers, OvhAnswers, Starved
<1>2. PICK backend, contents : Delivered(turn, verdict, backend, backend, FALSE, contents)
  BY <1>1
<1>3. setting.lane \notin {"zen", "paid"} /\ UNCHANGED <<setting, mem, ug>>
  BY DEF ClineAnswers, OvhAnswers
<1> QED
  BY <1>2, <1>3, DeliveredInv DEF IInv

-----------------------------------------------------------------------------
(* Bodies                                                                  *)

\* Bodies that are read as a whole, and hosts that hang up.
LEMMA BodiesInv ==
    ASSUME IInv, BodyRead \/ BodyBreaks \/ HostAborts
    PROVE  IInv'
<1>1. CASE turn' = Idle /\ UNCHANGED <<mem, pipe, ug>>
  BY <1>1, OverInv DEF IInv
<1>2. CASE Directly([turn EXCEPT !.shown = "none"]) /\ UNCHANGED <<setting, pipe, ug>>
  <2> DEFINE t == [turn EXCEPT !.shown = "none"]
  <2>1. IsTurn(t) /\ t.shown = "none"
    BY DEF IInv, IsTurn, TurnFields
  <2> HIDE DEF t
  <2>2. Directly(t)
    BY <1>2 DEF t
  <2> QED
    BY <1>2, <2>1, <2>2, GoingInv DEF IInv
<1> QED
  BY <1>1, <1>2 DEF BodyRead, BodyBreaks, HostAborts

\* The events of the pipe, with the replacement they may ask for.
LEMMA PipeInvKept ==
    ASSUME IInv, PipeStep \/ PipeStalls
    PROVE  IInv'
<1>1. PipeInv(pipe') /\ Stays(pipe, pipe')
  BY PipeEventInv DEF IInv, PipeStep, PipeStalls
<1>2. /\ turn.phase = "piping" /\ UNCHANGED <<setting, mem, ug>>
      /\ turn' \in {turn, [turn EXCEPT !.stage = "first", !.sent = turn.body]}
  BY DEF PipeStep, PipeStalls, Asking
<1>3. IsTurn(turn') /\ turn'.phase = turn.phase /\ turn'.shown = turn.shown
  BY <1>2 DEF IInv, IsTurn, TurnFields
<1> QED
  BY <1>1, <1>2, <1>3 DEF IInv, Stays, SentInv, IssuerInv, HistoryHealed

\* The backend of the replacement is remembered, that of a stream without one still is.
LEMMA RefireAnswersInv ==
    ASSUME IInv, RefireAnswers
    PROVE  IInv'
<1>1. PICK backend, answer :
         /\ backend \in Backends /\ answer \in RefireVerdicts(backend)
         /\ LET more == IF setting.responses THEN Resent(turn, answer) ELSE {}
            IN \/ more # {} /\ Resend(more, answer)
               \/ /\ more = {}
                  /\ turn' = Piped(turn, turn.shown, FALSE)
                  /\ mem' = Issued(Learnt(turn, answer), answer, backend)
                  /\ ug' \in Gates(IF answer = "ok" THEN RecordUpstreamSuccess(ug, TRUE, turn.canary) ELSE {ug})
                  /\ pipe' = IF answer = "ok" THEN Rescued(pipe, backend) ELSE RescueFailed(pipe)
                  /\ UNCHANGED <<setting, origin, aged, asked>>
  BY DEF RefireAnswers
<1> DEFINE more == IF setting.responses THEN Resent(turn, answer) ELSE {}
<1>2. IsMemory(Learnt(turn, answer)) /\ Learnt(turn, answer).issuer = mem.issuer
  BY LearntFacts DEF IInv
<1>3. CASE more # {} /\ Resend(more, answer)
  <2>1. setting.responses /\ turn' \in Resent(turn, answer)
    BY <1>3 DEF Resend
  <2> QED
    BY <1>2, <1>3, <2>1, ResendInv DEF Resend, IInv
<1>4. CASE /\ turn' = Piped(turn, turn.shown, FALSE)
           /\ mem' = Issued(Learnt(turn, answer), answer, backend)
           /\ ug' \in Gates(IF answer = "ok" THEN RecordUpstreamSuccess(ug, TRUE, turn.canary) ELSE {ug})
           /\ pipe' = IF answer = "ok" THEN Rescued(pipe, backend) ELSE RescueFailed(pipe)
           /\ setting' = setting
  <2>1. turn.phase = "piping" /\ pipe.pending # "no" /\ PipeInv(pipe)
    BY DEF RefireAnswers, Refires, IInv
  <2>2. IsTurn(turn') /\ turn'.phase = "piping" /\ turn'.shown = turn.shown
    BY <1>4 DEF Piped, Idle, IsTurn, TurnFields
  <2>3. GateInv(ug')
    BY <1>4, SucceededInv DEF IInv
  <2>4. /\ IsMemory(mem')
        /\ setting.responses /\ answer = "ok" => mem'.issuer = backend
        /\ answer # "ok" => mem'.issuer = mem.issuer
    BY <1>2, <1>4, IssuedFacts
  <2>5. /\ PipeInv(pipe') /\ pipe'.gone = pipe.gone /\ pipe'.blame = pipe.blame
        /\ answer = "ok" /\ ~pipe.gone => pipe'.from = backend
        /\ answer # "ok" => pipe'.from = pipe.from
    BY <1>4, <2>1, RescuedInv, RescueFailedInv DEF Keeps
  <2> QED
    BY <1>4, <2>1, <2>2, <2>3, <2>4, <2>5 DEF IInv, SentInv, IssuerInv, HistoryHealed
<1> QED
  BY <1>1, <1>3, <1>4

\* A replacement that ends in an exception.
LEMMA RefireThrowsInv ==
    ASSUME IInv, RefireThrows
    PROVE  IInv'
<1>1. /\ turn.phase = "piping" /\ pipe.pending # "no" /\ PipeInv(pipe)
      /\ pipe' = RescueFailed(pipe) /\ turn' = Piped(turn, turn.shown, FALSE)
      /\ UNCHANGED <<setting, mem, ug>>
  BY DEF RefireThrows, Refires, IInv
<1>2. IsTurn(turn') /\ turn'.phase = "piping" /\ turn'.shown = turn.shown
  BY <1>1 DEF Piped, Idle, IsTurn, TurnFields
<1>3. PipeInv(pipe') /\ Keeps(pipe, pipe')
  BY <1>1, RescueFailedInv
<1> QED
  BY <1>1, <1>2, <1>3 DEF IInv, Keeps, SentInv, IssuerInv, HistoryHealed

-----------------------------------------------------------------------------
(* The invariant                                                           *)

\* A conversation the daemon knows nothing of.
LEMMA InitIInv ==
    ASSUME Init
    PROVE  IInv
<1>1. mem = Fresh /\ ug = GatesStart /\ turn = Idle /\ pipe = NoPipe
  BY DEF Init
<1>2. IsMemory(mem)
  BY <1>1 DEF IsMemory, Fresh
<1>3. GateInv(ug)
  <2>1. CleanGate \in Gate /\ CleanGate.gated = FALSE /\ CleanGate.due = TRUE
    <3>1. 0 \in 0..EnterAfter
      BY GatesAssumption
    <3> QED
      BY <3>1 DEF CleanGate, Gate
  <2> QED
    BY <1>1, <2>1 DEF GatesStart, GateInv, GateStates, GateSound
<1> QED
  BY <1>1, <1>2, <1>3, IdleFacts, FirstPipes DEF IInv, SentInv, IssuerInv, HistoryHealed

\* What happens around the turns.
LEMMA WorldInv ==
    ASSUME IInv, ItemAges \/ DaemonRestarts \/ OthersStep \/ PipeOver
    PROVE  IInv'
<1>1. CASE ItemAges
  BY <1>1 DEF ItemAges, IInv, SentInv, IssuerInv, HistoryHealed
<1>2. CASE DaemonRestarts
  <2>1. turn.phase = "idle" /\ UNCHANGED <<turn, pipe>> /\ \E saved : mem' = Restarted(saved)
    BY <1>2 DEF DaemonRestarts
  <2>2. IsMemory(mem')
    BY <2>1 DEF Restarted, Fresh, IsMemory
  <2>3. GateInv(ug')
    BY <1>2, RestartedInv DEF DaemonRestarts, Gates, IInv
  <2> QED
    BY <2>1, <2>2, <2>3, Rest DEF IInv, HistoryHealed
<1>3. CASE OthersStep
  BY <1>3, GatesStepInv DEF OthersStep, IInv, SentInv, IssuerInv, HistoryHealed
<1>4. CASE PipeOver
  BY <1>4, FirstPipes, OverInv DEF PipeOver, IInv
<1> QED
  BY <1>1, <1>2, <1>3, <1>4

\* Every step keeps the invariant.
LEMMA NextIInv ==
    ASSUME IInv, [Next]_turnVars
    PROVE  IInv'
<1>1. CASE UNCHANGED turnVars
  BY <1>1 DEF turnVars, IInv, SentInv, IssuerInv, HistoryHealed
<1> QED
  BY <1>1, HostAsksInv, RelayAnswersInv, DirectAnswersInv, ThrowsInv, KiloAnswersInv,
     ChatAnswersInv, BodiesInv, PipeInvKept, RefireAnswersInv, RefireThrowsInv, WorldInv DEF Next

\* IInv holds of every state: the pipe owes nothing, the gate and its file agree, what is sent
\* has less and less in it to be refused, and the issuer is the backend of the stream.
THEOREM Invariance == Spec => []IInv
<1> QED
  BY InitIInv, NextIInv, PTL DEF Spec

\* A host that got any of an event stream gets a terminal event with it, whichever way the
\* stream broke, was held or was replaced.  (ensureTerminalEvent)
THEOREM TerminalSent == Spec => []TerminalOwed
<1>1. IInv => TerminalOwed
  BY DEF IInv, PipeInv, Owed, TerminalOwed
<1> QED
  BY <1>1, Invariance, PTL

\* A restart finds the gate as it was, whatever saves were throttled and whoever else wrote
\* the file.  (upstream-health.ts, persist)
THEOREM GateSurvivesRestarts == Spec => []GateSurvives
<1>1. IInv => GateSurvives
  BY DEF IInv, GateInv, GateSound, GateSurvives
<1> QED
  BY <1>1, Invariance, PTL

\* The next turn goes to the backend whose stream the host was left with.  (rememberIssuerRelay)
THEOREM IssuerIsTheServer == Spec => []IssuerServed
<1>1. IInv => IssuerServed
  BY DEF IInv, IssuerInv, IssuerServed
<1> QED
  BY <1>1, Invariance, PTL

\* The host is never shown that a backend cannot read its history.
\* (retryWithoutReasoningEncryption)
THEOREM HistoryIsHealed == Spec => []HistoryHealed
<1>1. IInv => HistoryHealed
  BY DEF IInv
<1> QED
  BY <1>1, Invariance, PTL

-----------------------------------------------------------------------------
(* Replacements                                                            *)

\* The first stream of a response is no replacement.
LEMMA FirstLeg ==
    ASSUME IInv, \/ UNCHANGED pipe
                 \/ pipe' = NoPipe
                 \/ \E t, answer, backend, blame, hook, contents :
                       Delivered(t, answer, backend, blame, hook, contents)
    PROVE  ~(pipe'.leg > pipe.leg)
<1>1. pipe.leg \in {1, 2}
  BY DEF IInv, PipeInv, Steady
<1>2. pipe' = pipe \/ pipe'.leg = 1
  BY FirstPipes DEF Delivered
<1> QED
  BY <1>1, <1>2

\* One that is asked for in place of a stream is asked for without a tool call.
LEMMA ReplacedToolless ==
    ASSUME IInv, RefireAnswers \/ RefireThrows
    PROVE  pipe'.leg > pipe.leg => ~pipe.tool
<1>1. pipe.pending # "no"
  BY DEF RefireAnswers, RefireThrows, Refires
<1> QED
  BY <1>1 DEF IInv, PipeInv, Steady

\* Once a tool call has been forwarded the turn is never generated again.  (sawToolCall)
THEOREM ToolsAreCalledOnce == Spec => ToolsOnce
<1>1. IInv /\ [Next]_turnVars => [pipe'.leg > pipe.leg => ~pipe.tool]_pipe
  <2> SUFFICES ASSUME IInv, [Next]_turnVars
               PROVE  (pipe'.leg > pipe.leg => ~pipe.tool) \/ pipe' = pipe
    OBVIOUS
  <2>1. CASE PipeStep \/ PipeStalls
    <3>1. pipe'.leg = pipe.leg /\ pipe.leg \in {1, 2}
      BY <2>1, PipeEventInv DEF PipeStep, PipeStalls, Stays, IInv, PipeInv, Steady
    <3> QED
      BY <3>1
  <2>2. CASE RefireAnswers \/ RefireThrows
    BY <2>2, ReplacedToolless
  <2>3. CASE \/ RelayAnswers \/ DirectAnswers \/ KiloAnswers \/ ClineAnswers \/ OvhAnswers
    <3>1. \/ UNCHANGED pipe
          \/ \E t, answer, backend, blame, hook, contents :
                Delivered(t, answer, backend, blame, hook, contents)
      BY <2>3 DEF RelayAnswers, DirectAnswers, KiloAnswers, ClineAnswers, OvhAnswers, Resend
    <3> QED
      BY <3>1, FirstLeg
  <2>4. CASE PipeOver
    BY <2>4, FirstLeg DEF PipeOver
  <2> QED
    BY <2>1, <2>2, <2>3, <2>4
    DEF Next, turnVars, HostAsks, RelayThrows, DirectThrows, KiloThrows, ChatThrows, BodyRead,
        BodyBreaks, HostAborts, ItemAges, DaemonRestarts, OthersStep
<1> QED
  BY <1>1, Invariance, PTL DEF Spec, ToolsOnce

-----------------------------------------------------------------------------
(* The calls of a stream, as the cloak, the host, the recorder and the     *)
(* aggregation know them                                                   *)

\* A call of which the host knows nothing.
Blank(call) == call.name = Unnamed /\ call.args = Silent /\ ~call.buffered /\ ~call.flushed

\* The calls that the cloak tracks have indices of their own.
CloakInv(k) ==
    /\ k = [calls |-> k.calls, owner |-> k.owner, claims |-> k.claims, next |-> k.next]
    /\ k.calls \in [DOMAIN k.calls -> Call]
    /\ DOMAIN k.claims \subseteq Nat /\ k.next \in Nat
    /\ \A i \in DOMAIN k.claims : i < k.next
    /\ \A c \in DOMAIN k.calls :
          /\ k.calls[c].host \in DOMAIN k.claims
          /\ k.calls[c].buffered => k.calls[c].name # Unnamed /\ ~k.calls[c].flushed
          /\ \A o \in DOMAIN k.calls : k.calls[o].host = k.calls[c].host => o = c

\* The host hears of calls only; one it has not heard of is blank.
CloakHeard(k, heard) ==
    /\ \A i \in DOMAIN heard : \E c \in DOMAIN k.calls : k.calls[c].host = i
    /\ \A c \in DOMAIN k.calls : k.calls[c].host \notin DOMAIN heard => Blank(k.calls[c])

\* What is kept back of a call, and the name of one that was released.
KeptBack(call) == IF call.buffered THEN call.args ELSE Silent
Visible(call) == IF call.flushed THEN call.name \o call.name ELSE call.name

\* A call of chat that the host has, and the record of it.  Arguments go past a call that
\* is withheld only once its name has become that of no tool; a release without any
\* repeats the name.
ChatCall(call, had, rec, a) ==
    /\ ~call.dropped /\ call.name = a.name
    /\ had.name = Visible(call) /\ had.args \o KeptBack(call) = a.args
    /\ rec.args = had.args
    /\ call.buffered => a.name \notin Declared \/ (a.name \in Repairable /\ had.args = Silent)
    /\ \/ rec.name = a.name
       \/ /\ call.flushed /\ rec.name = a.name \o a.name
          /\ a.args = Silent \/ a.name \notin Declared

\* A call of chat in one stream: unheard of, a placeholder, or one that the host has.
Standing(call, i, heard, aud, a) ==
    /\ a \in Heard
    /\ a.name = Unnamed => a.args = Silent /\ Blank(call) /\ i \notin DOMAIN heard
    /\ a.name \in Injected => call.dropped /\ i \notin DOMAIN heard
    /\ a.name \notin Injected \cup {Unnamed} => i \in DOMAIN heard /\ ChatCall(call, heard[i], aud[i], a)

ChatInv(k, heard, aud, agg) ==
    /\ IsFiniteSet(DOMAIN agg.calls) /\ agg.calls = [c \in DOMAIN agg.calls |-> agg.calls[c]]
    /\ \A c \in DOMAIN agg.calls :
          /\ c \in DOMAIN k.calls /\ agg.calls[c].name # Unnamed
          /\ Standing(k.calls[c], k.calls[c].host, heard, aud, agg.calls[c])
    /\ \A c \in DOMAIN k.calls \ DOMAIN agg.calls : k.calls[c].host \notin DOMAIN heard

\* Calls announced under indices of their own: 0, 1, ...
Announcement(agg) ==
    /\ agg.calls \in [DOMAIN agg.calls -> Heard]
    /\ Cardinality(DOMAIN agg.calls) \in Nat
    /\ DOMAIN agg.calls = 0..(Cardinality(DOMAIN agg.calls) - 1)
    /\ agg.open \subseteq DOMAIN agg.calls

\* A call of Messages in one stream: hidden, or one that the host and the record have.
MessageCall(call, i, open, b, heard, aud) ==
    IF call.name \in Injected
    THEN i \notin DOMAIN heard /\ i \notin DOMAIN b.held /\ (open => i \in b.dropped)
    ELSE /\ i \in DOMAIN heard /\ i \notin b.dropped
         /\ heard[i].name = call.name
         /\ heard[i].args \o HeldOf(b, i) = call.args
         /\ aud[i] = heard[i]

MessagesInv(b, heard, aud, agg) ==
    /\ DOMAIN heard \subseteq DOMAIN agg.calls
    /\ \A i \in DOMAIN agg.calls : MessageCall(agg.calls[i], i, i \in agg.open, b, heard, aud)

\* A call of Responses: hidden, begun, or over, which is when the host takes it.
ResponseCall(call, i, open, b, heard, aud) ==
    IF call.name \in Injected THEN i \notin DOMAIN heard /\ i \in b.dropped
    ELSE /\ i \in DOMAIN heard /\ i \notin b.dropped
         /\ heard[i] = IF open THEN [name |-> Unnamed, args |-> Silent] ELSE call
         /\ aud[i] = call

ResponsesInv(b, heard, aud, agg) ==
    /\ DOMAIN heard \subseteq DOMAIN agg.calls
    /\ agg.whole => agg.open = {}
    /\ \A i \in DOMAIN agg.calls : ResponseCall(agg.calls[i], i, i \in agg.open, b, heard, aud)

\* What is withheld of Messages calls.
AreHeld(b) ==
    /\ b = [dropped |-> b.dropped, held |-> b.held]
    /\ b.held \in [DOMAIN b.held -> Seq(Nat)]

\* What is aggregated of a stream.
IsAggregate(a) ==
    a = [calls |-> a.calls, owner |-> a.owner, odd |-> a.odd, open |-> a.open, whole |-> a.whole]

\* What comes next of a call that is announced, or of one of chat.
Announces(cloak, agg, d) ==
    /\ d.name \in Seq(Pieces) /\ d.args \in Seq(Nat)
    /\ \/ /\ d.part = "start" /\ d.idx = Cardinality(DOMAIN agg.calls)
          /\ d.name # Unnamed /\ d.args = Silent
       \/ d.part = "more" /\ d.idx \in agg.open /\ d.name = Unnamed
       \/ /\ d.part = "stop" /\ d.idx \in agg.open
          /\ cloak = "responses" => d.name = agg.calls[d.idx].name /\ d.args = agg.calls[d.idx].args

Fits(p, d) ==
    IF p.cloak = "chat"
    THEN /\ d \in [idx : Nat, id : CallIds \cup {NoId}, name : Seq(Pieces), args : Seq(Nat)]
         /\ \A c \in DOMAIN p.k.calls : ~p.k.calls[c].flushed
    ELSE ~p.terminal /\ Announces(p.cloak, p.agg, d)

Tailed(p) ==
    p.tail.kind = "call" =>
        /\ p.gate = "sse" /\ p.cloak # "none"
        /\ ~p.ended /\ p.pending = "no" => Fits(p, p.tail.d)

\* Whatever the shape of the calls.
Tracks(p) ==
    /\ IsAggregate(p.agg) /\ AreHeld(p.b) /\ p.cloak \in Cloaks
    /\ p.heard \in [DOMAIN p.heard -> Heard]
    /\ p.cloak # "none" => p.aud \in [DOMAIN p.heard -> Heard]
    /\ ~p.tool => DOMAIN p.heard = {}
    /\ p.cloak = "chat" => CloakInv(p.k) /\ CloakHeard(p.k, p.heard)
    /\ p.cloak = "messages" => DOMAIN p.b.held \subseteq DOMAIN p.heard
    /\ p.cloak \in {"messages", "responses"} => Announcement(p.agg)

\* Of calls of the known shapes.
InStep(p) ==
    /\ p.cloak = "chat" => ChatInv(p.k, p.heard, p.aud, p.agg)
    /\ p.cloak = "messages" => MessagesInv(p.b, p.heard, p.aud, p.agg)
    /\ p.cloak = "responses" => ResponsesInv(p.b, p.heard, p.aud, p.agg)

Data(p) == Tracks(p) /\ (~p.agg.odd => InStep(p))

\* Nothing is kept back for ever.
Drained(p) ==
    /\ p.cloak = "chat" => Withheld(p.k) = {}
    /\ p.cloak = "messages" => DOMAIN p.b.held = {}

\* A response of Responses is completed at the end only.
WholeLast(p) ==
    p.agg.whole /\ p.cloak = "responses" => p.terminal \/ p.pending # "no" \/ p.ended

\* The calls of a pipe whose host is there.
Followed(p) == Data(p) /\ Tailed(p) /\ WholeLast(p) /\ (p.ended /\ p.gate = "sse" => Drained(p))

CallsInv(p) ==
    /\ p.gone => p.ended \/ p.pending # "no"
    /\ ~p.gone => Followed(p)

-----------------------------------------------------------------------------
(* Maps that grow, and what they are told                                  *)

\* A map after one of its values is set.
LEMMA WithFacts ==
    ASSUME NEW f, NEW x, NEW v
    PROVE  /\ DOMAIN With(f, x, v) = DOMAIN f \cup {x}
           /\ With(f, x, v)[x] = v
           /\ \A y \in DOMAIN f : y # x => With(f, x, v)[y] = f[y]
BY DEF With

\* ... of the same kind.
LEMMA WithTyped ==
    ASSUME NEW S, NEW f, f \in [DOMAIN f -> S], NEW x, NEW v \in S
    PROVE  With(f, x, v) \in [DOMAIN f \cup {x} -> S]
BY DEF With

\* Blocks that say one thing of each index.
OfEach(out) == \A o \in out : \A u \in out : o.at = u.at => o = u

\* Sequences are put together as they come.
LEMMA Appending ==
    ASSUME NEW S, NEW s \in Seq(S), NEW t \in Seq(S)
    PROVE  /\ s \o t \in Seq(S)
           /\ s \o <<>> = s /\ <<>> \o s = s
           /\ s \o t = <<>> <=> s = <<>> /\ t = <<>>
           /\ s # <<>> => s \o t # t /\ t \o s # t
OBVIOUS

\* The host appends what it is told of an index.
LEMMA HearsAt ==
    ASSUME NEW host, NEW out, OfEach(out), NEW o \in out
    PROVE  Hears(host, out)[o.at] =
             [name |-> CallAt(host, o.at).name \o o.name, args |-> CallAt(host, o.at).args \o o.args]
<1>1. {u \in out : u.at = o.at} = {o}
  BY DEF OfEach
<1>2. (CHOOSE u \in {o} : TRUE) = o
  OBVIOUS
<1> QED
  BY <1>1, <1>2 DEF Hears, CallAt

\* ... and keeps the rest.
LEMMA HearsElse ==
    ASSUME NEW host, NEW out, NEW i \in DOMAIN host, \A o \in out : o.at # i
    PROVE  Hears(host, out)[i] = host[i]
<1>1. {u \in out : u.at = i} = {}
  OBVIOUS
<1> QED
  BY <1>1 DEF Hears

\* The recorder does the same, with names in its own way.
LEMMA ObserveAt ==
    ASSUME NEW calls, NEW dialect, NEW out, OfEach(out), NEW o \in out
    PROVE  ObserveFragments(calls, dialect, out)[o.at] =
             [name |-> Named(dialect, CallAt(calls, o.at).name, o),
              args |-> CallAt(calls, o.at).args \o o.args]
<1>1. {u \in out : u.at = o.at} = {o}
  BY DEF OfEach
<1>2. (CHOOSE u \in {o} : TRUE) = o
  OBVIOUS
<1> QED
  BY <1>1, <1>2 DEF ObserveFragments

\* ... and keeps the rest.
LEMMA ObserveElse ==
    ASSUME NEW calls, NEW dialect, NEW out, NEW i \in DOMAIN calls, \A o \in out : o.at # i
    PROVE  ObserveFragments(calls, dialect, out)[i] = calls[i]
<1>1. {u \in out : u.at = i} = {}
  OBVIOUS
<1> QED
  BY <1>1 DEF ObserveFragments, CallAt

\* Nothing is said: nothing changes.
LEMMA SilentFacts ==
    ASSUME NEW host, host \in [DOMAIN host -> Heard], NEW dialect
    PROVE  Hears(host, Nothing) = host /\ ObserveFragments(host, dialect, Nothing) = host
<1>1. host = [i \in DOMAIN host |-> host[i]]
  OBVIOUS
<1>2. DOMAIN host \cup {o.at : o \in Nothing} = DOMAIN host
  BY DEF Nothing
<1>3. \A i : {o \in Nothing : o.at = i} = {}
  BY DEF Nothing
<1>4. Hears(host, Nothing) = [i \in DOMAIN host |-> host[i]]
  BY <1>2, <1>3 DEF Hears
<1>5. ObserveFragments(host, dialect, Nothing) = [i \in DOMAIN host |-> host[i]]
  BY <1>2, <1>3 DEF ObserveFragments, CallAt
<1> QED
  BY <1>1, <1>4, <1>5

\* One thing is said.
LEMMA SentFacts ==
    ASSUME NEW at, NEW name, NEW args
    PROVE  /\ OfEach(Sent(at, name, args)) /\ Sent(at, name, args) # Nothing
           /\ {o.at : o \in Sent(at, name, args)} = {at}
           /\ \A o \in Sent(at, name, args) : o.at = at /\ o.name = name /\ o.args = args
BY DEF OfEach, Sent, Nothing

-----------------------------------------------------------------------------
(* One delta of a call of chat                                             *)

DeltaType == [idx : Nat, id : CallIds \cup {NoId}, name : Seq(Pieces), args : Seq(Nat)]

\* The call of a delta is the same before and after the delta is counted.
LEMMA KeyKept ==
    ASSUME NEW owner, NEW d
    PROVE  KeyOf(Owning(owner, d), d) = KeyOf(owner, d)
BY DEF KeyOf, Owning, With

\* A call that is tracked has an index of its own.
LEMMA TrackedFacts ==
    ASSUME NEW k, CloakInv(k), NEW d, d.idx \in Nat
    PROVE  LET t == Tracked(k, d)
               key == KeyOf(k.owner, d)
           IN /\ CloakInv(t) /\ KeyOf(t.owner, d) = key
              /\ DOMAIN t.calls = DOMAIN k.calls \cup {key}
              /\ \A c \in DOMAIN k.calls : t.calls[c] = k.calls[c]
              /\ key \notin DOMAIN k.calls =>
                   /\ t.calls[key] = CallStart(t.calls[key].host)
                   /\ \A c \in DOMAIN k.calls : k.calls[c].host # t.calls[key].host
<1> DEFINE key   == KeyOf(k.owner, d)
           next  == Larger(k.next, d.idx + 1)
           taken == d.idx \in DOMAIN k.claims
           at    == IF taken THEN next ELSE d.idx
           more  == With(k.calls, key, CallStart(at))
           held  == With(k.claims, at, key)
           own   == Owning(k.owner, d)
           t     == Tracked(k, d)
<1>1. /\ k = [calls |-> k.calls, owner |-> k.owner, claims |-> k.claims, next |-> k.next]
      /\ k.calls \in [DOMAIN k.calls -> Call]
      /\ DOMAIN k.claims \subseteq Nat /\ k.next \in Nat
      /\ \A i \in DOMAIN k.claims : i < k.next
  BY DEF CloakInv
<1>2. next \in Nat /\ k.next <= next /\ d.idx < next
  BY <1>1 DEF Larger
<1>3. /\ key \in DOMAIN k.calls => t = [k EXCEPT !.owner = own, !.next = next]
      /\ key \notin DOMAIN k.calls =>
           t = [owner |-> own, next |-> IF taken THEN next + 1 ELSE next, claims |-> held, calls |-> more]
  BY DEF Tracked
<1>4. KeyOf(own, d) = key
  BY KeyKept
<1> HIDE DEF next, own, t, key
<1>5. CASE key \in DOMAIN k.calls
  <2>1. t = [calls |-> k.calls, owner |-> own, claims |-> k.claims, next |-> next]
    BY <1>1, <1>3, <1>5
  <2>2. /\ t.calls = k.calls /\ t.claims = k.claims /\ t.next = next /\ t.owner = own
        /\ t = [calls |-> t.calls, owner |-> t.owner, claims |-> t.claims, next |-> t.next]
    BY <2>1
  <2>3. \A i \in DOMAIN k.claims : i < next
    BY <1>1, <1>2
  <2>4. CloakInv(t)
    BY <1>2, <2>2, <2>3 DEF CloakInv
  <2> QED
    BY <1>4, <1>5, <2>2, <2>4 DEF t, key
<1>6. CASE key \notin DOMAIN k.calls
  <2>1. /\ t.calls = more /\ t.owner = own /\ t.claims = held
        /\ t.next = IF taken THEN next + 1 ELSE next
        /\ t = [calls |-> t.calls, owner |-> t.owner, claims |-> t.claims, next |-> t.next]
    BY <1>3, <1>6
  <2>2. at \in Nat /\ at \notin DOMAIN k.claims /\ at < t.next
    BY <1>1, <1>2, <2>1
  <2> HIDE DEF at, taken
  <2>3. CallStart(at) \in Call /\ CallStart(at).host = at
    BY <2>2 DEF CallStart, Call, Unnamed, Silent
  <2>4. /\ DOMAIN more = DOMAIN k.calls \cup {key} /\ more[key] = CallStart(at)
        /\ \A c \in DOMAIN k.calls : more[c] = k.calls[c]
        /\ more \in [DOMAIN more -> Call]
    <3>1. /\ DOMAIN more = DOMAIN k.calls \cup {key} /\ more[key] = CallStart(at)
          /\ \A c \in DOMAIN k.calls : c # key => more[c] = k.calls[c]
      BY DEF With
    <3>2. more \in [DOMAIN k.calls \cup {key} -> Call]
      BY <1>1, <2>3, WithTyped
    <3> QED
      BY <1>6, <3>1, <3>2
  <2>5. DOMAIN held = DOMAIN k.claims \cup {at}
    BY WithFacts
  <2> HIDE DEF more, held
  <2>6. \A c \in DOMAIN k.calls : k.calls[c].host \in DOMAIN k.claims /\ k.calls[c].host # at
    BY <2>2 DEF CloakInv
  <2>7. ~CallStart(at).buffered
    BY DEF CallStart
  <2>8. CloakInv(t)
    <3>1. \A i \in DOMAIN t.claims : i < t.next
      BY <1>1, <1>2, <2>1, <2>2, <2>5
    <3>2. ASSUME NEW c \in DOMAIN t.calls
          PROVE  /\ t.calls[c].host \in DOMAIN t.claims
                 /\ t.calls[c].buffered => t.calls[c].name # Unnamed /\ ~t.calls[c].flushed
                 /\ \A o \in DOMAIN t.calls : t.calls[o].host = t.calls[c].host => o = c
      <4>1. CASE c = key
        BY <2>1, <2>3, <2>4, <2>5, <2>6, <2>7, <4>1
      <4>2. CASE c \in DOMAIN k.calls
        BY <2>1, <2>3, <2>4, <2>5, <2>6, <4>2 DEF CloakInv
      <4> QED
        BY <2>1, <2>4, <4>1, <4>2
    <3>3. DOMAIN t.claims \subseteq Nat /\ t.next \in Nat
      BY <1>1, <1>2, <2>1, <2>2, <2>5
    <3> QED
      BY <2>1, <2>4, <3>1, <3>2, <3>3 DEF CloakInv
  <2> QED
    BY <1>4, <1>6, <2>1, <2>3, <2>4, <2>6, <2>8 DEF t, key
<1> QED
  BY <1>5, <1>6

\* A call that is rewritten stays where it is.
LEMMA RewrittenFacts ==
    ASSUME NEW t, CloakInv(t), NEW key \in DOMAIN t.calls, NEW call \in Call, NEW out,
           call.host = t.calls[key].host,
           call.buffered => call.name # Unnamed /\ ~call.flushed
    PROVE  LET r == Rewritten(t, key, call, out)
           IN /\ CloakInv(r.k) /\ r.out = out
              /\ DOMAIN r.k.calls = DOMAIN t.calls /\ r.k.calls[key] = call
              /\ \A c \in DOMAIN t.calls : c # key => r.k.calls[c] = t.calls[c]
<1> DEFINE u == [t EXCEPT !.calls[key] = call]
<1>1. /\ t = [calls |-> t.calls, owner |-> t.owner, claims |-> t.claims, next |-> t.next]
      /\ t.calls \in [DOMAIN t.calls -> Call]
  BY DEF CloakInv
<1>2. /\ u = [calls |-> u.calls, owner |-> u.owner, claims |-> u.claims, next |-> u.next]
      /\ u.calls = [t.calls EXCEPT ![key] = call]
      /\ u.owner = t.owner /\ u.claims = t.claims /\ u.next = t.next
  BY <1>1
<1>3. /\ DOMAIN u.calls = DOMAIN t.calls /\ u.calls[key] = call
      /\ \A c \in DOMAIN t.calls : c # key => u.calls[c] = t.calls[c]
      /\ u.calls \in [DOMAIN u.calls -> Call]
  BY <1>1, <1>2
<1>4. Rewritten(t, key, call, out).k = u /\ Rewritten(t, key, call, out).out = out
  BY DEF Rewritten
<1> HIDE DEF u
<1>5. CloakInv(u)
  BY <1>2, <1>3 DEF CloakInv
<1> QED
  BY <1>3, <1>4, <1>5

\* What is said of calls.
Said(out) == \A o \in out : o.name \in Seq(Pieces) /\ o.args \in Seq(Nat)

\* A call that is added to a map of calls.
LEMMA CallTyped ==
    ASSUME NEW calls, calls \in [DOMAIN calls -> Heard], NEW i
    PROVE  CallAt(calls, i).name \in Seq(Pieces) /\ CallAt(calls, i).args \in Seq(Nat)
<1>1. Unnamed \in Seq(Pieces) /\ Silent \in Seq(Nat)
  BY DEF Unnamed, Silent
<1> QED
  BY <1>1 DEF CallAt, Heard

\* What is heard has the form of calls.
LEMMA HearsTyped ==
    ASSUME NEW host, host \in [DOMAIN host -> Heard], NEW out, Said(out), OfEach(out)
    PROVE  Hears(host, out) \in [DOMAIN host \cup {o.at : o \in out} -> Heard]
<1> DEFINE h == Hears(host, out)
<1>1. DOMAIN h = DOMAIN host \cup {o.at : o \in out} /\ h = [i \in DOMAIN h |-> h[i]]
  BY DEF Hears
<1>2. ASSUME NEW o \in out
      PROVE  h[o.at] \in Heard
  <2>1. o.name \in Seq(Pieces) /\ o.args \in Seq(Nat)
    BY DEF Said
  <2>2. CallAt(host, o.at).name \o o.name \in Seq(Pieces)
    BY <2>1, CallTyped, Appending
  <2>3. CallAt(host, o.at).args \o o.args \in Seq(Nat)
    BY <2>1, CallTyped, Appending
  <2>4. h[o.at] = [name |-> CallAt(host, o.at).name \o o.name,
                   args |-> CallAt(host, o.at).args \o o.args]
    BY HearsAt
  <2> QED
    BY <2>2, <2>3, <2>4 DEF Heard
<1>3. ASSUME NEW i \in DOMAIN host, \A o \in out : o.at # i
      PROVE  h[i] \in Heard
  BY <1>3, HearsElse
<1> HIDE DEF h
<1>4. \A i \in DOMAIN h : h[i] \in Heard
  BY <1>1, <1>2, <1>3
<1> QED
  BY <1>1, <1>4 DEF h

\* The record of what is heard, too.
LEMMA ObserveTyped ==
    ASSUME NEW calls, calls \in [DOMAIN calls -> Heard], NEW dialect,
           NEW out, Said(out), OfEach(out)
    PROVE  ObserveFragments(calls, dialect, out) \in [DOMAIN calls \cup {o.at : o \in out} -> Heard]
<1> DEFINE a == ObserveFragments(calls, dialect, out)
<1>1. DOMAIN a = DOMAIN calls \cup {o.at : o \in out} /\ a = [i \in DOMAIN a |-> a[i]]
  BY DEF ObserveFragments
<1>2. ASSUME NEW o \in out
      PROVE  a[o.at] \in Heard
  <2>1. o.name \in Seq(Pieces) /\ o.args \in Seq(Nat)
    BY DEF Said
  <2>2. CallAt(calls, o.at).name \o o.name \in Seq(Pieces)
    BY <2>1, CallTyped, Appending
  <2>3. CallAt(calls, o.at).args \o o.args \in Seq(Nat)
    BY <2>1, CallTyped, Appending
  <2>4. Named(dialect, CallAt(calls, o.at).name, o) \in Seq(Pieces)
    BY <2>1, <2>2, CallTyped DEF Named, Accumulated
  <2>5. a[o.at] = [name |-> Named(dialect, CallAt(calls, o.at).name, o),
                   args |-> CallAt(calls, o.at).args \o o.args]
    BY ObserveAt
  <2> QED
    BY <2>3, <2>4, <2>5 DEF Heard
<1>3. ASSUME NEW i \in DOMAIN calls, \A o \in out : o.at # i
      PROVE  a[i] \in Heard
  BY <1>3, ObserveElse
<1> HIDE DEF a
<1>4. \A i \in DOMAIN a : a[i] \in Heard
  BY <1>1, <1>2, <1>3
<1> QED
  BY <1>1, <1>4 DEF a

\* The host, of one saying.
LEMMA HearsSent ==
    ASSUME NEW host, NEW at, NEW name, NEW args
    PROVE  Hears(host, Sent(at, name, args)) =
             With(host, at, [name |-> CallAt(host, at).name \o name,
                             args |-> CallAt(host, at).args \o args])
<1> DEFINE o == [at |-> at, name |-> name, args |-> args]
           out == Sent(at, name, args)
           w == [name |-> CallAt(host, at).name \o name, args |-> CallAt(host, at).args \o args]
<1>1. /\ OfEach(out) /\ {u.at : u \in out} = {at}
      /\ o \in out /\ o.at = at /\ o.name = name /\ o.args = args
      /\ \A u \in out : u.at = at
  BY DEF Sent, OfEach
<1> HIDE DEF out, o
<1>2. DOMAIN Hears(host, out) = DOMAIN host \cup {at}
  BY <1>1 DEF Hears
<1>3. Hears(host, out)[at] = w
  <2>1. o \in out /\ OfEach(out)
    BY <1>1
  <2>2. Hears(host, out)[o.at] =
          [name |-> CallAt(host, o.at).name \o o.name, args |-> CallAt(host, o.at).args \o o.args]
    BY <2>1, HearsAt
  <2> QED
    BY <1>1, <2>2
<1>4. ASSUME NEW i \in DOMAIN host, i # at
      PROVE  Hears(host, out)[i] = host[i]
  BY <1>1, <1>4, HearsElse
<1>5. Hears(host, out) = [i \in DOMAIN Hears(host, out) |-> Hears(host, out)[i]]
  BY DEF Hears
<1> HIDE DEF w
<1>6. Hears(host, out) = With(host, at, w)
  BY <1>2, <1>3, <1>4, <1>5 DEF With
<1> QED
  BY <1>6 DEF out, w

\* The recorder, of one saying.
LEMMA ObserveSent ==
    ASSUME NEW calls, NEW dialect, NEW at, NEW name, NEW args
    PROVE  ObserveFragments(calls, dialect, Sent(at, name, args)) =
             With(calls, at, [name |-> Named(dialect, CallAt(calls, at).name,
                                             [at |-> at, name |-> name, args |-> args]),
                              args |-> CallAt(calls, at).args \o args])
<1> DEFINE o == [at |-> at, name |-> name, args |-> args]
           out == Sent(at, name, args)
           w == [name |-> Named(dialect, CallAt(calls, at).name, o),
                 args |-> CallAt(calls, at).args \o args]
           b == ObserveFragments(calls, dialect, out)
<1>1. /\ OfEach(out) /\ {u.at : u \in out} = {at}
      /\ o \in out /\ o.at = at /\ o.name = name /\ o.args = args
      /\ \A u \in out : u.at = at
  BY DEF Sent, OfEach
<1> HIDE DEF out, o
<1>2. DOMAIN b = DOMAIN calls \cup {at}
  BY <1>1 DEF ObserveFragments
<1>3. b[at] = w
  <2>1. o \in out /\ OfEach(out)
    BY <1>1
  <2>2. b[o.at] = [name |-> Named(dialect, CallAt(calls, o.at).name, o),
                   args |-> CallAt(calls, o.at).args \o o.args]
    BY <2>1, ObserveAt
  <2> QED
    BY <1>1, <2>2
<1>4. ASSUME NEW i \in DOMAIN calls, i # at
      PROVE  b[i] = calls[i]
  BY <1>1, <1>4, ObserveElse
<1>5. b = [i \in DOMAIN b |-> b[i]]
  BY DEF ObserveFragments
<1> HIDE DEF w, b
<1>6. b = With(calls, at, w)
  BY <1>2, <1>3, <1>4, <1>5 DEF With
<1> QED
  BY <1>6 DEF out, w, o, b

\* What is said in one piece has the form of a call, for the host and the recorder.
LEMMA SentTyped ==
    ASSUME NEW calls, calls \in [DOMAIN calls -> Heard], NEW dialect,
           NEW at \in Nat, NEW name \in Seq(Pieces), NEW args \in Seq(Nat)
    PROVE  /\ Hears(calls, Sent(at, name, args)) \in [DOMAIN calls \cup {at} -> Heard]
           /\ ObserveFragments(calls, dialect, Sent(at, name, args)) \in [DOMAIN calls \cup {at} -> Heard]
<1> DEFINE o == [at |-> at, name |-> name, args |-> args]
<1>1. /\ CallAt(calls, at).name \o name \in Seq(Pieces)
      /\ CallAt(calls, at).args \o args \in Seq(Nat)
  BY CallTyped, Appending
<1>2. o.name = name /\ o.args = args
  OBVIOUS
<1> HIDE DEF o
<1>3. Named(dialect, CallAt(calls, at).name, o) \in Seq(Pieces)
  BY <1>1, <1>2, CallTyped DEF Named, Accumulated
<1> DEFINE v == [name |-> CallAt(calls, at).name \o name, args |-> CallAt(calls, at).args \o args]
           w == [name |-> Named(dialect, CallAt(calls, at).name, o),
                 args |-> CallAt(calls, at).args \o args]
<1>4. v \in Heard /\ w \in Heard
  BY <1>1, <1>3 DEF Heard
<1>5. Hears(calls, Sent(at, name, args)) = With(calls, at, v)
  BY HearsSent
<1>8. ObserveFragments(calls, dialect, Sent(at, name, args)) = With(calls, at, w)
  BY ZenonT(60), ObserveSent DEF o
<1> HIDE DEF v, w
<1>6. With(calls, at, v) \in [DOMAIN calls \cup {at} -> Heard]
  BY <1>4, WithTyped
<1>7. With(calls, at, w) \in [DOMAIN calls \cup {at} -> Heard]
  BY <1>4, WithTyped
<1> QED
  BY <1>5, <1>6, <1>7, <1>8

\* A delta as it is rewritten, given the call it belongs to.
Turns(call, d, new, out) ==
    LET name  == Accumulated(call.name, d.name, d.args # Silent)
        again == d.args # Silent /\ name = call.name
        shown == IF again THEN Unnamed ELSE d.name
        named == [call EXCEPT !.name = name, !.dropped = FALSE]
    IN CASE d.name = Unnamed /\ call.dropped -> new = call /\ out = Nothing
         [] d.name = Unnamed /\ ~call.dropped /\ call.buffered ->
              new = [call EXCEPT !.args = @ \o d.args] /\ out = Nothing
         [] d.name = Unnamed /\ ~call.dropped /\ ~call.buffered ->
              new = call /\ out = Sent(call.host, Unnamed, d.args)
         [] d.name # Unnamed /\ d.name \in Injected ->
              new = [call EXCEPT !.dropped = TRUE] /\ out = Nothing
         [] d.name # Unnamed /\ d.name \notin Injected /\ Withholds(call, name) ->
              /\ new = [named EXCEPT !.buffered = TRUE, !.args = d.args]
              /\ out = IF again THEN Nothing ELSE Sent(call.host, shown, Silent)
         [] d.name # Unnamed /\ d.name \notin Injected /\ ~Withholds(call, name) ->
              new = named /\ out = Sent(call.host, shown, d.args)

\* That is what the cloak does.
LEMMA RewriteTurns ==
    ASSUME NEW t, NEW key, NEW d
    PROVE  \E new, out :
             /\ Turns(t.calls[key], d, new, out)
             /\ Rewritten(t, key, new, out) =
                  IF d.name # Unnamed THEN RewriteNamed(t, key, d) ELSE RewriteNameless(t, key, d)
<1> DEFINE call  == t.calls[key]
           name  == Accumulated(call.name, d.name, d.args # Silent)
           again == d.args # Silent /\ name = call.name
           shown == IF again THEN Unnamed ELSE d.name
           named == [call EXCEPT !.name = name, !.dropped = FALSE]
           R(new, out) == /\ Turns(call, d, new, out)
                          /\ Rewritten(t, key, new, out) =
                               IF d.name # Unnamed THEN RewriteNamed(t, key, d)
                               ELSE RewriteNameless(t, key, d)
<1>1. CASE d.name = Unnamed /\ call.dropped
  <2>1. R(call, Nothing)
    BY <1>1 DEF Turns, RewriteNameless
  <2> QED
    BY <2>1
<1>2. CASE d.name = Unnamed /\ ~call.dropped /\ call.buffered
  <2>1. R([call EXCEPT !.args = @ \o d.args], Nothing)
    BY <1>2 DEF Turns, RewriteNameless
  <2> QED
    BY <2>1
<1>3. CASE d.name = Unnamed /\ ~call.dropped /\ ~call.buffered
  <2>1. R(call, Sent(call.host, Unnamed, d.args))
    BY <1>3 DEF Turns, RewriteNameless
  <2> QED
    BY <2>1
<1>4. CASE d.name # Unnamed /\ d.name \in Injected
  <2>1. R([call EXCEPT !.dropped = TRUE], Nothing)
    BY <1>4 DEF Turns, RewriteNamed
  <2> QED
    BY <2>1
<1>5. CASE d.name # Unnamed /\ d.name \notin Injected /\ Withholds(call, name)
  <2>1. R([named EXCEPT !.buffered = TRUE, !.args = d.args],
          IF again THEN Nothing ELSE Sent(call.host, shown, Silent))
    BY <1>5 DEF Turns, RewriteNamed
  <2> QED
    BY <2>1
<1>6. CASE d.name # Unnamed /\ d.name \notin Injected /\ ~Withholds(call, name)
  <2>1. R(named, Sent(call.host, shown, d.args))
    BY <1>6 DEF Turns, RewriteNamed
  <2> QED
    BY <2>1
<1> QED
  BY <1>1, <1>2, <1>3, <1>4, <1>5, <1>6

\* A delta moves a call nowhere, and says of it at most one thing.
LEMMA TurnsFacts ==
    ASSUME NEW call \in Call, call.buffered => call.name # Unnamed /\ ~call.flushed,
           NEW d \in DeltaType, NEW new, NEW out, Turns(call, d, new, out)
    PROVE  /\ new \in Call /\ new.host = call.host /\ new.flushed = call.flushed
           /\ new.buffered => new.name # Unnamed /\ ~new.flushed
           /\ \/ out = Nothing /\ (Blank(call) => Blank(new))
              \/ \E name \in Seq(Pieces), args \in Seq(Nat) : out = Sent(call.host, name, args)
<1> DEFINE name  == Accumulated(call.name, d.name, d.args # Silent)
           again == d.args # Silent /\ name = call.name
           shown == IF again THEN Unnamed ELSE d.name
           named == [call EXCEPT !.name = name, !.dropped = FALSE]
<1>1. /\ d.name \in Seq(Pieces) /\ d.args \in Seq(Nat)
      /\ call.name \in Seq(Pieces) /\ call.args \in Seq(Nat) /\ call.host \in Nat
      /\ Unnamed \in Seq(Pieces) /\ Silent \in Seq(Nat)
  BY DEF Call, DeltaType, Unnamed, Silent
<1>2. /\ call.args \o d.args \in Seq(Nat) /\ call.name \o d.name \in Seq(Pieces)
      /\ d.name # Unnamed => call.name \o d.name # Unnamed
  <2>1. call.args \o d.args \in Seq(Nat)
    BY <1>1, Appending
  <2>2. /\ call.name \o d.name \in Seq(Pieces)
        /\ call.name \o d.name = <<>> <=> call.name = <<>> /\ d.name = <<>>
    BY <1>1, Appending
  <2> QED
    BY <2>1, <2>2 DEF Unnamed
<1>3. name \in Seq(Pieces) /\ (d.name # Unnamed => name # Unnamed)
  BY <1>1, <1>2 DEF Accumulated
<1>4. /\ named \in Call /\ named.host = call.host /\ named.flushed = call.flushed
      /\ named.name = name /\ named.buffered = call.buffered /\ named.args = call.args
  BY <1>1, <1>3 DEF Call
<1>5. shown \in Seq(Pieces)
  BY <1>1
<1>6. CASE d.name = Unnamed /\ call.dropped
  BY <1>6 DEF Turns
<1>7. CASE d.name = Unnamed /\ ~call.dropped /\ call.buffered
  <2>1. new = [call EXCEPT !.args = @ \o d.args] /\ out = Nothing
    BY <1>7 DEF Turns
  <2> QED
    BY <1>2, <1>7, <2>1 DEF Call, Blank
<1>8. CASE d.name = Unnamed /\ ~call.dropped /\ ~call.buffered
  <2>1. new = call /\ out = Sent(call.host, Unnamed, d.args)
    BY <1>8 DEF Turns
  <2> QED
    BY <1>1, <1>8, <2>1
<1>9. CASE d.name # Unnamed /\ d.name \in Injected
  <2>1. new = [call EXCEPT !.dropped = TRUE] /\ out = Nothing
    BY <1>9 DEF Turns
  <2> QED
    BY <2>1 DEF Call, Blank
<1>10. CASE d.name # Unnamed /\ d.name \notin Injected /\ Withholds(call, name)
  <2>1. /\ new = [named EXCEPT !.buffered = TRUE, !.args = d.args]
        /\ out = IF again THEN Nothing ELSE Sent(call.host, shown, Silent)
    BY <1>10 DEF Turns
  <2>2. ~call.flushed
    BY <1>10 DEF Withholds
  <2> HIDE DEF named
  <2>3. /\ new \in Call /\ new.host = call.host /\ new.flushed = call.flushed
        /\ new.name = name
    BY <1>1, <1>4, <2>1 DEF Call
  <2>4. again => ~Blank(call)
    BY <1>3, <1>10 DEF Blank
  <2> QED
    BY <1>1, <1>3, <1>5, <1>10, <2>1, <2>2, <2>3, <2>4
<1>11. CASE d.name # Unnamed /\ d.name \notin Injected /\ ~Withholds(call, name)
  <2>1. new = named /\ out = Sent(call.host, shown, d.args)
    BY <1>11 DEF Turns
  <2> HIDE DEF named, name, shown
  <2> QED
    BY <1>1, <1>3, <1>4, <1>5, <1>11, <2>1
<1> QED
  BY <1>6, <1>7, <1>8, <1>9, <1>10, <1>11

\* The calls that the cloak tracks, after a delta.
LEMMA RewriteFacts ==
    ASSUME NEW k, CloakInv(k), NEW d \in DeltaType
    PROVE  LET key == KeyOf(k.owner, d)
               t == Tracked(k, d)
               r == Rewrite(k, d)
           IN /\ CloakInv(r.k) /\ Turns(t.calls[key], d, r.k.calls[key], r.out)
              /\ r.k.calls[key].host = t.calls[key].host
              /\ DOMAIN r.k.calls = DOMAIN k.calls \cup {key}
              /\ \A c \in DOMAIN k.calls : c # key => r.k.calls[c] = k.calls[c]
<1> DEFINE key == KeyOf(k.owner, d)
           t == Tracked(k, d)
           r == Rewrite(k, d)
<1>1. d.idx \in Nat
  BY DEF DeltaType
<1>2. /\ CloakInv(t) /\ KeyOf(t.owner, d) = key /\ DOMAIN t.calls = DOMAIN k.calls \cup {key}
      /\ \A c \in DOMAIN k.calls : t.calls[c] = k.calls[c]
  BY <1>1, TrackedFacts
<1>3. r = IF d.name # Unnamed THEN RewriteNamed(t, key, d) ELSE RewriteNameless(t, key, d)
  BY <1>2 DEF Rewrite
<1> HIDE DEF key, t, r
<1>4. PICK new, out : Turns(t.calls[key], d, new, out) /\ Rewritten(t, key, new, out) = r
  BY <1>3, RewriteTurns
<1>5. /\ t.calls[key] \in Call /\ key \in DOMAIN t.calls
      /\ t.calls[key].buffered => t.calls[key].name # Unnamed /\ ~t.calls[key].flushed
  BY <1>2 DEF CloakInv
<1>6. /\ new \in Call /\ new.host = t.calls[key].host
      /\ new.buffered => new.name # Unnamed /\ ~new.flushed
  BY <1>4, <1>5, TurnsFacts
<1>7. /\ CloakInv(r.k) /\ r.out = out
      /\ DOMAIN r.k.calls = DOMAIN t.calls /\ r.k.calls[key] = new
      /\ \A c \in DOMAIN t.calls : c # key => r.k.calls[c] = t.calls[c]
  BY <1>2, <1>4, <1>5, <1>6, RewrittenFacts
<1> QED
  BY <1>2, <1>4, <1>6, <1>7 DEF key, t, r

\* What the cloak tracks is what the host has heard of, after a delta.
LEMMA ChatTracks ==
    ASSUME NEW k, CloakInv(k), NEW heard, heard \in [DOMAIN heard -> Heard], CloakHeard(k, heard),
           NEW aud, aud \in [DOMAIN heard -> Heard], NEW d \in DeltaType
    PROVE  LET r == Rewrite(k, d)
               h == Hears(heard, r.out)
           IN /\ CloakInv(r.k) /\ CloakHeard(r.k, h)
              /\ h \in [DOMAIN h -> Heard]
              /\ ObserveFragments(aud, "chat", r.out) \in [DOMAIN h -> Heard]
<1> DEFINE key == KeyOf(k.owner, d)
           t == Tracked(k, d)
           r == Rewrite(k, d)
           h == Hears(heard, r.out)
<1>1. /\ CloakInv(r.k) /\ Turns(t.calls[key], d, r.k.calls[key], r.out)
      /\ r.k.calls[key].host = t.calls[key].host
      /\ DOMAIN r.k.calls = DOMAIN k.calls \cup {key}
      /\ \A c \in DOMAIN k.calls : c # key => r.k.calls[c] = k.calls[c]
  BY RewriteFacts
<1>2. d.idx \in Nat
  BY DEF DeltaType
<1>3. /\ CloakInv(t) /\ DOMAIN t.calls = DOMAIN k.calls \cup {key}
      /\ \A c \in DOMAIN k.calls : t.calls[c] = k.calls[c]
      /\ key \notin DOMAIN k.calls => t.calls[key] = CallStart(t.calls[key].host)
  BY <1>2, TrackedFacts
<1> DEFINE call == t.calls[key]
           new == r.k.calls[key]
<1> HIDE DEF key, t, r
<1>4. /\ call \in Call
      /\ call.buffered => call.name # Unnamed /\ ~call.flushed
  BY <1>3 DEF CloakInv
<1> HIDE DEF call, new
<1>5. /\ new.host = call.host /\ call.host \in Nat
      /\ \/ r.out = Nothing /\ (Blank(call) => Blank(new))
         \/ \E name \in Seq(Pieces), args \in Seq(Nat) : r.out = Sent(call.host, name, args)
  <2>1. Turns(call, d, new, r.out) /\ new.host = call.host
    BY <1>1 DEF call, new
  <2>2. call.host \in Nat
    BY <1>4 DEF Call
  <2> QED
    BY <1>4, <2>1, <2>2, TurnsFacts
<1>6. \A c \in DOMAIN k.calls : k.calls[c].host \notin DOMAIN heard => Blank(k.calls[c])
  BY DEF CloakHeard
<1>7. call.host \notin DOMAIN heard => Blank(call)
  <2>1. key \in DOMAIN k.calls => call = k.calls[key]
    BY <1>3 DEF call
  <2>2. key \notin DOMAIN k.calls => Blank(call)
    BY <1>3 DEF CallStart, Blank, call
  <2> QED
    BY <1>6, <2>1, <2>2
<1>8. ASSUME r.out = Nothing, Blank(call) => Blank(new)
      PROVE  /\ CloakInv(r.k) /\ CloakHeard(r.k, h)
             /\ h \in [DOMAIN h -> Heard]
             /\ ObserveFragments(aud, "chat", r.out) \in [DOMAIN h -> Heard]
  <2>1. h = heard /\ ObserveFragments(aud, "chat", r.out) = aud
    <3>1. aud \in [DOMAIN aud -> Heard]
      OBVIOUS
    <3> QED
      BY <1>8, <3>1, SilentFacts
  <2>2. \A i \in DOMAIN heard : \E c \in DOMAIN k.calls : k.calls[c].host = i
    BY DEF CloakHeard
  <2>3. \A c \in DOMAIN k.calls : r.k.calls[c].host = k.calls[c].host
    BY <1>1, <1>3
  <2>4. CloakHeard(r.k, heard)
    BY <1>1, <1>5, <1>6, <1>7, <1>8, <2>2, <2>3 DEF CloakHeard, new
  <2> QED
    BY <1>1, <2>1, <2>4
<1>9. ASSUME NEW name \in Seq(Pieces), NEW args \in Seq(Nat), r.out = Sent(call.host, name, args)
      PROVE  /\ CloakInv(r.k) /\ CloakHeard(r.k, h)
             /\ h \in [DOMAIN h -> Heard]
             /\ ObserveFragments(aud, "chat", r.out) \in [DOMAIN h -> Heard]
  <2>1. h \in [DOMAIN heard \cup {call.host} -> Heard] /\ DOMAIN h = DOMAIN heard \cup {call.host}
    <3>1. Hears(heard, Sent(call.host, name, args)) \in [DOMAIN heard \cup {call.host} -> Heard]
      BY <1>5, SentTyped
    <3> QED
      BY <1>9, <3>1
  <2>2. /\ h \in [DOMAIN h -> Heard]
        /\ ObserveFragments(aud, "chat", r.out) \in [DOMAIN h -> Heard]
    <3>1. aud \in [DOMAIN aud -> Heard] /\ DOMAIN aud = DOMAIN heard
      OBVIOUS
    <3>2. ObserveFragments(aud, "chat", r.out) \in [DOMAIN aud \cup {call.host} -> Heard]
      <4>1. ObserveFragments(aud, "chat", Sent(call.host, name, args))
              \in [DOMAIN aud \cup {call.host} -> Heard]
        BY <1>5, <3>1, SentTyped
      <4> QED
        BY <1>9, <4>1
    <3> QED
      BY <2>1, <3>1, <3>2
  <2>3. \A i \in DOMAIN heard : \E c \in DOMAIN k.calls : k.calls[c].host = i
    BY DEF CloakHeard
  <2>4. \A c \in DOMAIN k.calls : r.k.calls[c].host = k.calls[c].host
    BY <1>1, <1>3
  <2> HIDE DEF h
  <2>5. r.k.calls[key].host = call.host
    BY <1>5 DEF new
  <2>6. ASSUME NEW i \in DOMAIN h
        PROVE  \E c \in DOMAIN r.k.calls : r.k.calls[c].host = i
    BY <1>1, <2>1, <2>2, <2>3, <2>4, <2>5
  <2>7. ASSUME NEW c \in DOMAIN r.k.calls, r.k.calls[c].host \notin DOMAIN h
        PROVE  Blank(r.k.calls[c])
    BY <1>1, <1>6, <2>1, <2>2, <2>4, <2>5, <2>7
  <2>8. CloakHeard(r.k, h)
    BY <2>6, <2>7 DEF CloakHeard
  <2> QED
    BY <1>1, <2>1, <2>2, <2>8
<1> QED
  BY <1>5, <1>8, <1>9 DEF r

\* Names of more than one piece are not declared unless as tools with a schema.
LEMMA OrdinaryFacts ==
    /\ Ordinary \notin Injected \cup Repairable
    /\ Ordinary \in Seq(Pieces) \ {<<>>}
    /\ \A s, t \in Seq(Pieces) : s # <<>> /\ t # <<>> => s \o t # Ordinary
<1>1. /\ Ordinary \in {<<c>> : c \in Pieces}
      /\ Ordinary \notin Injected \cup Repairable
  <2>1. \E name \in {<<c>> : c \in Pieces} : name \notin Injected \cup Repairable
    BY PipeAssumption
  <2> QED
    BY <2>1 DEF Ordinary
<1>2. PICK c \in Pieces : Ordinary = <<c>>
  BY <1>1
<1>3. Len(Ordinary) = 1 /\ Ordinary \in Seq(Pieces)
  BY <1>2
<1>4. \A s, t \in Seq(Pieces) : s # <<>> /\ t # <<>> => s \o t # Ordinary
  <2> SUFFICES ASSUME NEW s \in Seq(Pieces), NEW t \in Seq(Pieces), s # <<>>, t # <<>>
               PROVE  s \o t # Ordinary
    OBVIOUS
  <2>1. Len(s) \in Nat /\ Len(s) # 0 /\ Len(t) \in Nat /\ Len(t) # 0
    OBVIOUS
  <2>2. Len(s \o t) = Len(s) + Len(t)
    OBVIOUS
  <2>3. Len(s \o t) # Len(Ordinary)
    BY <1>3, <2>1, <2>2
  <2> QED
    BY <2>3
<1>5. Ordinary # <<>>
  BY <1>2
<1> QED
  BY <1>1, <1>3, <1>4, <1>5

\* One delta of a call, as the host, the recorder and the aggregation take it.
LEMMA StandingStep ==
    ASSUME NEW call \in Call, ~call.flushed, call.buffered => call.name # Unnamed,
           NEW d \in DeltaType, NEW new, NEW out, Turns(call, d, new, out),
           NEW heard, heard \in [DOMAIN heard -> Heard],
           NEW aud, aud \in [DOMAIN heard -> Heard],
           NEW had, Standing(call, call.host, heard, aud, had), Shaped(had, d)
    PROVE  LET name == IF d.name = Unnamed THEN had.name
                       ELSE Accumulated(had.name, d.name, d.args # Silent)
               a == [name |-> name, args |-> had.args \o d.args]
           IN /\ a.name # Unnamed
              /\ Standing(new, call.host, Hears(heard, out), ObserveFragments(aud, "chat", out), a)
<1> DEFINE i == call.host
           name == IF d.name = Unnamed THEN had.name
                   ELSE Accumulated(had.name, d.name, d.args # Silent)
           a == [name |-> name, args |-> had.args \o d.args]
           h == Hears(heard, out)
           u == ObserveFragments(aud, "chat", out)
           H == CallAt(heard, i)
           R == CallAt(aud, i)
           again == d.args # Silent /\ name = had.name
<1>1. /\ d.name \in Seq(Pieces) /\ d.args \in Seq(Nat)
      /\ had.name \in Seq(Pieces) /\ had.args \in Seq(Nat)
      /\ call.name \in Seq(Pieces) /\ call.args \in Seq(Nat) /\ i \in Nat
      /\ Unnamed \in Seq(Pieces) /\ Silent \in Seq(Nat)
      /\ Unnamed \notin Injected \cup Repairable
  BY SMTT(40), CloakAssumption DEF Call, DeltaType, Unnamed, Silent, Standing, Heard
<1>2. /\ H.name \in Seq(Pieces) /\ H.args \in Seq(Nat)
      /\ R.name \in Seq(Pieces) /\ R.args \in Seq(Nat)
  <2>1. aud \in [DOMAIN aud -> Heard]
    OBVIOUS
  <2> QED
    BY <2>1, CallTyped
<1>3. /\ had.name \o d.name \in Seq(Pieces) /\ had.args \o d.args \in Seq(Nat)
      /\ had.name \o Unnamed = had.name /\ Unnamed \o d.name = d.name
      /\ Silent \o d.args = d.args /\ Silent \o Silent = Silent
      /\ H.name \o Unnamed = H.name /\ H.args \o Silent = H.args
      /\ d.name # Unnamed => had.name \o d.name # Unnamed
  BY <1>1, <1>2 DEF Unnamed, Silent
<1>4. a \in Heard /\ a.name = name /\ a.args = had.args \o d.args
  BY <1>1, <1>3 DEF Heard, Accumulated
<1>5. out = Nothing => h = heard /\ u = aud
  <2>1. aud \in [DOMAIN aud -> Heard]
    OBVIOUS
  <2> QED
    BY <2>1, SilentFacts
<1>6. ASSUME NEW n \in Seq(Pieces), NEW x \in Seq(Nat), out = Sent(i, n, x)
      PROVE  /\ i \in DOMAIN h
             /\ h[i].name = H.name \o n /\ h[i].args = H.args \o x
             /\ u[i].args = R.args \o x
             /\ u[i].name = IF n = Unnamed THEN R.name ELSE Accumulated(R.name, n, x # Silent)
  <2> DEFINE v == [name |-> H.name \o n, args |-> H.args \o x]
             w == [name |-> Named("chat", R.name, [at |-> i, name |-> n, args |-> x]),
                   args |-> R.args \o x]
  <2>1. h = With(heard, i, v)
    BY <1>6, HearsSent
  <2>2. u = With(aud, i, w)
    BY ZenonT(60), <1>6, ObserveSent
  <2>3. w.name = IF n = Unnamed THEN R.name ELSE Accumulated(R.name, n, x # Silent)
    BY DEF Named
  <2>4. v.name = H.name \o n /\ v.args = H.args \o x /\ w.args = R.args \o x
    OBVIOUS
  <2> HIDE DEF h, u, v, w, H, R
  <2>5. i \in DOMAIN h /\ h[i] = v /\ u[i] = w
    BY <2>1, <2>2 DEF With
  <2> QED
    BY <2>3, <2>4, <2>5
<1> HIDE DEF h, u
<1>7. /\ had.name = Unnamed \/ had.name \in Injected => i \notin DOMAIN heard
      /\ had.name \notin Injected \cup {Unnamed} =>
            /\ i \in DOMAIN heard /\ H = heard[i] /\ R = aud[i]
            /\ ChatCall(call, H, R, had)
  BY DEF Standing, CallAt
<1>8. had.name \notin Injected =>
        /\ call.name = had.name /\ H.name = had.name /\ R.name = had.name
        /\ H.args \o KeptBack(call) = had.args /\ R.args = H.args
        /\ call.buffered => had.name \notin Declared \/ (had.name \in Repairable /\ H.args = Silent)
        /\ had.name # Unnamed => ~call.dropped
  <2>1. CASE had.name = Unnamed
    <3>1. /\ Blank(call) /\ had.args = Silent /\ i \notin DOMAIN heard /\ i \notin DOMAIN aud
      BY <2>1 DEF Standing
    <3>2. H = [name |-> Unnamed, args |-> Silent] /\ R = [name |-> Unnamed, args |-> Silent]
      BY <3>1 DEF CallAt
    <3> QED
      BY <1>3, <2>1, <3>1, <3>2 DEF Blank, KeptBack
  <2>2. CASE had.name \notin Injected \cup {Unnamed}
    BY <1>7, <2>2 DEF ChatCall, Visible
  <2> QED
    BY <2>1, <2>2
<1> HIDE DEF H, R
\* A placeholder.
<1>10. CASE d.name # Unnamed /\ d.name \in Injected
  <2>1. new = [call EXCEPT !.dropped = TRUE] /\ out = Nothing
    BY <1>10 DEF Turns
  <2>2. new.dropped = TRUE
    BY <2>1 DEF Call
  <2>3. name = d.name /\ had.name \in {Unnamed, d.name}
    <3>1. CASE d.args # Silent
      BY <1>10, <3>1 DEF Shaped, Accumulated
    <3>2. CASE d.args = Silent
      BY <1>3, <1>10, <3>2 DEF Shaped, Accumulated
    <3> QED
      BY <3>1, <3>2
  <2>4. i \notin DOMAIN heard
    BY <1>7, <1>10, <2>3
  <2> QED
    BY <1>4, <1>5, <1>10, <2>1, <2>2, <2>3, <2>4 DEF Standing, h, u
\* A name, or a piece of one.
<1>11. CASE d.name # Unnamed /\ d.name \notin Injected
  <2>1. had.args = Silent /\ had.name \notin Injected
    BY <1>1, <1>11 DEF Shaped
  <2>2. /\ call.name = had.name /\ H.name = had.name /\ R.name = had.name
        /\ R.args = H.args
        /\ call.buffered => had.name \notin Declared \/ (had.name \in Repairable /\ H.args = Silent)
    BY <1>8, <2>1
  <2>3. H.args = Silent /\ KeptBack(call) = Silent
    <3>1. H.args \o KeptBack(call) = <<>> /\ KeptBack(call) \in Seq(Nat)
      BY <1>1, <1>8, <2>1 DEF KeptBack, Silent
    <3> QED
      BY <1>2, <3>1, Appending DEF Silent
  <2>4. name \in Seq(Pieces) /\ name # Unnamed /\ name \notin Injected
    <3>1. CASE d.args # Silent
      BY <1>1, <1>11, <3>1 DEF Accumulated
    <3>2. CASE d.args = Silent
      BY <1>3, <1>11, <3>2 DEF Shaped, Accumulated
    <3> QED
      BY <3>1, <3>2
  <2>5. a.args = d.args
    BY <1>3, <1>4, <2>1
  <2>6. name = Accumulated(call.name, d.name, d.args # Silent)
    BY <1>11, <2>2
  <2> DEFINE shown == IF again THEN Unnamed ELSE d.name
             named == [call EXCEPT !.name = name, !.dropped = FALSE]
  <2>7. /\ named.name = name /\ named.dropped = FALSE /\ named.buffered = call.buffered
        /\ named.args = call.args /\ named.flushed = FALSE /\ KeptBack(named) = KeptBack(call)
        /\ named \in Call
    BY <2>4 DEF Call, KeptBack
  <2>8. H.name \o d.name = IF again THEN H.name \o d.name ELSE name
    <3>1. CASE d.args # Silent
      BY <1>3, <1>11, <2>2, <3>1 DEF Shaped, Accumulated
    <3>2. CASE d.args = Silent
      BY <1>3, <1>11, <2>2, <3>2 DEF Shaped, Accumulated
    <3> QED
      BY <3>1, <3>2
  <2>9. again => i \in DOMAIN heard
    BY <1>7, <2>1, <2>4
  <2>10. CASE Withholds(call, name)
    <3>1. /\ new = [named EXCEPT !.buffered = TRUE, !.args = d.args]
          /\ out = IF again THEN Nothing ELSE Sent(i, shown, Silent)
      BY <1>11, <2>2, <2>6, <2>10 DEF Turns
    <3> HIDE DEF named
    <3>2. /\ new.name = name /\ ~new.dropped /\ new.buffered /\ ~new.flushed /\ new.args = d.args
      BY <2>7, <3>1 DEF Call
    <3>3. KeptBack(new) = d.args /\ Visible(new) = name /\ name \in Repairable
      BY <2>10, <3>2 DEF KeptBack, Visible, Withholds
    <3>4. CASE again
      <4>1. h = heard /\ u = aud /\ i \in DOMAIN heard
        BY <1>5, <2>9, <3>1, <3>4
      <4>2. H = heard[i] /\ R = aud[i]
        BY <4>1 DEF H, R, CallAt
      <4>3. ChatCall(new, H, R, a)
        BY <1>3, <1>4, <2>2, <2>3, <2>5, <3>2, <3>3, <3>4 DEF ChatCall
      <4> QED
        BY <1>4, <2>4, <4>1, <4>2, <4>3 DEF Standing, h, u
    <3>5. CASE ~again
      <4>1. out = Sent(i, d.name, Silent)
        BY <3>1, <3>5
      <4>2. /\ i \in DOMAIN h
            /\ h[i].name = H.name \o d.name /\ h[i].args = H.args \o Silent
            /\ u[i].args = R.args \o Silent
            /\ u[i].name = IF d.name = Unnamed THEN R.name
                           ELSE Accumulated(R.name, d.name, Silent # Silent)
        BY <1>1, <1>6, <4>1
      <4>3. h[i].name = name /\ h[i].args = Silent /\ u[i].args = Silent /\ u[i].name = name
        BY <1>3, <1>11, <2>2, <2>3, <2>8, <3>5, <4>2 DEF Accumulated
      <4>4. ChatCall(new, h[i], u[i], a)
        BY <1>3, <1>4, <2>5, <3>2, <3>3, <4>3 DEF ChatCall
      <4> QED
        BY <1>4, <2>4, <4>2, <4>4 DEF Standing, h, u
    <3> QED
      BY <3>4, <3>5
  <2>11. CASE ~Withholds(call, name)
    <3>1. new = named /\ out = Sent(i, shown, d.args) /\ name \notin Repairable
      BY <1>11, <2>2, <2>6, <2>11 DEF Turns, Withholds
    <3>2. shown \in Seq(Pieces)
      BY <1>1
    <3>3. /\ i \in DOMAIN h
          /\ h[i].name = H.name \o shown /\ h[i].args = H.args \o d.args
          /\ u[i].args = R.args \o d.args
          /\ u[i].name = IF shown = Unnamed THEN R.name
                         ELSE Accumulated(R.name, shown, d.args # Silent)
      BY <1>1, <1>6, <3>1, <3>2
    <3> HIDE DEF named
    <3>4. h[i].args = d.args /\ u[i].args = d.args
      BY <1>3, <2>2, <2>3, <3>3
    <3>5. h[i].name = name /\ u[i].name = name
      <4>1. CASE again
        BY <1>3, <2>2, <3>3, <4>1
      <4>2. CASE ~again
        <5>1. shown = d.name /\ h[i].name = name
          BY <2>8, <3>3, <4>2
        <5>2. CASE d.args # Silent
          BY <1>11, <3>3, <5>1, <5>2 DEF Accumulated
        <5>3. CASE d.args = Silent
          BY <1>11, <2>2, <2>8, <3>3, <4>2, <5>1, <5>3 DEF Accumulated
        <5> QED
          BY <5>1, <5>2, <5>3
      <4> QED
        BY <4>1, <4>2
    <3>6. call.buffered => name \notin Declared
      <4>1. call.buffered => had.name # Unnamed
        BY <2>2
      <4>2. CASE d.args # Silent
        BY <1>11, <2>2, <3>1, <4>1, <4>2 DEF Shaped, Accumulated, Declared
      <4>3. CASE d.args = Silent
        <5>1. call.buffered => name = had.name \o d.name /\ name # Ordinary
          BY <1>1, <1>11, <4>1, <4>3, OrdinaryFacts DEF Accumulated, Unnamed
        <5> QED
          BY <3>1, <5>1 DEF Declared
      <4> QED
        BY <4>2, <4>3
    <3>7. d.args \o Silent = d.args
      BY <1>1 DEF Silent
    <3>8. ChatCall(new, h[i], u[i], a)
      BY <1>4, <2>3, <2>5, <2>7, <3>1, <3>4, <3>5, <3>6, <3>7 DEF ChatCall, Visible
    <3> QED
      BY <1>4, <2>4, <3>3, <3>8 DEF Standing, h, u
  <2> QED
    BY <2>10, <2>11
\* Arguments only.
<1>12. CASE d.name = Unnamed
  <2>1. had.name # Unnamed /\ name = had.name
    BY <1>12 DEF Shaped
  <2>2. CASE had.name \in Injected
    <3>1. new = call /\ out = Nothing /\ call.dropped
      BY <1>12, <2>2 DEF Turns, Standing
    <3> QED
      BY <1>4, <1>5, <1>7, <2>1, <2>2, <3>1 DEF Standing, h, u
  <2>3. CASE had.name \notin Injected
    <3>1. i \in DOMAIN heard /\ H = heard[i] /\ R = aud[i] /\ ChatCall(call, H, R, had)
      BY <1>7, <2>1, <2>3
    <3>2. ~call.dropped
      BY <3>1 DEF ChatCall
    <3>3. CASE call.buffered
      <4>1. new = [call EXCEPT !.args = @ \o d.args] /\ out = Nothing
        BY <1>12, <3>2, <3>3 DEF Turns
      <4>2. /\ new.name = call.name /\ ~new.dropped /\ new.buffered /\ ~new.flushed
            /\ new.args = call.args \o d.args
        BY <3>2, <3>3, <4>1 DEF Call
      <4>3. H.args \o (call.args \o d.args) = (H.args \o call.args) \o d.args
        <5>1. H.args \in Seq(Nat) /\ call.args \in Seq(Nat) /\ d.args \in Seq(Nat)
          BY <1>1, <1>2
        <5>2. \A x, y, z \in Seq(Nat) : x \o (y \o z) = (x \o y) \o z
          BY SMTT(40)
        <5> QED
          BY <5>1, <5>2
      <4>4. ChatCall(new, H, R, a)
        BY <1>4, <2>1, <3>1, <3>3, <4>2, <4>3 DEF ChatCall, Visible, KeptBack
      <4> QED
        BY <1>4, <1>5, <2>1, <2>3, <3>1, <4>1, <4>4 DEF Standing, h, u
    <3>4. CASE ~call.buffered
      <4>1. new = call /\ out = Sent(i, Unnamed, d.args)
        BY <1>12, <3>2, <3>4 DEF Turns
      <4>2. /\ i \in DOMAIN h
            /\ h[i].name = H.name \o Unnamed /\ h[i].args = H.args \o d.args
            /\ u[i].args = R.args \o d.args
            /\ u[i].name = R.name
        BY <1>1, <1>6, <4>1
      <4>3. KeptBack(call) = Silent /\ H.args = had.args
        BY <1>3, <3>1, <3>4 DEF ChatCall, KeptBack
      <4>4. (had.args \o d.args) \o Silent = had.args \o d.args
        BY <1>3 DEF Silent
      <4>5. ChatCall(new, h[i], u[i], a)
        BY <1>3, <1>4, <2>1, <3>1, <3>4, <4>1, <4>2, <4>3, <4>4 DEF ChatCall, Visible
      <4> QED
        BY <1>4, <2>1, <2>3, <4>2, <4>5 DEF Standing, h, u
    <3> QED
      BY <3>3, <3>4
  <2> QED
    BY <2>2, <2>3
<1> QED
  BY <1>10, <1>11, <1>12

\* A call as it is aggregated.
Understood(had, d) ==
    [name |-> IF d.name = Unnamed THEN had.name ELSE Accumulated(had.name, d.name, d.args # Silent),
     args |-> had.args \o d.args]

\* The aggregation of a delta.
LEMMA AggregateFacts ==
    ASSUME NEW a, IsAggregate(a), NEW k, NEW d, NEW key, key = KeyOf(a.owner, d)
    PROVE  /\ IsAggregate(Aggregate(a, k, d))
           /\ Aggregate(a, k, d).whole = a.whole /\ Aggregate(a, k, d).open = a.open
           /\ Aggregate(a, k, d).calls = With(a.calls, key, Understood(CallAt(a.calls, key), d))
           /\ ~Aggregate(a, k, d).odd =>
                ~a.odd /\ Shaped(CallAt(a.calls, key), d) /\ KeyOf(k.owner, d) = key
<1> DEFINE had == CallAt(a.calls, key)
           g == Aggregate(a, k, d)
           own == Owning(a.owner, d)
           calls == With(a.calls, key, Understood(had, d))
           odd == a.odd \/ ~Shaped(had, d) \/ KeyOf(k.owner, d) # key
<1>1. g = [a EXCEPT !.owner = own, !.calls = calls, !.odd = odd]
  BY DEF Aggregate, CallAt, IsAggregate, Understood
<1> HIDE DEF own, calls, odd, g
<1>2. /\ g.calls = calls /\ g.odd = odd /\ g.open = a.open /\ g.whole = a.whole
      /\ g = [calls |-> g.calls, owner |-> g.owner, odd |-> g.odd, open |-> g.open, whole |-> g.whole]
  BY <1>1 DEF IsAggregate
<1>3. IsAggregate(g)
  BY <1>2 DEF IsAggregate
<1>4. ~g.odd => ~a.odd /\ Shaped(had, d) /\ KeyOf(k.owner, d) = key
  BY <1>2 DEF odd
<1>5. g.calls = With(a.calls, key, Understood(had, d))
  BY <1>2 DEF calls
<1> QED
  BY <1>2, <1>3, <1>4, <1>5 DEF g

\* Calls of chat stay in step over a delta.
LEMMA ChatStep ==
    ASSUME NEW k, CloakInv(k), NEW heard, heard \in [DOMAIN heard -> Heard], CloakHeard(k, heard),
           \A c \in DOMAIN k.calls : ~k.calls[c].flushed,
           NEW aud, aud \in [DOMAIN heard -> Heard], NEW agg, IsAggregate(agg),
           ChatInv(k, heard, aud, agg), NEW d \in DeltaType, ~Aggregate(agg, k, d).odd
    PROVE  LET r == Rewrite(k, d)
           IN ChatInv(r.k, Hears(heard, r.out), ObserveFragments(aud, "chat", r.out),
                      Aggregate(agg, k, d))
<1> DEFINE key == KeyOf(k.owner, d)
           t == Tracked(k, d)
           r == Rewrite(k, d)
           h == Hears(heard, r.out)
           u == ObserveFragments(aud, "chat", r.out)
           g == Aggregate(agg, k, d)
           had == CallAt(agg.calls, key)
           name == IF d.name = Unnamed THEN had.name
                   ELSE Accumulated(had.name, d.name, d.args # Silent)
           a == [name |-> name, args |-> had.args \o d.args]
           call == t.calls[key]
           new == r.k.calls[key]
<1>1. /\ CloakInv(r.k) /\ Turns(call, d, new, r.out)
      /\ new.host = call.host
      /\ DOMAIN r.k.calls = DOMAIN k.calls \cup {key}
      /\ \A c \in DOMAIN k.calls : c # key => r.k.calls[c] = k.calls[c]
  BY RewriteFacts
<1>2. d.idx \in Nat
  BY DEF DeltaType
<1>3. /\ CloakInv(t) /\ DOMAIN t.calls = DOMAIN k.calls \cup {key}
      /\ \A c \in DOMAIN k.calls : t.calls[c] = k.calls[c]
      /\ key \notin DOMAIN k.calls =>
           /\ call = CallStart(call.host)
           /\ \A c \in DOMAIN k.calls : k.calls[c].host # call.host
  BY <1>2, TrackedFacts
<1>4. /\ ~agg.odd /\ KeyOf(agg.owner, d) = key /\ Shaped(had, d)
      /\ g.calls = With(agg.calls, key, a)
  <2>1. KeyOf(agg.owner, d) = key
    BY AggregateFacts
  <2>2. /\ g.calls = With(agg.calls, key, Understood(had, d))
        /\ ~g.odd => ~agg.odd /\ Shaped(had, d)
    BY <2>1, AggregateFacts
  <2> QED
    BY <2>1, <2>2 DEF Understood
<1> HIDE DEF key, t, r, g, a, h, u
<1>5. DOMAIN g.calls = DOMAIN agg.calls \cup {key} /\ g.calls[key] = a
  BY <1>4 DEF With
<1>6. /\ \A c \in DOMAIN agg.calls : c # key => g.calls[c] = agg.calls[c]
      /\ g.calls = [c \in DOMAIN g.calls |-> g.calls[c]]
  BY <1>4 DEF With
<1>7. \A c \in DOMAIN t.calls :
        /\ t.calls[c].host \in Nat /\ t.calls[c] \in Call
        /\ t.calls[c].buffered => t.calls[c].name # Unnamed
        /\ \A o \in DOMAIN t.calls : t.calls[o].host = t.calls[c].host => o = c
  BY <1>3 DEF CloakInv, Call
<1> HIDE DEF call, new, had
<1>8. /\ call \in Call /\ ~call.flushed /\ call.host \in Nat
      /\ (call.buffered => call.name # Unnamed)
  <2>1. ~call.flushed
    BY <1>3 DEF CallStart, call
  <2> QED
    BY <1>3, <1>7, <2>1 DEF call
\* The call before the delta.
<1>9. Standing(call, call.host, heard, aud, had)
  <2>1. CASE key \in DOMAIN agg.calls
    <3>1. key \in DOMAIN k.calls /\ Standing(k.calls[key], k.calls[key].host, heard, aud, agg.calls[key])
      BY <2>1 DEF ChatInv
    <3> QED
      BY <1>3, <2>1, <3>1 DEF CallAt, had, call
  <2>2. CASE key \notin DOMAIN agg.calls
    <3>1. had.name = Unnamed /\ had.args = Silent /\ had \in Heard /\ had.name \notin Injected
      BY <2>2, CloakAssumption DEF had, CallAt, Heard, Unnamed, Silent
    <3>2. call.host \notin DOMAIN heard
      <4>1. CASE key \in DOMAIN k.calls
        BY <1>3, <2>2, <4>1 DEF ChatInv, call
      <4>2. CASE key \notin DOMAIN k.calls
        BY <1>3, <4>2 DEF CloakHeard
      <4> QED
        BY <4>1, <4>2
    <3>3. Blank(call)
      <4>1. CASE key \in DOMAIN k.calls
        BY <1>3, <3>2, <4>1 DEF CloakHeard, call
      <4>2. CASE key \notin DOMAIN k.calls
        <5>1. call = CallStart(call.host)
          BY <1>3, <4>2
        <5>2. Blank(CallStart(call.host))
          BY DEF Blank, CallStart
        <5> QED
          BY <5>1, <5>2
      <4> QED
        BY <4>1, <4>2
    <3> QED
      BY <3>1, <3>2, <3>3 DEF Standing
  <2> QED
    BY <2>1, <2>2
<1>10. a.name # Unnamed /\ Standing(new, call.host, h, u, a)
  BY <1>1, <1>4, <1>8, <1>9, StandingStep DEF a, h, u
\* The other calls.
<1>11. /\ DOMAIN heard \subseteq DOMAIN h /\ DOMAIN h \subseteq DOMAIN heard \cup {call.host}
       /\ \A i \in DOMAIN heard : i # call.host => h[i] = heard[i] /\ u[i] = aud[i]
  <2>1. \/ r.out = Nothing
        \/ \E n \in Seq(Pieces), x \in Seq(Nat) : r.out = Sent(call.host, n, x)
    BY <1>1, <1>3, <1>7, <1>8, TurnsFacts
  <2>2. CASE r.out = Nothing
    <3>1. aud \in [DOMAIN aud -> Heard]
      OBVIOUS
    <3>2. h = heard /\ u = aud
      BY <2>2, <3>1, SilentFacts DEF h, u
    <3> QED
      BY <3>2
  <2>3. ASSUME NEW n \in Seq(Pieces), NEW x \in Seq(Nat), r.out = Sent(call.host, n, x)
        PROVE  /\ DOMAIN h = DOMAIN heard \cup {call.host}
               /\ \A i \in DOMAIN heard : i # call.host => h[i] = heard[i] /\ u[i] = aud[i]
    <3> DEFINE at == call.host
               v == [name |-> CallAt(heard, at).name \o n, args |-> CallAt(heard, at).args \o x]
               w == [name |-> Named("chat", CallAt(aud, at).name, [at |-> at, name |-> n, args |-> x]),
                     args |-> CallAt(aud, at).args \o x]
    <3>1. Hears(heard, Sent(at, n, x)) = With(heard, at, v)
      BY HearsSent
    <3>2. ObserveFragments(aud, "chat", Sent(at, n, x)) = With(aud, at, w)
      BY ZenonT(60), ObserveSent
    <3> HIDE DEF v, w
    <3>3. h = With(heard, at, v) /\ u = With(aud, at, w)
      BY <2>3, <3>1, <3>2 DEF h, u
    <3> QED
      BY <3>3 DEF With
  <2> QED
    BY <2>1, <2>2, <2>3
<1>12. ASSUME NEW c \in DOMAIN k.calls, c # key
       PROVE  r.k.calls[c] = k.calls[c] /\ k.calls[c].host # call.host
  BY <1>1, <1>3, <1>7, <1>12 DEF call
<1>13. IsFiniteSet(DOMAIN g.calls)
  BY <1>5, FS_AddElement DEF ChatInv
<1>14. ASSUME NEW c \in DOMAIN g.calls
       PROVE  /\ c \in DOMAIN r.k.calls /\ g.calls[c].name # Unnamed
              /\ Standing(r.k.calls[c], r.k.calls[c].host, h, u, g.calls[c])
  <2>1. CASE c = key
    BY <1>1, <1>5, <1>10, <2>1 DEF new
  <2>2. CASE c # key
    <3>1. /\ c \in DOMAIN agg.calls /\ c \in DOMAIN k.calls /\ g.calls[c] = agg.calls[c]
          /\ agg.calls[c].name # Unnamed
          /\ Standing(k.calls[c], k.calls[c].host, heard, aud, agg.calls[c])
      BY <1>5, <1>6, <2>2 DEF ChatInv
    <3>2. r.k.calls[c] = k.calls[c] /\ k.calls[c].host # call.host
      BY <1>12, <2>2, <3>1
    <3>3. Standing(k.calls[c], k.calls[c].host, h, u, agg.calls[c])
      BY <1>11, <3>1, <3>2 DEF Standing
    <3> QED
      BY <1>1, <3>1, <3>2, <3>3
  <2> QED
    BY <2>1, <2>2
<1>15. ASSUME NEW c \in DOMAIN r.k.calls \ DOMAIN g.calls
       PROVE  r.k.calls[c].host \notin DOMAIN h
  <2>1. c # key /\ c \in DOMAIN k.calls /\ c \notin DOMAIN agg.calls
    BY <1>1, <1>5
  <2> QED
    BY <1>11, <1>12, <2>1 DEF ChatInv
<1> QED
  BY <1>6, <1>13, <1>14, <1>15 DEF ChatInv, r, g, h, u

-----------------------------------------------------------------------------
(* What is released of calls of chat                                       *)

\* A call whose arguments have been released.
Sealed(call) == [dropped |-> call.dropped, name |-> call.name, buffered |-> FALSE,
                 args |-> Silent, host |-> call.host, flushed |-> TRUE]

\* ... is a call where it was.
LEMMA SealedFacts ==
    ASSUME NEW call \in Call
    PROVE  /\ Sealed(call) \in Call /\ Sealed(call).host = call.host
           /\ Sealed(call).buffered = FALSE /\ Sealed(call).flushed = TRUE
           /\ Sealed(call).name = call.name /\ Sealed(call).args = Silent
           /\ Sealed(call).dropped = call.dropped
<1>1. Silent \in Seq(Nat)
  BY DEF Silent
<1> QED
  BY <1>1 DEF Call, Sealed

\* The calls that the cloak tracks, after a release.
LEMMA ReleasedFacts ==
    ASSUME NEW k, CloakInv(k)
    PROVE  /\ CloakInv(Released(k).k) /\ Withheld(Released(k).k) = {}
           /\ DOMAIN Released(k).k.calls = DOMAIN k.calls
           /\ \A c \in Withheld(k) : Released(k).k.calls[c] = Sealed(k.calls[c])
           /\ \A c \in DOMAIN k.calls \ Withheld(k) : Released(k).k.calls[c] = k.calls[c]
<1> DEFINE more == [c \in DOMAIN k.calls |->
                      IF c \in Withheld(k)
                      THEN [k.calls[c] EXCEPT !.flushed = TRUE, !.buffered = FALSE, !.args = Silent]
                      ELSE k.calls[c]]
           r == Released(k).k
<1>1. \A c \in DOMAIN k.calls : k.calls[c] \in Call
  BY DEF CloakInv
<1>2. Withheld(k) \subseteq DOMAIN k.calls
  BY DEF Withheld
<1>3. r.calls = more /\ r.claims = k.claims /\ r.next = k.next
      /\ r = [calls |-> r.calls, owner |-> r.owner, claims |-> r.claims, next |-> r.next]
  <2>1. r = [k EXCEPT !.calls = more]
    BY DEF Released
  <2> HIDE DEF more, r
  <2> QED
    BY <2>1 DEF CloakInv
<1> HIDE DEF r
<1>4. ASSUME NEW c \in Withheld(k)
      PROVE  more[c] = Sealed(k.calls[c])
  BY <1>1, <1>2, <1>4 DEF Call, Sealed
<1>5. \A c \in DOMAIN k.calls \ Withheld(k) : more[c] = k.calls[c]
  OBVIOUS
<1>6. DOMAIN more = DOMAIN k.calls
  OBVIOUS
<1> HIDE DEF more
<1>7. \A c \in DOMAIN k.calls : more[c] \in Call /\ more[c].host = k.calls[c].host
  <2> SUFFICES ASSUME NEW c \in DOMAIN k.calls PROVE more[c] \in Call /\ more[c].host = k.calls[c].host
    OBVIOUS
  <2>1. CASE c \in Withheld(k)
    BY ZenonT(60), <1>1, <1>4, <2>1, SealedFacts
  <2>2. CASE c \notin Withheld(k)
    BY <1>1, <1>5, <2>2
  <2> QED
    BY <2>1, <2>2
<1>8. more \in [DOMAIN more -> Call]
  <2>1. more = [c \in DOMAIN k.calls |-> more[c]]
    BY DEF more
  <2> QED
    BY SMTT(40), <1>6, <1>7, <2>1
<1>9. \A c \in DOMAIN more : more[c].buffered => more[c].name # Unnamed /\ ~more[c].flushed
  <2> SUFFICES ASSUME NEW c \in DOMAIN more, more[c].buffered
               PROVE  more[c].name # Unnamed /\ ~more[c].flushed
    OBVIOUS
  <2>1. CASE c \in Withheld(k)
    <3>1. k.calls[c] \in Call
      BY <1>1, <1>2, <2>1
    <3>2. Sealed(k.calls[c]).buffered = FALSE /\ more[c] = Sealed(k.calls[c])
      BY <1>4, <2>1, <3>1, SealedFacts
    <3> QED
      BY <3>2
  <2>2. CASE c \notin Withheld(k)
    BY <1>5, <1>6, <2>2 DEF CloakInv
  <2> QED
    BY <2>1, <2>2
<1>10. CloakInv(r)
  BY <1>3, <1>6, <1>7, <1>8, <1>9 DEF CloakInv
<1>11. Withheld(r) = {}
  <2>1. ASSUME NEW c \in Withheld(r) PROVE FALSE
    <3>1. c \in DOMAIN k.calls /\ more[c].buffered /\ ~more[c].flushed /\ more[c].name # Unnamed
      BY <1>3, <1>6, <2>1 DEF Withheld
    <3>2. c \notin Withheld(k)
      <4>1. ASSUME c \in Withheld(k) PROVE FALSE
        <5>1. Sealed(k.calls[c]).buffered = FALSE /\ more[c] = Sealed(k.calls[c])
          BY <1>1, <1>4, <3>1, <4>1, SealedFacts
        <5> QED
          BY <3>1, <5>1
      <4> QED
        BY <4>1
    <3>3. more[c] = k.calls[c]
      BY <1>5, <3>1, <3>2
    <3> QED
      BY <3>1, <3>2, <3>3 DEF Withheld
  <2> QED
    BY <2>1
<1> QED
  BY <1>3, <1>4, <1>5, <1>6, <1>10, <1>11 DEF r

\* A release says one thing of every call that was withheld.
LEMMA ReleasesFacts ==
    ASSUME NEW k, CloakInv(k)
    PROVE  /\ OfEach(Releases(k)) /\ Said(Releases(k))
           /\ Released(k).out = Releases(k)
           /\ (Releases(k) = Nothing <=> Withheld(k) = {})
           /\ {o.at : o \in Releases(k)} = {k.calls[c].host : c \in Withheld(k)}
           /\ \A c \in DOMAIN k.calls \ Withheld(k) : \A o \in Releases(k) : o.at # k.calls[c].host
           /\ \A c \in Withheld(k) :
                [at |-> k.calls[c].host, name |-> k.calls[c].name, args |-> k.calls[c].args] \in Releases(k)
<1>1. /\ Withheld(k) \subseteq DOMAIN k.calls
      /\ \A c \in DOMAIN k.calls : k.calls[c] \in Call
      /\ \A c, o \in DOMAIN k.calls : k.calls[o].host = k.calls[c].host => o = c
  BY DEF Withheld, CloakInv
<1>2. Releases(k) = {[at |-> k.calls[c].host, name |-> k.calls[c].name, args |-> k.calls[c].args]
                        : c \in Withheld(k)}
  BY DEF Releases
<1>3. OfEach(Releases(k))
  <2> SUFFICES ASSUME NEW o \in Releases(k), NEW u \in Releases(k), o.at = u.at PROVE o = u
    BY DEF OfEach
  <2>1. PICK c \in Withheld(k) :
          o = [at |-> k.calls[c].host, name |-> k.calls[c].name, args |-> k.calls[c].args]
    BY <1>2
  <2>2. PICK e \in Withheld(k) :
          u = [at |-> k.calls[e].host, name |-> k.calls[e].name, args |-> k.calls[e].args]
    BY <1>2
  <2>3. k.calls[c].host = k.calls[e].host
    BY <2>1, <2>2
  <2>4. c = e
    BY <1>1, <2>3
  <2> QED
    BY <2>1, <2>2, <2>4
<1>4. Said(Releases(k))
  BY <1>1, <1>2 DEF Call, Said
<1>5. {o.at : o \in Releases(k)} = {k.calls[c].host : c \in Withheld(k)}
  <2>1. ASSUME NEW o \in Releases(k) PROVE o.at \in {k.calls[c].host : c \in Withheld(k)}
    BY <1>2, <2>1
  <2>2. ASSUME NEW c \in Withheld(k) PROVE \E o \in Releases(k) : o.at = k.calls[c].host
    <3> DEFINE o == [at |-> k.calls[c].host, name |-> k.calls[c].name, args |-> k.calls[c].args]
    <3>1. o \in Releases(k) /\ o.at = k.calls[c].host
      BY <1>2
    <3> QED
      BY <3>1
  <2> QED
    BY <2>1, <2>2
<1>6. ASSUME NEW c \in DOMAIN k.calls \ Withheld(k), NEW o \in Releases(k)
      PROVE  o.at # k.calls[c].host
  BY <1>1, <1>2, <1>6
<1> QED
  BY <1>2, <1>3, <1>4, <1>5, <1>6 DEF Released, Nothing

\* What the cloak tracks is what the host has heard of, after a release.
LEMMA ReleaseTracks ==
    ASSUME NEW k, CloakInv(k), NEW heard, heard \in [DOMAIN heard -> Heard], CloakHeard(k, heard),
           NEW aud, aud \in [DOMAIN heard -> Heard]
    PROVE  /\ CloakHeard(Released(k).k, Hears(heard, Releases(k)))
           /\ Hears(heard, Releases(k)) \in [DOMAIN Hears(heard, Releases(k)) -> Heard]
           /\ ObserveFragments(aud, "chat", Releases(k)) \in [DOMAIN Hears(heard, Releases(k)) -> Heard]
<1> DEFINE out == Releases(k)
           h == Hears(heard, out)
           r == Released(k).k
<1>1. OfEach(out) /\ Said(out)
      /\ {o.at : o \in out} = {k.calls[c].host : c \in Withheld(k)}
  BY ReleasesFacts
<1>2. /\ DOMAIN r.calls = DOMAIN k.calls
      /\ \A c \in DOMAIN k.calls \ Withheld(k) : r.calls[c] = k.calls[c]
      /\ \A c \in DOMAIN k.calls : r.calls[c].host = k.calls[c].host
  <2>1. /\ DOMAIN r.calls = DOMAIN k.calls
        /\ \A c \in DOMAIN k.calls \ Withheld(k) : r.calls[c] = k.calls[c]
        /\ \A c \in Withheld(k) : r.calls[c] = Sealed(k.calls[c])
    BY ReleasedFacts
  <2>2. \A c \in DOMAIN k.calls : k.calls[c] \in Call
    BY DEF CloakInv
  <2> HIDE DEF r
  <2> QED
    BY <2>1, <2>2, SealedFacts
<1> HIDE DEF out, r
<1>3. h \in [DOMAIN heard \cup {o.at : o \in out} -> Heard]
  BY <1>1, HearsTyped
<1>4. ObserveFragments(aud, "chat", out) \in [DOMAIN aud \cup {o.at : o \in out} -> Heard]
  <2>1. aud \in [DOMAIN aud -> Heard]
    OBVIOUS
  <2> QED
    BY <1>1, <2>1, ObserveTyped
<1> HIDE DEF h
<1>5. DOMAIN h = DOMAIN heard \cup {k.calls[c].host : c \in Withheld(k)} /\ DOMAIN aud = DOMAIN heard
  BY <1>1, <1>3
<1>6. Withheld(k) \subseteq DOMAIN k.calls
  BY DEF Withheld
<1>7. CloakHeard(r, h)
  <2>1. ASSUME NEW i \in DOMAIN h PROVE \E c \in DOMAIN r.calls : r.calls[c].host = i
    BY <1>2, <1>5, <1>6 DEF CloakHeard
  <2>2. ASSUME NEW c \in DOMAIN r.calls, r.calls[c].host \notin DOMAIN h PROVE Blank(r.calls[c])
    <3>1. c \in DOMAIN k.calls /\ k.calls[c].host \notin DOMAIN heard /\ c \notin Withheld(k)
      BY <1>2, <1>5, <2>2
    <3> QED
      BY <1>2, <3>1 DEF CloakHeard
  <2> QED
    BY <2>1, <2>2 DEF CloakHeard
<1> QED
  BY <1>3, <1>4, <1>5, <1>7 DEF h, r, out

\* A call that is released has the arguments that were kept back, and its name twice.
LEMMA StandingReleased ==
    ASSUME NEW call \in Call, call.buffered, ~call.flushed, NEW a \in Heard, a.name # Unnamed,
           NEW had \in Heard, NEW rec \in Heard, ChatCall(call, had, rec, a)
    PROVE  ChatCall(Sealed(call),
                    [name |-> had.name \o call.name, args |-> had.args \o call.args],
                    [name |-> Accumulated(rec.name, call.name, call.args # Silent),
                     args |-> rec.args \o call.args], a)
<1> DEFINE new == Sealed(call)
           h == [name |-> had.name \o call.name, args |-> had.args \o call.args]
           u == [name |-> Accumulated(rec.name, call.name, call.args # Silent),
                 args |-> rec.args \o call.args]
<1>1. /\ ~call.dropped /\ call.name = a.name /\ had.name = call.name
      /\ had.args \o call.args = a.args /\ rec.args = had.args /\ rec.name = a.name
      /\ a.name \notin Declared \/ had.args = Silent
  BY DEF ChatCall, Visible, KeptBack
<1>2. /\ call.args \in Seq(Nat) /\ had.args \in Seq(Nat) /\ a.args \in Seq(Nat)
      /\ call.name \in Seq(Pieces)
  BY DEF Call, Heard
<1> HIDE DEF new
<1>3. /\ new.name = call.name /\ new.args = Silent /\ new.buffered = FALSE /\ new.flushed = TRUE
      /\ new.dropped = call.dropped
  BY SealedFacts DEF new
<1>4. h.name = Visible(new) /\ h.args \o KeptBack(new) = a.args
  <2>1. h.args = a.args /\ KeptBack(new) = <<>>
    BY <1>1, <1>3 DEF KeptBack, Silent
  <2>2. a.args \o <<>> = a.args
    BY <1>2
  <2> QED
    BY <1>1, <1>3, <2>1, <2>2 DEF Visible
<1>5. u.args = h.args
  BY <1>1
<1>6. u.name = a.name \/ (u.name = a.name \o a.name /\ (a.args = Silent \/ a.name \notin Declared))
  <2>1. CASE call.args # Silent
    BY <1>1, <2>1 DEF Accumulated
  <2>2. CASE call.args = Silent
    <3>1. u.name = a.name \o a.name
      BY <1>1, <2>2 DEF Accumulated
    <3>2. had.args = Silent => a.args = Silent
      BY <1>1, <2>2 DEF Silent
    <3> QED
      BY <1>1, <3>1, <3>2
  <2> QED
    BY <2>1, <2>2
<1> QED
  <2>1. ChatCall(new, h, u, a)
    BY <1>1, <1>4, <1>5, <1>6, <1>3 DEF ChatCall
  <2> QED
    BY <2>1 DEF new

\* Calls of chat stay in step over a release.
LEMMA ReleaseStep ==
    ASSUME NEW k, CloakInv(k), NEW heard, heard \in [DOMAIN heard -> Heard], CloakHeard(k, heard),
           NEW aud, aud \in [DOMAIN heard -> Heard], NEW agg, ChatInv(k, heard, aud, agg)
    PROVE  ChatInv(Released(k).k, Hears(heard, Releases(k)),
                   ObserveFragments(aud, "chat", Releases(k)), agg)
<1> DEFINE out == Releases(k)
           h == Hears(heard, out)
           u == ObserveFragments(aud, "chat", out)
           r == Released(k).k
<1>1. /\ OfEach(out)
      /\ {o.at : o \in out} = {k.calls[c].host : c \in Withheld(k)}
      /\ \A c \in DOMAIN k.calls \ Withheld(k) : \A o \in out : o.at # k.calls[c].host
      /\ \A c \in Withheld(k) :
           [at |-> k.calls[c].host, name |-> k.calls[c].name, args |-> k.calls[c].args] \in out
  BY ReleasesFacts
<1>2. /\ DOMAIN r.calls = DOMAIN k.calls
      /\ \A c \in Withheld(k) : r.calls[c] = Sealed(k.calls[c])
      /\ \A c \in DOMAIN k.calls \ Withheld(k) : r.calls[c] = k.calls[c]
  BY ReleasedFacts
<1> HIDE DEF out, r
<1>3. /\ DOMAIN h = DOMAIN heard \cup {k.calls[c].host : c \in Withheld(k)}
      /\ DOMAIN aud = DOMAIN heard
  BY <1>1 DEF Hears
<1>4. /\ Withheld(k) \subseteq DOMAIN k.calls
      /\ \A c \in Withheld(k) : k.calls[c].buffered /\ ~k.calls[c].flushed
      /\ \A c \in DOMAIN k.calls : k.calls[c] \in Call
      /\ \A c, o \in DOMAIN k.calls : k.calls[o].host = k.calls[c].host => o = c
  BY DEF Withheld, CloakInv
<1>5. ASSUME NEW c \in DOMAIN k.calls \ Withheld(k)
      PROVE  /\ k.calls[c].host \in DOMAIN h <=> k.calls[c].host \in DOMAIN heard
             /\ k.calls[c].host \in DOMAIN heard =>
                  h[k.calls[c].host] = heard[k.calls[c].host] /\ u[k.calls[c].host] = aud[k.calls[c].host]
  <2>1. k.calls[c].host \in DOMAIN h <=> k.calls[c].host \in DOMAIN heard
    BY <1>3, <1>4, <1>5
  <2>2. ASSUME k.calls[c].host \in DOMAIN heard
        PROVE  h[k.calls[c].host] = heard[k.calls[c].host] /\ u[k.calls[c].host] = aud[k.calls[c].host]
    <3>1. \A o \in out : o.at # k.calls[c].host
      BY <1>1, <1>5
    <3>2. h[k.calls[c].host] = heard[k.calls[c].host]
      BY <2>2, <3>1, HearsElse
    <3>3. k.calls[c].host \in DOMAIN aud
      BY <1>3, <2>2
    <3>4. u[k.calls[c].host] = aud[k.calls[c].host]
      BY SMTT(40), <3>1, <3>3, ObserveElse
    <3> QED
      BY <3>2, <3>4
  <2> QED
    BY <2>1, <2>2
<1>6. ASSUME NEW c \in Withheld(k)
      PROVE  /\ h[k.calls[c].host] = [name |-> CallAt(heard, k.calls[c].host).name \o k.calls[c].name,
                                      args |-> CallAt(heard, k.calls[c].host).args \o k.calls[c].args]
             /\ u[k.calls[c].host] =
                  [name |-> Accumulated(CallAt(aud, k.calls[c].host).name, k.calls[c].name,
                                        k.calls[c].args # Silent),
                   args |-> CallAt(aud, k.calls[c].host).args \o k.calls[c].args]
  <2> DEFINE o == [at |-> k.calls[c].host, name |-> k.calls[c].name, args |-> k.calls[c].args]
  <2>1. o \in out /\ o.at = k.calls[c].host /\ o.name = k.calls[c].name /\ o.args = k.calls[c].args
    BY <1>1
  <2>2. k.calls[c].name # Unnamed
    BY DEF Withheld
  <2> HIDE DEF o
  <2>3. OfEach(out) /\ o \in out
    BY <1>1, <2>1
  <2>4. h[o.at] = [name |-> CallAt(heard, o.at).name \o o.name, args |-> CallAt(heard, o.at).args \o o.args]
    BY <2>3, HearsAt
  <2>5. u[o.at] = [name |-> Named("chat", CallAt(aud, o.at).name, o),
                   args |-> CallAt(aud, o.at).args \o o.args]
    BY <2>3, ObserveAt
  <2>6. Named("chat", CallAt(aud, o.at).name, o) =
          Accumulated(CallAt(aud, o.at).name, o.name, o.args # Silent)
    BY <2>1, <2>2 DEF Named
  <2> QED
    BY <2>1, <2>4, <2>5, <2>6
<1>7. ASSUME NEW c \in DOMAIN agg.calls
      PROVE  /\ c \in DOMAIN r.calls /\ agg.calls[c].name # Unnamed
             /\ Standing(r.calls[c], r.calls[c].host, h, u, agg.calls[c])
  <2>1. /\ c \in DOMAIN k.calls /\ agg.calls[c].name # Unnamed
        /\ Standing(k.calls[c], k.calls[c].host, heard, aud, agg.calls[c])
    BY <1>7 DEF ChatInv
  <2>2. CASE c \notin Withheld(k)
    <3>1. r.calls[c] = k.calls[c]
      BY <1>2, <2>1, <2>2
    <3>2. /\ k.calls[c].host \in DOMAIN h <=> k.calls[c].host \in DOMAIN heard
          /\ k.calls[c].host \in DOMAIN heard =>
               h[k.calls[c].host] = heard[k.calls[c].host] /\ u[k.calls[c].host] = aud[k.calls[c].host]
      BY <1>5, <2>1, <2>2
    <3>3. Standing(k.calls[c], k.calls[c].host, h, u, agg.calls[c])
      BY <2>1, <3>2 DEF Standing
    <3> QED
      BY <1>2, <2>1, <3>1, <3>3
  <2>3. CASE c \in Withheld(k)
    <3> DEFINE call == k.calls[c]
               i == k.calls[c].host
               a == agg.calls[c]
    <3>1. call \in Call /\ call.buffered /\ ~call.flushed
      BY <1>4, <2>1, <2>3
    <3>2. i \in DOMAIN heard
      BY <2>1, <3>1 DEF CloakHeard, Blank
    <3>3. a \in Heard /\ a.name # Unnamed /\ a.name \notin Injected
          /\ ChatCall(call, heard[i], aud[i], a)
      BY <2>1, <3>2 DEF Standing
    <3>4. r.calls[c] = Sealed(call)
      BY <1>2, <2>3
    <3>5. heard[i] \in Heard /\ aud[i] \in Heard
      BY SMTT(40), <3>2
    <3>6. h[i] = [name |-> heard[i].name \o call.name, args |-> heard[i].args \o call.args]
          /\ u[i] = [name |-> Accumulated(aud[i].name, call.name, call.args # Silent),
                     args |-> aud[i].args \o call.args]
      BY <1>3, <1>6, <2>3, <3>2 DEF CallAt
    <3>7. r.calls[c].host = i /\ i \in DOMAIN h
      BY <1>3, <3>1, <3>2, <3>4, SealedFacts
    <3> HIDE DEF call, i, a, h, u
    <3>8. ChatCall(r.calls[c], h[i], u[i], a)
      BY <3>1, <3>3, <3>4, <3>5, <3>6, StandingReleased
    <3>9. Standing(r.calls[c], i, h, u, a)
      BY <3>3, <3>7, <3>8 DEF Standing
    <3> QED
      BY <1>2, <2>1, <3>7, <3>9 DEF a
  <2> QED
    BY <2>2, <2>3
<1>8. ASSUME NEW c \in DOMAIN r.calls \ DOMAIN agg.calls
      PROVE  r.calls[c].host \notin DOMAIN h
  <2>1. c \in DOMAIN k.calls /\ k.calls[c].host \notin DOMAIN heard
    BY <1>2, <1>8 DEF ChatInv
  <2>2. c \notin Withheld(k)
    BY <1>4, <2>1 DEF CloakHeard, Blank
  <2> QED
    BY <1>2, <1>5, <2>1, <2>2
<1> QED
  <2>1. IsFiniteSet(DOMAIN agg.calls) /\ agg.calls = [c \in DOMAIN agg.calls |-> agg.calls[c]]
    BY DEF ChatInv
  <2> HIDE DEF h, u
  <2>2. ChatInv(r, h, u, agg)
    BY <1>7, <1>8, <2>1 DEF ChatInv
  <2> QED
    BY <2>2 DEF r, h, u, out

-----------------------------------------------------------------------------
(* One event of a call that is announced                                   *)

\* The calls, and those that are open, after an event.
Fragment(calls, d) == [calls EXCEPT ![d.idx].args = @ \o d.args]

CallsAfter(a, d) ==
    CASE d.part = "start" -> With(a.calls, d.idx, [name |-> d.name, args |-> Silent])
      [] d.part = "more" -> Fragment(a.calls, d)
      [] d.part = "stop" -> a.calls

OpenAfter(a, d) ==
    CASE d.part = "start" -> a.open \cup {d.idx}
      [] d.part = "more" -> a.open
      [] d.part = "stop" -> a.open \ {d.idx}

\* The aggregation of an event.
LEMMA AggregateBlockFacts ==
    ASSUME NEW a, IsAggregate(a), NEW b, NEW d
    PROVE  /\ IsAggregate(AggregateBlock(a, b, d)) /\ AggregateBlock(a, b, d).whole = a.whole
           /\ ~AggregateBlock(a, b, d).odd => ~a.odd /\ ~(d.part = "start" /\ d.idx \in b.dropped)
           /\ AggregateBlock(a, b, d).calls = CallsAfter(a, d)
           /\ AggregateBlock(a, b, d).open = OpenAfter(a, d)
<1> DEFINE calls == CallsAfter(a, d)
           open == OpenAfter(a, d)
           odd == a.odd \/ (d.part = "start" /\ d.idx \in b.dropped)
           g == AggregateBlock(a, b, d)
<1>1. g = [a EXCEPT !.calls = calls, !.open = open, !.odd = odd]
  BY DEF AggregateBlock, IsAggregate, CallsAfter, OpenAfter, Fragment
<1> HIDE DEF calls, open, odd, g
<1>2. /\ g.calls = calls /\ g.odd = odd /\ g.open = open /\ g.whole = a.whole
      /\ g = [calls |-> g.calls, owner |-> g.owner, odd |-> g.odd, open |-> g.open, whole |-> g.whole]
  BY <1>1 DEF IsAggregate
<1>3. IsAggregate(g)
  BY <1>2 DEF IsAggregate
<1>4. ~g.odd => ~a.odd /\ ~(d.part = "start" /\ d.idx \in b.dropped)
  BY <1>2 DEF odd
<1> QED
  BY <1>2, <1>3, <1>4 DEF g, calls, open

\* ... by its part.
LEMMA AggregateStarts ==
    ASSUME NEW a, IsAggregate(a), NEW b, NEW d, d.part = "start"
    PROVE  /\ AggregateBlock(a, b, d).calls = With(a.calls, d.idx, [name |-> d.name, args |-> Silent])
           /\ AggregateBlock(a, b, d).open = a.open \cup {d.idx}
<1>1. /\ AggregateBlock(a, b, d).calls = CallsAfter(a, d)
      /\ AggregateBlock(a, b, d).open = OpenAfter(a, d)
  BY AggregateBlockFacts
<1> QED
  BY <1>1 DEF CallsAfter, OpenAfter

\* ... by its part.
LEMMA AggregateGoesOn ==
    ASSUME NEW a, IsAggregate(a), NEW b, NEW d, d.part = "more"
    PROVE  /\ AggregateBlock(a, b, d).calls = Fragment(a.calls, d)
           /\ AggregateBlock(a, b, d).open = a.open
<1>1. /\ AggregateBlock(a, b, d).calls = CallsAfter(a, d)
      /\ AggregateBlock(a, b, d).open = OpenAfter(a, d)
  BY AggregateBlockFacts
<1> QED
  BY <1>1 DEF CallsAfter, OpenAfter

\* ... by its part.
LEMMA AggregateStops ==
    ASSUME NEW a, IsAggregate(a), NEW b, NEW d, d.part = "stop"
    PROVE  /\ AggregateBlock(a, b, d).calls = a.calls
           /\ AggregateBlock(a, b, d).open = a.open \ {d.idx}
<1>1. /\ AggregateBlock(a, b, d).calls = CallsAfter(a, d)
      /\ AggregateBlock(a, b, d).open = OpenAfter(a, d)
  BY AggregateBlockFacts
<1> QED
  BY <1>1 DEF CallsAfter, OpenAfter

\* Calls are announced one after the other.
LEMMA AnnouncementStep ==
    ASSUME NEW a, IsAggregate(a), Announcement(a), NEW b, NEW cloak, NEW d, Announces(cloak, a, d)
    PROVE  /\ Announcement(AggregateBlock(a, b, d))
           /\ d.idx \in Nat /\ d.idx \in DOMAIN AggregateBlock(a, b, d).calls
           /\ DOMAIN AggregateBlock(a, b, d).calls = DOMAIN a.calls \cup {d.idx}
           /\ d.part = "start" => d.idx \notin DOMAIN a.calls
           /\ d.part # "start" => d.idx \in DOMAIN a.calls
           /\ \A i \in DOMAIN a.calls : i # d.idx => AggregateBlock(a, b, d).calls[i] = a.calls[i]
           /\ \A i \in DOMAIN a.calls : i # d.idx => (i \in AggregateBlock(a, b, d).open <=> i \in a.open)
<1> DEFINE g == AggregateBlock(a, b, d)
           n == Cardinality(DOMAIN a.calls)
<1>1. /\ a.calls \in [DOMAIN a.calls -> Heard] /\ n \in Nat
      /\ DOMAIN a.calls = 0..(n - 1) /\ a.open \subseteq DOMAIN a.calls
  BY DEF Announcement
<1> HIDE DEF n
<1>2. CASE d.part = "start"
  <2> DEFINE v == [name |-> d.name, args |-> Silent]
  <2>1. g.calls = With(a.calls, d.idx, v) /\ g.open = a.open \cup {d.idx}
    BY <1>2, AggregateStarts
  <2>2. d.idx = n /\ v \in Heard
    BY <1>2 DEF Announces, n, Heard, Silent
  <2> HIDE DEF g, v
  <2>3. /\ DOMAIN g.calls = DOMAIN a.calls \cup {n} /\ n \notin DOMAIN a.calls
        /\ \A i \in DOMAIN a.calls : i # n => g.calls[i] = a.calls[i]
    BY <1>1, <2>1, <2>2 DEF With
  <2>4. g.calls \in [DOMAIN g.calls -> Heard]
    <3>1. With(a.calls, d.idx, v) \in [DOMAIN a.calls \cup {d.idx} -> Heard]
      BY <1>1, <2>2, WithTyped
    <3> QED
      BY <2>1, <2>2, <2>3, <3>1
  <2>5. DOMAIN g.calls = 0..n
    BY <1>1, <2>3
  <2>6. Cardinality(0..n) = n + 1
    BY <1>1, FS_Interval
  <2>7. Cardinality(DOMAIN g.calls) \in Nat /\ DOMAIN g.calls = 0..(Cardinality(DOMAIN g.calls) - 1)
    BY <1>1, <2>5, <2>6
  <2>8. g.open \subseteq DOMAIN g.calls /\ \A i \in DOMAIN a.calls : i # d.idx => (i \in g.open <=> i \in a.open)
    BY <1>1, <2>1, <2>2, <2>3
  <2>9. Announcement(g)
    BY <2>4, <2>7, <2>8 DEF Announcement
  <2> QED
    BY <1>1, <1>2, <2>2, <2>3, <2>8, <2>9 DEF g
<1>3. CASE d.part = "more"
  <2>1. g.calls = Fragment(a.calls, d) /\ g.open = a.open
    BY <1>3, AggregateGoesOn
  <2>2. d.idx \in a.open /\ d.args \in Seq(Nat)
    BY <1>3 DEF Announces
  <2>3. d.idx \in DOMAIN a.calls /\ a.calls[d.idx] \in Heard
    BY <1>1, <2>2
  <2>4. a.calls[d.idx].args \o d.args \in Seq(Nat)
    BY <2>2, <2>3, Appending DEF Heard
  <2>5. [a.calls[d.idx] EXCEPT !.args = @ \o d.args] \in Heard
    BY <2>3, <2>4 DEF Heard
  <2> HIDE DEF g
  <2>6. DOMAIN g.calls = DOMAIN a.calls /\ \A i \in DOMAIN a.calls : i # d.idx => g.calls[i] = a.calls[i]
    BY <2>1 DEF Fragment
  <2>7. g.calls \in [DOMAIN g.calls -> Heard]
    BY SMTT(40), <1>1, <2>1, <2>3, <2>5, <2>6 DEF Fragment
  <2>8. Announcement(g)
    BY <1>1, <2>1, <2>6, <2>7 DEF Announcement, n
  <2> QED
    BY <1>1, <1>3, <2>1, <2>3, <2>6, <2>8 DEF g
<1>4. CASE d.part = "stop"
  <2>1. g.calls = a.calls /\ g.open = a.open \ {d.idx}
    BY <1>4, AggregateStops
  <2>2. d.idx \in a.open
    BY <1>4 DEF Announces
  <2> HIDE DEF g
  <2>3. Announcement(g)
    BY <1>1, <2>1 DEF Announcement, n
  <2> QED
    BY <1>1, <1>4, <2>1, <2>2, <2>3 DEF g
<1> QED
  BY <1>2, <1>3, <1>4 DEF Announces

\* What is kept of the other calls, whatever comes of the call idx.
OthersKept(idx, b, c) ==
    \A i : i # idx =>
      /\ i \in c.dropped <=> i \in b.dropped
      /\ i \in DOMAIN c.held <=> i \in DOMAIN b.held
      /\ i \in DOMAIN b.held => c.held[i] = b.held[i]

OthersHeard(idx, heard, aud, h, u) ==
    \A i : i # idx =>
      /\ i \in DOMAIN h <=> i \in DOMAIN heard
      /\ i \in DOMAIN heard => h[i] = heard[i] /\ u[i] = aud[i]

\* What is said of one call, if anything.
Tells(idx, out) ==
    out = Nothing \/ \E name \in Seq(Pieces), args \in Seq(Nat) : out = Sent(idx, name, args)

\* The calls that are known after it.
Widened(heard, h, out, idx) ==
    /\ out = Nothing => DOMAIN h = DOMAIN heard
    /\ out # Nothing => DOMAIN h = DOMAIN heard \cup {idx}

\* An event of Messages, given what is withheld.
MessageTurn(b, d, c, out) ==
    \/ /\ d.part = "start" /\ d.name \in Injected
       /\ c.dropped = b.dropped \cup {d.idx} /\ c.held = b.held /\ out = Nothing
    \/ /\ d.part = "start" /\ d.name \notin Injected
       /\ c.dropped = b.dropped /\ out = Sent(d.idx, d.name, Silent)
       /\ c.held = IF d.name \in Repairable THEN With(b.held, d.idx, Silent) ELSE b.held
    \/ /\ d.part = "more" /\ d.idx \in b.dropped
       /\ c.dropped = b.dropped /\ c.held = b.held /\ out = Nothing
    \/ /\ d.part = "more" /\ d.idx \notin b.dropped /\ d.idx \in DOMAIN b.held
       /\ c.dropped = b.dropped /\ c.held = With(b.held, d.idx, b.held[d.idx] \o d.args)
       /\ out = Nothing
    \/ /\ d.part = "more" /\ d.idx \notin b.dropped /\ d.idx \notin DOMAIN b.held
       /\ c.dropped = b.dropped /\ c.held = b.held /\ out = Sent(d.idx, Unnamed, d.args)
    \/ /\ d.part = "stop" /\ d.idx \in b.dropped
       /\ c.dropped = b.dropped \ {d.idx} /\ c.held = b.held /\ out = Nothing
    \/ /\ d.part = "stop" /\ d.idx \notin b.dropped
       /\ c.dropped = b.dropped /\ c.held = Without(b.held, d.idx)
       /\ out = Sent(d.idx, Unnamed, HeldOf(b, d.idx))

\* That is what the cloak does.
LEMMA MessageTurns ==
    ASSUME NEW b, AreHeld(b), NEW d, d.part \in {"start", "more", "stop"},
           d.args \in Seq(Nat)
    PROVE  /\ AreHeld(RewriteMessages(b, d).b)
           /\ MessageTurn(b, d, RewriteMessages(b, d).b, RewriteMessages(b, d).out)
<1> DEFINE r == RewriteMessages(b, d)
           c == r.b
<1>1. b = [dropped |-> b.dropped, held |-> b.held] /\ b.held \in [DOMAIN b.held -> Seq(Nat)]
  BY DEF AreHeld
<1>2. Silent \in Seq(Nat)
  BY DEF Silent
<1>3. CASE d.part = "start" /\ d.name \in Injected
  <2>1. c = [b EXCEPT !.dropped = b.dropped \cup {d.idx}] /\ r.out = Nothing
    BY <1>3 DEF RewriteMessages, StartMessages, Remade
  <2> HIDE DEF c, r
  <2>2. c = [dropped |-> b.dropped \cup {d.idx}, held |-> b.held]
    BY <1>1, <2>1
  <2>3. c.dropped = b.dropped \cup {d.idx} /\ c.held = b.held
    BY <2>2
  <2>4. AreHeld(c)
    BY <1>1, <2>2, <2>3 DEF AreHeld
  <2> QED
    BY <1>3, <2>1, <2>3, <2>4 DEF MessageTurn, c, r
<1>4. CASE d.part = "start" /\ d.name \notin Injected
  <2> DEFINE held == IF d.name \in Repairable THEN With(b.held, d.idx, Silent) ELSE b.held
  <2>1. c = (IF d.name \in Repairable THEN [b EXCEPT !.held = With(b.held, d.idx, Silent)] ELSE b)
        /\ r.out = Sent(d.idx, d.name, Silent)
    BY <1>4 DEF RewriteMessages, StartMessages, Remade
  <2>2. held \in [DOMAIN held -> Seq(Nat)]
    <3>1. With(b.held, d.idx, Silent) \in [DOMAIN b.held \cup {d.idx} -> Seq(Nat)]
      BY <1>1, <1>2, WithTyped
    <3> QED
      BY <1>1, <3>1
  <2> HIDE DEF c, r
  <2>3. c = [dropped |-> b.dropped, held |-> held]
    BY <1>1, <2>1
  <2> HIDE DEF held
  <2>4. c.dropped = b.dropped /\ c.held = held
    BY <2>3
  <2>5. AreHeld(c)
    BY <2>2, <2>3, <2>4 DEF AreHeld
  <2> QED
    BY <1>4, <2>1, <2>4, <2>5 DEF MessageTurn, c, r, held
<1>5. CASE d.part = "more" /\ d.idx \in b.dropped
  <2>1. c = b /\ r.out = Nothing
    BY <1>5 DEF RewriteMessages, Remade
  <2> QED
    BY <1>5, <2>1 DEF MessageTurn
<1>6. CASE d.part = "more" /\ d.idx \notin b.dropped /\ d.idx \in DOMAIN b.held
  <2> DEFINE v == b.held[d.idx] \o d.args
             held == With(b.held, d.idx, v)
  <2>1. c = [b EXCEPT !.held[d.idx] = @ \o d.args] /\ r.out = Nothing
    BY <1>6 DEF RewriteMessages, Remade
  <2>2. v \in Seq(Nat)
    BY <1>1, <1>6
  <2> HIDE DEF v
  <2>3. held \in [DOMAIN b.held \cup {d.idx} -> Seq(Nat)]
    BY <1>1, <2>2, WithTyped
  <2>4. [b.held EXCEPT ![d.idx] = v] = held
    BY <1>1, <1>6 DEF With
  <2> HIDE DEF c, r, held
  <2>5. c = [b EXCEPT !.held = [b.held EXCEPT ![d.idx] = v]]
    BY <2>1 DEF v
  <2>6. c = [dropped |-> b.dropped, held |-> held]
    BY <1>1, <2>4, <2>5
  <2>7. c.dropped = b.dropped /\ c.held = held
    BY <2>6
  <2>8. AreHeld(c)
    BY <2>3, <2>6, <2>7 DEF AreHeld
  <2> QED
    BY <1>6, <2>1, <2>7, <2>8 DEF MessageTurn, c, r, held, v
<1>7. CASE d.part = "more" /\ d.idx \notin b.dropped /\ d.idx \notin DOMAIN b.held
  <2>1. c = b /\ r.out = Sent(d.idx, Unnamed, d.args)
    BY <1>7 DEF RewriteMessages, Remade
  <2> QED
    BY <1>7, <2>1 DEF MessageTurn
<1>8. CASE d.part = "stop" /\ d.idx \in b.dropped
  <2>1. c = [b EXCEPT !.dropped = b.dropped \ {d.idx}] /\ r.out = Nothing
    BY <1>8 DEF RewriteMessages, Remade
  <2> HIDE DEF c, r
  <2>2. c = [dropped |-> b.dropped \ {d.idx}, held |-> b.held]
    BY <1>1, <2>1
  <2>3. c.dropped = b.dropped \ {d.idx} /\ c.held = b.held
    BY <2>2
  <2>4. AreHeld(c)
    BY <1>1, <2>2, <2>3 DEF AreHeld
  <2> QED
    BY <1>8, <2>1, <2>3, <2>4 DEF MessageTurn, c, r
<1>9. CASE d.part = "stop" /\ d.idx \notin b.dropped
  <2> DEFINE held == Without(b.held, d.idx)
  <2>1. c = [b EXCEPT !.held = Without(b.held, d.idx)] /\ r.out = Sent(d.idx, Unnamed, HeldOf(b, d.idx))
    BY <1>9 DEF RewriteMessages, Remade
  <2>2. held \in [DOMAIN held -> Seq(Nat)]
    BY <1>1 DEF Without
  <2> HIDE DEF c, r, held
  <2>3. c = [dropped |-> b.dropped, held |-> held]
    BY <1>1, <2>1 DEF held
  <2>4. c.dropped = b.dropped /\ c.held = held
    BY <2>3
  <2>5. AreHeld(c)
    BY <2>2, <2>3, <2>4 DEF AreHeld
  <2> QED
    BY <1>9, <2>1, <2>4, <2>5 DEF MessageTurn, c, r, held
<1> QED
  BY <1>3, <1>4, <1>5, <1>6, <1>7, <1>8, <1>9

\* It concerns one call only.
LEMMA MessageTurnKeeps ==
    ASSUME NEW b, NEW d, NEW c, NEW out, MessageTurn(b, d, c, out),
           AreHeld(b), d.args \in Seq(Nat), d.name \in Seq(Pieces)
    PROVE  /\ OthersKept(d.idx, b, c)
           /\ Tells(d.idx, out)
           /\ DOMAIN c.held \subseteq DOMAIN b.held \cup {d.idx}
           /\ d.idx \in DOMAIN c.held => d.idx \in DOMAIN b.held \/ out # Nothing
<1>1. Unnamed \in Seq(Pieces) /\ Silent \in Seq(Nat) /\ HeldOf(b, d.idx) \in Seq(Nat)
  BY DEF AreHeld, HeldOf, Unnamed, Silent
<1>2. OthersKept(d.idx, b, c)
  <2>1. \/ c.held = b.held
        \/ \E v : c.held = With(b.held, d.idx, v)
        \/ c.held = Without(b.held, d.idx)
    BY DEF MessageTurn
  <2>2. \/ c.dropped = b.dropped \/ c.dropped = b.dropped \cup {d.idx} \/ c.dropped = b.dropped \ {d.idx}
    BY DEF MessageTurn
  <2> SUFFICES ASSUME NEW i, i # d.idx
               PROVE  /\ i \in c.dropped <=> i \in b.dropped
                      /\ i \in DOMAIN c.held <=> i \in DOMAIN b.held
                      /\ i \in DOMAIN b.held => c.held[i] = b.held[i]
    BY DEF OthersKept
  <2>3. i \in c.dropped <=> i \in b.dropped
    BY <2>2
  <2>4. /\ i \in DOMAIN c.held <=> i \in DOMAIN b.held
        /\ i \in DOMAIN b.held => c.held[i] = b.held[i]
    <3>1. CASE c.held = b.held
      BY <3>1
    <3>2. ASSUME NEW v, c.held = With(b.held, d.idx, v)
          PROVE  /\ i \in DOMAIN c.held <=> i \in DOMAIN b.held
                 /\ i \in DOMAIN b.held => c.held[i] = b.held[i]
      BY <3>2 DEF With
    <3>3. CASE c.held = Without(b.held, d.idx)
      BY <3>3 DEF Without
    <3> QED
      BY <2>1, <3>1, <3>2, <3>3
  <2> QED
    BY <2>3, <2>4
<1>3. Tells(d.idx, out)
  BY <1>1 DEF MessageTurn, Tells
<1>4. DOMAIN c.held \subseteq DOMAIN b.held \cup {d.idx}
  BY DEF MessageTurn, With, Without
<1>5. d.idx \in DOMAIN c.held => d.idx \in DOMAIN b.held \/ out # Nothing
  BY SentFacts DEF MessageTurn, With, Without
<1> QED
  BY <1>2, <1>3, <1>4, <1>5

\* What is said of one call changes no other, for the host and for the record.
LEMMA SentKeeps ==
    ASSUME NEW heard, heard \in [DOMAIN heard -> Heard],
           NEW aud, aud \in [DOMAIN heard -> Heard], NEW dialect, NEW idx \in Nat, NEW out,
           Tells(idx, out)
    PROVE  /\ OthersHeard(idx, heard, aud, Hears(heard, out), ObserveFragments(aud, dialect, out))
           /\ Hears(heard, out) \in [DOMAIN Hears(heard, out) -> Heard]
           /\ ObserveFragments(aud, dialect, out) \in [DOMAIN Hears(heard, out) -> Heard]
           /\ Widened(heard, Hears(heard, out), out, idx)
<1> DEFINE h == Hears(heard, out)
           u == ObserveFragments(aud, dialect, out)
<1>1. aud \in [DOMAIN aud -> Heard] /\ DOMAIN aud = DOMAIN heard
  OBVIOUS
<1>2. CASE out = Nothing
  <2>1. h = heard /\ u = aud
    BY <1>1, <1>2, SilentFacts
  <2> QED
    BY <1>1, <1>2, <2>1 DEF OthersHeard, Widened
<1>3. ASSUME NEW name \in Seq(Pieces), NEW args \in Seq(Nat), out = Sent(idx, name, args)
      PROVE  /\ OthersHeard(idx, heard, aud, h, u)
             /\ h \in [DOMAIN h -> Heard] /\ u \in [DOMAIN h -> Heard]
             /\ Widened(heard, h, out, idx)
  <2> DEFINE v == [name |-> CallAt(heard, idx).name \o name, args |-> CallAt(heard, idx).args \o args]
             w == [name |-> Named(dialect, CallAt(aud, idx).name,
                                  [at |-> idx, name |-> name, args |-> args]),
                   args |-> CallAt(aud, idx).args \o args]
  <2>1. Hears(heard, Sent(idx, name, args)) = With(heard, idx, v)
    BY HearsSent
  <2>2. ObserveFragments(aud, dialect, Sent(idx, name, args)) = With(aud, idx, w)
    BY ZenonT(60), ObserveSent
  <2> HIDE DEF v, w
  <2>3. h = With(heard, idx, v) /\ u = With(aud, idx, w)
    BY <1>3, <2>1, <2>2
  <2>4. out # Nothing
    BY <1>3, SentFacts
  <2>5. Hears(heard, Sent(idx, name, args)) \in [DOMAIN heard \cup {idx} -> Heard]
    BY <1>3, SentTyped
  <2>6. ObserveFragments(aud, dialect, Sent(idx, name, args)) \in [DOMAIN aud \cup {idx} -> Heard]
    BY <1>1, <1>3, SentTyped
  <2>7. h \in [DOMAIN heard \cup {idx} -> Heard] /\ u \in [DOMAIN heard \cup {idx} -> Heard]
    BY <1>1, <1>3, <2>5, <2>6
  <2> HIDE DEF h, u
  <2>8. OthersHeard(idx, heard, aud, h, u)
    BY <1>1, <2>3 DEF OthersHeard, With
  <2> QED
    BY <2>4, <2>7, <2>8 DEF Widened
<1> QED
  BY <1>2, <1>3 DEF Tells

\* ... for the host alone.
LEMMA SentDomain ==
    ASSUME NEW heard, heard \in [DOMAIN heard -> Heard], NEW idx \in Nat, NEW out,
           Tells(idx, out)
    PROVE  /\ Hears(heard, out) \in [DOMAIN Hears(heard, out) -> Heard]
           /\ Widened(heard, Hears(heard, out), out, idx)
<1>1. /\ OthersHeard(idx, heard, heard, Hears(heard, out), ObserveFragments(heard, "chat", out))
      /\ Hears(heard, out) \in [DOMAIN Hears(heard, out) -> Heard]
      /\ ObserveFragments(heard, "chat", out) \in [DOMAIN Hears(heard, out) -> Heard]
      /\ Widened(heard, Hears(heard, out), out, idx)
  BY SentKeeps
<1> QED
  BY <1>1

\* Another call of Messages stays in step.
LEMMA MessageElsewhere ==
    ASSUME NEW call, NEW i, NEW open, NEW b, NEW heard, NEW aud, NEW idx, i # idx,
           MessageCall(call, i, open, b, heard, aud), NEW c, OthersKept(idx, b, c),
           NEW h, NEW u, OthersHeard(idx, heard, aud, h, u)
    PROVE  MessageCall(call, i, open, c, h, u)
<1>1. /\ i \in c.dropped <=> i \in b.dropped
      /\ i \in DOMAIN c.held <=> i \in DOMAIN b.held
      /\ HeldOf(c, i) = HeldOf(b, i)
  BY DEF OthersKept, HeldOf
<1>2. /\ i \in DOMAIN h <=> i \in DOMAIN heard
      /\ i \in DOMAIN heard => h[i] = heard[i] /\ u[i] = aud[i]
  BY DEF OthersHeard
<1> QED
  BY <1>1, <1>2 DEF MessageCall

\* What is announced has a part.
LEMMA AnnouncedPart ==
    ASSUME NEW cloak, NEW a, IsAggregate(a), Announcement(a), NEW d, Announces(cloak, a, d)
    PROVE  d.part \in {"start", "more", "stop"}
BY DEF Announces

\* A call that goes on.
LEMMA FragmentFacts ==
    ASSUME NEW calls, calls \in [DOMAIN calls -> Heard], NEW d, d.idx \in DOMAIN calls
    PROVE  /\ Fragment(calls, d)[d.idx].name = calls[d.idx].name
           /\ Fragment(calls, d)[d.idx].args = calls[d.idx].args \o d.args
<1> DEFINE v == [calls[d.idx] EXCEPT !.args = @ \o d.args]
<1>1. Fragment(calls, d)[d.idx] = v
  BY DEF Fragment
<1>2. calls[d.idx] \in Heard
  OBVIOUS
<1>3. v.name = calls[d.idx].name /\ v.args = calls[d.idx].args \o d.args
  BY <1>2 DEF Heard
<1> QED
  BY <1>1, <1>3

\* The call of an event of Messages stays in step.
LEMMA MessageHere ==
    ASSUME NEW a, IsAggregate(a), Announcement(a), NEW b, AreHeld(b),
           NEW heard, heard \in [DOMAIN heard -> Heard], NEW aud, aud \in [DOMAIN heard -> Heard],
           DOMAIN b.held \subseteq DOMAIN heard, MessagesInv(b, heard, aud, a),
           NEW d, Announces("messages", a, d), ~AggregateBlock(a, b, d).odd,
           NEW c, NEW out, MessageTurn(b, d, c, out)
    PROVE  MessageCall(AggregateBlock(a, b, d).calls[d.idx], d.idx,
                       d.idx \in AggregateBlock(a, b, d).open, c,
                       Hears(heard, out), ObserveFragments(aud, "messages", out))
<1> DEFINE g == AggregateBlock(a, b, d)
           h == Hears(heard, out)
           u == ObserveFragments(aud, "messages", out)
           i == d.idx
<1>1. aud \in [DOMAIN aud -> Heard] /\ DOMAIN aud = DOMAIN heard
      /\ DOMAIN heard \subseteq DOMAIN a.calls /\ a.open \subseteq DOMAIN a.calls
      /\ a.calls \in [DOMAIN a.calls -> Heard]
  BY DEF MessagesInv, Announcement
<1>2. /\ d.part = "start" => i \notin DOMAIN a.calls
      /\ d.part # "start" => i \in a.open /\ i \in DOMAIN a.calls
  BY AnnouncementStep, <1>1 DEF Announces
<1>3. d.part # "start" => MessageCall(a.calls[i], i, TRUE, b, heard, aud)
  BY <1>2 DEF MessagesInv
\* Nothing is said.
<1>4. CASE out = Nothing
  <2>1. h = heard /\ u = aud
    BY <1>1, <1>4, SilentFacts
  <2> HIDE DEF h, u
  <2>2. CASE d.part = "start"
    <3>1. d.name \in Injected /\ c.dropped = b.dropped \cup {i} /\ c.held = b.held
      BY <1>4, <2>2, SentFacts DEF MessageTurn
    <3>2. g.calls = With(a.calls, i, [name |-> d.name, args |-> Silent])
      BY <2>2, AggregateStarts
    <3> HIDE DEF g
    <3>3. g.calls[i].name = d.name
      BY <3>2 DEF With
    <3>4. i \notin DOMAIN heard /\ i \notin DOMAIN c.held /\ i \in c.dropped
      BY <1>1, <1>2, <2>2, <3>1
    <3>5. MessageCall(g.calls[i], i, i \in g.open, c, h, u)
      BY <2>1, <3>1, <3>3, <3>4 DEF MessageCall
    <3> QED
      BY <3>5 DEF g, h, u
  <2>3. CASE d.part = "more" /\ i \in b.dropped
    <3>1. c.dropped = b.dropped /\ c.held = b.held
      BY <1>4, <2>3 DEF MessageTurn
    <3>2. g.calls = Fragment(a.calls, d) /\ g.open = a.open
      BY <2>3, AggregateGoesOn
    <3> HIDE DEF g
    <3>3. g.calls[i].name = a.calls[i].name
      BY <1>1, <1>2, <2>3, <3>2 DEF Fragment, Heard
    <3>4. a.calls[i].name \in Injected /\ i \notin DOMAIN heard /\ i \notin DOMAIN b.held
      BY <1>3, <2>3 DEF MessageCall
    <3>5. MessageCall(g.calls[i], i, i \in g.open, c, h, u)
      BY <2>1, <2>3, <3>1, <3>3, <3>4 DEF MessageCall
    <3> QED
      BY <3>5 DEF g, h, u
  <2>4. CASE d.part = "more" /\ i \notin b.dropped
    <3> DEFINE v == b.held[i] \o d.args
    <3>1. i \in DOMAIN b.held /\ c.dropped = b.dropped /\ c.held = With(b.held, i, v)
      BY <1>4, <2>4, SentFacts DEF MessageTurn
    <3>2. g.calls = Fragment(a.calls, d) /\ g.open = a.open
      BY SMTT(40), <2>4, AggregateGoesOn
    <3>3. /\ a.calls[i].name \notin Injected /\ i \in DOMAIN heard
          /\ heard[i].name = a.calls[i].name /\ heard[i].args \o HeldOf(b, i) = a.calls[i].args
          /\ aud[i] = heard[i]
      BY <1>3, <2>4, <3>1 DEF MessageCall
    <3>4. /\ heard[i].args \in Seq(Nat) /\ b.held[i] \in Seq(Nat) /\ d.args \in Seq(Nat)
      BY <2>4, <3>1, <3>3 DEF Announces, AreHeld, Heard
    <3>5. \A x, y, z \in Seq(Nat) : x \o (y \o z) = (x \o y) \o z
      BY SMTT(40)
    <3>6. HeldOf(c, i) = v /\ HeldOf(b, i) = b.held[i]
      BY <3>1 DEF HeldOf, With
    <3> HIDE DEF g, v
    <3>7. g.calls[i].name = a.calls[i].name /\ g.calls[i].args = a.calls[i].args \o d.args
      <4>1. /\ Fragment(a.calls, d)[i].name = a.calls[i].name
            /\ Fragment(a.calls, d)[i].args = a.calls[i].args \o d.args
        BY <1>1, <1>2, <2>4, FragmentFacts
      <4> QED
        BY <3>2, <4>1
    <3>8. heard[i].args \o HeldOf(c, i) = g.calls[i].args
      <4>1. (heard[i].args \o b.held[i]) \o d.args = heard[i].args \o v
        BY <3>4, <3>5 DEF v
      <4> QED
        BY <3>3, <3>6, <3>7, <4>1
    <3>9. MessageCall(g.calls[i], i, i \in g.open, c, h, u)
      BY <2>1, <2>4, <3>1, <3>3, <3>7, <3>8 DEF MessageCall
    <3> QED
      BY <3>9 DEF g, h, u
  <2>5. CASE d.part = "stop"
    <3>1. i \in b.dropped /\ c.held = b.held
      BY <1>4, <2>5, SentFacts DEF MessageTurn
    <3>2. g.calls = a.calls /\ g.open = a.open \ {i}
      BY <2>5, AggregateStops
    <3>3. a.calls[i].name \in Injected /\ i \notin DOMAIN heard /\ i \notin DOMAIN b.held
      BY <1>3, <2>5, <3>1 DEF MessageCall
    <3> HIDE DEF g
    <3>4. MessageCall(g.calls[i], i, i \in g.open, c, h, u)
      BY <2>1, <3>1, <3>2, <3>3 DEF MessageCall
    <3> QED
      BY <3>4 DEF g, h, u
  <2> QED
    BY <2>2, <2>3, <2>4, <2>5 DEF Announces
\* The host is told of it.
<1>5. ASSUME NEW name, NEW args, out = Sent(i, name, args)
      PROVE  /\ h[i] = [name |-> CallAt(heard, i).name \o name, args |-> CallAt(heard, i).args \o args]
             /\ i \in DOMAIN h
             /\ u[i] = [name |-> IF name = Unnamed THEN CallAt(aud, i).name ELSE name,
                        args |-> CallAt(aud, i).args \o args]
  <2> DEFINE o == [at |-> i, name |-> name, args |-> args]
             v == [name |-> CallAt(heard, i).name \o name, args |-> CallAt(heard, i).args \o args]
             w == [name |-> Named("messages", CallAt(aud, i).name, o), args |-> CallAt(aud, i).args \o args]
  <2>1. Hears(heard, Sent(i, name, args)) = With(heard, i, v)
    BY HearsSent
  <2>2. ObserveFragments(aud, "messages", Sent(i, name, args)) = With(aud, i, w)
    BY ZenonT(60), ObserveSent
  <2>3. Named("messages", CallAt(aud, i).name, o) = IF name = Unnamed THEN CallAt(aud, i).name ELSE name
    BY DEF Named
  <2> HIDE DEF v, w
  <2>4. h[i] = v /\ u[i] = w /\ i \in DOMAIN h
    BY <1>5, <2>1, <2>2 DEF With
  <2> QED
    BY <2>3, <2>4 DEF v, w
<1>6. CASE d.part = "start" /\ out # Nothing
  <2>1. /\ d.name \notin Injected /\ c.dropped = b.dropped /\ out = Sent(i, d.name, Silent)
        /\ c.held = IF d.name \in Repairable THEN With(b.held, i, Silent) ELSE b.held
    BY <1>6 DEF MessageTurn
  <2>2. g.calls = With(a.calls, i, [name |-> d.name, args |-> Silent]) /\ i \notin b.dropped
    BY <1>6, AggregateStarts, AggregateBlockFacts
  <2>3. d.name \in Seq(Pieces) /\ d.name # Unnamed
    BY <1>6 DEF Announces
  <2>4. i \notin DOMAIN heard /\ i \notin DOMAIN aud /\ i \notin DOMAIN b.held
    BY <1>1, <1>2, <1>6
  <2>5. /\ CallAt(heard, i).name = Unnamed /\ CallAt(heard, i).args = Silent
        /\ CallAt(aud, i).name = Unnamed /\ CallAt(aud, i).args = Silent
    BY SMTT(40), <2>4 DEF CallAt
  <2>6. h[i].name = d.name /\ h[i].args = Silent /\ i \in DOMAIN h /\ u[i] = h[i]
    <3>1. Unnamed \o d.name = d.name /\ Silent \o Silent = Silent
      BY <2>3 DEF Unnamed, Silent
    <3> HIDE DEF h, u
    <3>2. /\ h[i] = [name |-> CallAt(heard, i).name \o d.name, args |-> CallAt(heard, i).args \o Silent]
          /\ i \in DOMAIN h
          /\ u[i] = [name |-> IF d.name = Unnamed THEN CallAt(aud, i).name ELSE d.name,
                     args |-> CallAt(aud, i).args \o Silent]
      BY <1>5, <2>1
    <3>3. h[i] = [name |-> d.name, args |-> Silent] /\ u[i] = [name |-> d.name, args |-> Silent]
      BY <2>3, <2>5, <3>1, <3>2
    <3>4. u[i] = h[i]
      BY <3>3
    <3>5. h[i].name = d.name /\ h[i].args = Silent
      BY <3>3
    <3> QED
      BY <3>2, <3>4, <3>5
  <2>7. HeldOf(c, i) = Silent
    BY <2>1, <2>4 DEF HeldOf, With
  <2>8. Silent \o Silent = Silent
    BY DEF Silent
  <2> HIDE DEF g, h, u
  <2>9. g.calls[i].name = d.name /\ g.calls[i].args = Silent
    BY <2>2 DEF With
  <2>10. MessageCall(g.calls[i], i, i \in g.open, c, h, u)
    BY <2>1, <2>2, <2>6, <2>7, <2>8, <2>9 DEF MessageCall
  <2> QED
    BY <2>10 DEF g, h, u
<1>7. CASE d.part # "start" /\ out # Nothing
  <2> DEFINE x == IF d.part = "more" THEN d.args ELSE HeldOf(b, i)
  <2>1. /\ i \notin b.dropped /\ c.dropped = b.dropped /\ out = Sent(i, Unnamed, x)
        /\ HeldOf(c, i) = Silent /\ (d.part = "more" => i \notin DOMAIN b.held)
    BY SMTT(40), <1>7 DEF MessageTurn, HeldOf, Without
  <2>2. /\ a.calls[i].name \notin Injected /\ i \in DOMAIN heard
        /\ heard[i].name = a.calls[i].name /\ heard[i].args \o HeldOf(b, i) = a.calls[i].args
        /\ aud[i] = heard[i]
    BY <1>3, <1>7, <2>1 DEF MessageCall
  <2>3. /\ heard[i].args \in Seq(Nat) /\ heard[i].name \in Seq(Pieces) /\ HeldOf(b, i) \in Seq(Nat)
    BY <2>2 DEF AreHeld, Heard, HeldOf, Silent
  <2>4. CallAt(heard, i) = heard[i] /\ CallAt(aud, i) = aud[i]
    BY <1>1, <2>2 DEF CallAt
  <2>5. heard[i].name \o Unnamed = heard[i].name /\ heard[i].args \o Silent = heard[i].args
    BY SMTT(40), <2>3 DEF Unnamed, Silent
  <2> HIDE DEF h, u, x
  <2>6. /\ h[i].name = heard[i].name /\ h[i].args = heard[i].args \o x /\ i \in DOMAIN h
        /\ u[i] = h[i]
    <3>1. /\ h[i] = [name |-> CallAt(heard, i).name \o Unnamed, args |-> CallAt(heard, i).args \o x]
          /\ i \in DOMAIN h
          /\ u[i] = [name |-> IF Unnamed = Unnamed THEN CallAt(aud, i).name ELSE Unnamed,
                     args |-> CallAt(aud, i).args \o x]
      BY <1>5, <2>1
    <3>2. /\ h[i] = [name |-> heard[i].name, args |-> heard[i].args \o x]
          /\ u[i] = [name |-> aud[i].name, args |-> aud[i].args \o x]
      BY <2>4, <2>5, <3>1
    <3>3. u[i] = h[i]
      BY <2>2, <3>2
    <3>4. h[i].name = heard[i].name /\ h[i].args = heard[i].args \o x
      BY SMTT(40), <3>2
    <3> QED
      BY <3>1, <3>3, <3>4
  <2>7. g.calls[i].name = a.calls[i].name /\ g.calls[i].args = heard[i].args \o x
    <3>1. CASE d.part = "more"
      <4>1. g.calls = Fragment(a.calls, d)
        BY <3>1, AggregateGoesOn
      <4>2. a.calls[i].args = heard[i].args
        BY <2>1, <2>2, <2>5, <3>1 DEF HeldOf
      <4> HIDE DEF g
      <4> QED
        <5>1. /\ Fragment(a.calls, d)[i].name = a.calls[i].name
              /\ Fragment(a.calls, d)[i].args = a.calls[i].args \o d.args
          BY <1>1, <1>2, <3>1, FragmentFacts
        <5> QED
          BY SMTT(40), <3>1, <4>1, <4>2, <5>1 DEF x
    <3>2. CASE d.part = "stop"
      <4>1. g.calls = a.calls
        BY <3>2, AggregateStops
      <4> QED
        BY <2>2, <3>2, <4>1 DEF x
    <3> QED
      BY SMTT(40), <1>7, <3>1, <3>2 DEF Announces
  <2> HIDE DEF g
  <2>8. g.calls[i].args \in Seq(Nat)
    <3>1. x \in Seq(Nat)
      BY SMTT(40), <1>7, <2>3 DEF x, Announces
    <3> QED
      BY <2>3, <2>7, <3>1
  <2>9. h[i].args \o HeldOf(c, i) = g.calls[i].args
    BY SMTT(40), <2>1, <2>6, <2>7, <2>8 DEF Silent
  <2>10. MessageCall(g.calls[i], i, i \in g.open, c, h, u)
    BY <2>1, <2>2, <2>6, <2>7, <2>9 DEF MessageCall
  <2> QED
    BY <2>10 DEF g, h, u
<1> QED
  BY <1>4, <1>6, <1>7

\* Calls of Messages stay in step over an event.
LEMMA MessagesStep ==
    ASSUME NEW a, IsAggregate(a), Announcement(a), NEW b, AreHeld(b),
           NEW heard, heard \in [DOMAIN heard -> Heard], NEW aud, aud \in [DOMAIN heard -> Heard],
           DOMAIN b.held \subseteq DOMAIN heard, MessagesInv(b, heard, aud, a),
           NEW d, Announces("messages", a, d), ~AggregateBlock(a, b, d).odd,
           NEW c, NEW out, MessageTurn(b, d, c, out)
    PROVE  MessagesInv(c, Hears(heard, out), ObserveFragments(aud, "messages", out),
                       AggregateBlock(a, b, d))
<1> DEFINE g == AggregateBlock(a, b, d)
           h == Hears(heard, out)
           u == ObserveFragments(aud, "messages", out)
<1>1. /\ d.idx \in Nat /\ DOMAIN g.calls = DOMAIN a.calls \cup {d.idx}
      /\ \A i \in DOMAIN a.calls : i # d.idx => g.calls[i] = a.calls[i]
      /\ \A i \in DOMAIN a.calls : i # d.idx => (i \in g.open <=> i \in a.open)
  BY AnnouncementStep
<1>2. d.args \in Seq(Nat) /\ d.name \in Seq(Pieces)
  BY DEF Announces
<1>3. /\ OthersKept(d.idx, b, c)
      /\ Tells(d.idx, out)
  BY <1>2, MessageTurnKeeps
<1>4. /\ OthersHeard(d.idx, heard, aud, h, u)
      /\ Widened(heard, h, out, d.idx)
  <2> DEFINE idx == d.idx
  <2>1. idx \in Nat
    BY <1>1
  <2>2. Tells(idx, out)
    BY <1>3
  <2> HIDE DEF idx
  <2>3. OthersHeard(idx, heard, aud, h, u)
    BY <2>1, <2>2, SentKeeps
  <2>4. Widened(heard, h, out, idx)
    BY <2>1, <2>2, SentDomain
  <2> QED
    BY <2>3, <2>4 DEF idx
<1>5. MessageCall(g.calls[d.idx], d.idx, d.idx \in g.open, c, h, u)
  BY MessageHere
<1> HIDE DEF g, h, u
<1>6. ASSUME NEW i \in DOMAIN g.calls
      PROVE  MessageCall(g.calls[i], i, i \in g.open, c, h, u)
  <2>1. CASE i = d.idx
    BY <1>5, <2>1
  <2>2. CASE i # d.idx
    <3>1. i \in DOMAIN a.calls /\ g.calls[i] = a.calls[i] /\ (i \in g.open <=> i \in a.open)
      BY <1>1, <2>2
    <3>2. MessageCall(a.calls[i], i, i \in a.open, b, heard, aud)
      BY <3>1 DEF MessagesInv
    <3>3. MessageCall(a.calls[i], i, i \in a.open, c, h, u)
      BY <1>3, <1>4, <2>2, <3>2, MessageElsewhere
    <3> QED
      BY <3>1, <3>3 DEF MessageCall
  <2> QED
    BY <2>1, <2>2
<1>7. DOMAIN h \subseteq DOMAIN g.calls
  BY <1>1, <1>4 DEF MessagesInv, Widened
<1>8. MessagesInv(c, h, u, g)
  BY <1>6, <1>7 DEF MessagesInv
<1> QED
  BY <1>8 DEF g, h, u

\* What is withheld is of calls that the host has, after an event.
LEMMA MessagesTrack ==
    ASSUME NEW a, IsAggregate(a), Announcement(a), NEW b, AreHeld(b),
           NEW heard, heard \in [DOMAIN heard -> Heard], NEW aud, aud \in [DOMAIN heard -> Heard],
           DOMAIN b.held \subseteq DOMAIN heard, NEW d, Announces("messages", a, d),
           NEW c, NEW out, MessageTurn(b, d, c, out)
    PROVE  /\ DOMAIN c.held \subseteq DOMAIN Hears(heard, out)
           /\ Hears(heard, out) \in [DOMAIN Hears(heard, out) -> Heard]
           /\ ObserveFragments(aud, "messages", out) \in [DOMAIN Hears(heard, out) -> Heard]
<1>1. d.idx \in Nat /\ d.args \in Seq(Nat) /\ d.name \in Seq(Pieces)
  BY AnnouncementStep DEF Announces
<1>2. /\ Tells(d.idx, out)
      /\ DOMAIN c.held \subseteq DOMAIN b.held \cup {d.idx}
      /\ d.idx \in DOMAIN c.held => d.idx \in DOMAIN b.held \/ out # Nothing
  BY <1>1, MessageTurnKeeps
<1>3. /\ Hears(heard, out) \in [DOMAIN Hears(heard, out) -> Heard]
      /\ ObserveFragments(aud, "messages", out) \in [DOMAIN Hears(heard, out) -> Heard]
      /\ Widened(heard, Hears(heard, out), out, d.idx)
  <2> DEFINE idx == d.idx
  <2>1. idx \in Nat
    BY <1>1
  <2>2. Tells(idx, out)
    BY <1>2
  <2> HIDE DEF idx
  <2>3. /\ Hears(heard, out) \in [DOMAIN Hears(heard, out) -> Heard]
        /\ ObserveFragments(aud, "messages", out) \in [DOMAIN Hears(heard, out) -> Heard]
    <3>1. /\ OthersHeard(idx, heard, aud, Hears(heard, out), ObserveFragments(aud, "messages", out))
          /\ Hears(heard, out) \in [DOMAIN Hears(heard, out) -> Heard]
          /\ ObserveFragments(aud, "messages", out) \in [DOMAIN Hears(heard, out) -> Heard]
          /\ Widened(heard, Hears(heard, out), out, idx)
      BY <2>1, <2>2, SentKeeps
    <3> QED
      BY <3>1
  <2>4. Widened(heard, Hears(heard, out), out, idx)
    BY <2>1, <2>2, SentDomain
  <2> QED
    BY <2>3, <2>4 DEF idx
<1> QED
  BY <1>2, <1>3 DEF Widened

\* The release of what is withheld.
LEMMA HeldReleasedFacts ==
    ASSUME NEW b, AreHeld(b)
    PROVE  /\ AreHeld(HeldReleased(b).b) /\ HeldReleased(b).b.dropped = b.dropped
           /\ DOMAIN HeldReleased(b).b.held = {}
           /\ OfEach(HeldReleased(b).out) /\ Said(HeldReleased(b).out)
           /\ (HeldReleased(b).out = Nothing <=> DOMAIN b.held = {})
           /\ {o.at : o \in HeldReleased(b).out} = DOMAIN b.held
           /\ \A i \in DOMAIN b.held :
                [at |-> i, name |-> Unnamed, args |-> b.held[i]] \in HeldReleased(b).out
<1> DEFINE c == HeldReleased(b).b
           out == HeldReleased(b).out
           none == <<>>
<1>1. b = [dropped |-> b.dropped, held |-> b.held] /\ b.held \in [DOMAIN b.held -> Seq(Nat)]
  BY DEF AreHeld
<1>2. c = [b EXCEPT !.held = none]
      /\ out = {[at |-> i, name |-> Unnamed, args |-> b.held[i]] : i \in DOMAIN b.held}
  BY DEF HeldReleased, Remade
<1>3. DOMAIN none = {} /\ none \in [DOMAIN none -> Seq(Nat)]
  OBVIOUS
<1> HIDE DEF c, out, none
<1>4. c = [dropped |-> b.dropped, held |-> none]
  BY <1>1, <1>2
<1>5. c.dropped = b.dropped /\ c.held = none
  BY <1>4
<1>6. AreHeld(c)
  BY <1>3, <1>4, <1>5 DEF AreHeld
<1>7. OfEach(out)
  BY <1>2 DEF OfEach
<1>8. Said(out)
  <2> SUFFICES ASSUME NEW o \in out PROVE o.name \in Seq(Pieces) /\ o.args \in Seq(Nat)
    BY DEF Said
  <2>1. PICK i \in DOMAIN b.held : o = [at |-> i, name |-> Unnamed, args |-> b.held[i]]
    BY <1>2
  <2>2. o.name = <<>> /\ o.args = b.held[i]
    BY <2>1 DEF Unnamed
  <2> QED
    BY <1>1, <2>2
<1>9. {o.at : o \in out} = DOMAIN b.held
  <2>1. ASSUME NEW i \in DOMAIN b.held PROVE \E o \in out : o.at = i
    <3> DEFINE o == [at |-> i, name |-> Unnamed, args |-> b.held[i]]
    <3>1. o \in out /\ o.at = i
      BY <1>2
    <3> QED
      BY <3>1
  <2>2. ASSUME NEW o \in out PROVE o.at \in DOMAIN b.held
    BY <1>2, <2>2
  <2> QED
    BY <2>1, <2>2
<1>10. out = Nothing <=> DOMAIN b.held = {}
  BY <1>2 DEF Nothing
<1> QED
  BY <1>2, <1>3, <1>5, <1>6, <1>7, <1>8, <1>9, <1>10 DEF c, out

\* Calls of Messages stay in step over a release.
LEMMA HeldStep ==
    ASSUME NEW a, NEW b, AreHeld(b),
           NEW heard, heard \in [DOMAIN heard -> Heard], NEW aud, aud \in [DOMAIN heard -> Heard],
           DOMAIN b.held \subseteq DOMAIN heard, MessagesInv(b, heard, aud, a)
    PROVE  MessagesInv(HeldReleased(b).b, Hears(heard, HeldReleased(b).out),
                       ObserveFragments(aud, "messages", HeldReleased(b).out), a)
<1> DEFINE c == HeldReleased(b).b
           out == HeldReleased(b).out
           h == Hears(heard, out)
           u == ObserveFragments(aud, "messages", out)
<1>1. c.dropped = b.dropped /\ DOMAIN c.held = {}
  BY HeldReleasedFacts
<1>2. OfEach(out) /\ {o.at : o \in out} = DOMAIN b.held
  BY HeldReleasedFacts
<1>3. \A i \in DOMAIN b.held : [at |-> i, name |-> Unnamed, args |-> b.held[i]] \in out
  BY HeldReleasedFacts
<1> HIDE DEF c, out
<1>4. DOMAIN h = DOMAIN heard /\ DOMAIN aud = DOMAIN heard
  BY <1>2 DEF Hears
<1>5. ASSUME NEW i \in DOMAIN heard
      PROVE  h[i] = [name |-> heard[i].name, args |-> heard[i].args \o HeldOf(b, i)]
             /\ (aud[i] = heard[i] => u[i] = h[i])
  <2>0. heard[i] \in Heard /\ aud[i] \in Heard /\ i \in DOMAIN aud
    OBVIOUS
  <2>1. CASE i \in DOMAIN b.held
    <3> DEFINE o == [at |-> i, name |-> Unnamed, args |-> b.held[i]]
    <3>1. o \in out /\ o.at = i /\ o.name = Unnamed /\ o.args = b.held[i]
      BY <1>3, <2>1
    <3> HIDE DEF o
    <3>2. OfEach(out) /\ o \in out
      BY <1>2, <3>1
    <3>3. h[o.at] = [name |-> CallAt(heard, o.at).name \o o.name, args |-> CallAt(heard, o.at).args \o o.args]
      BY <3>2, HearsAt
    <3>4. u[o.at] = [name |-> Named("messages", CallAt(aud, o.at).name, o),
                     args |-> CallAt(aud, o.at).args \o o.args]
      BY <3>2, ObserveAt
    <3>5. Named("messages", CallAt(aud, i).name, o) = aud[i].name
      BY <2>0, <3>1 DEF Named, CallAt
    <3>6. CallAt(heard, i) = heard[i] /\ CallAt(aud, i) = aud[i] /\ HeldOf(b, i) = b.held[i]
      BY <2>0, <2>1 DEF CallAt, HeldOf
    <3>7. heard[i].name \o Unnamed = heard[i].name
      BY <2>0 DEF Unnamed, Heard
    <3> HIDE DEF h, u
    <3>8. h[i] = [name |-> heard[i].name, args |-> heard[i].args \o HeldOf(b, i)]
      BY <3>1, <3>3, <3>6, <3>7
    <3>9. u[i] = [name |-> aud[i].name, args |-> aud[i].args \o HeldOf(b, i)]
      BY <3>1, <3>4, <3>5, <3>6
    <3> QED
      BY <3>8, <3>9
  <2>2. CASE i \notin DOMAIN b.held
    <3>1. \A o \in out : o.at # i
      BY <1>2, <2>2
    <3>2. h[i] = heard[i]
      BY <3>1, HearsElse
    <3>3. u[i] = aud[i]
      BY <2>0, <3>1, ObserveElse
    <3>4. heard[i].args \o HeldOf(b, i) = heard[i].args
      BY <2>0, <2>2 DEF HeldOf, Silent, Heard
    <3>5. heard[i] = [name |-> heard[i].name, args |-> heard[i].args]
      BY <2>0 DEF Heard
    <3> QED
      BY <3>2, <3>3, <3>4, <3>5
  <2> QED
    BY <2>1, <2>2
<1> HIDE DEF h, u
<1>6. ASSUME NEW i \in DOMAIN a.calls
      PROVE  MessageCall(a.calls[i], i, i \in a.open, c, h, u)
  <2>1. MessageCall(a.calls[i], i, i \in a.open, b, heard, aud)
    BY DEF MessagesInv
  <2>2. CASE a.calls[i].name \in Injected
    BY <1>1, <1>4, <2>1, <2>2 DEF MessageCall
  <2>3. CASE a.calls[i].name \notin Injected
    <3>1. /\ i \in DOMAIN heard /\ i \notin b.dropped /\ heard[i].name = a.calls[i].name
          /\ heard[i].args \o HeldOf(b, i) = a.calls[i].args /\ aud[i] = heard[i]
      BY <2>1, <2>3 DEF MessageCall
    <3>2. h[i] = [name |-> heard[i].name, args |-> heard[i].args \o HeldOf(b, i)] /\ u[i] = h[i]
      BY <1>5, <3>1
    <3>3. h[i].name = heard[i].name /\ h[i].args = heard[i].args \o HeldOf(b, i)
      BY <3>2
    <3>4. h[i].args \in Seq(Nat)
      BY <3>1, <3>3 DEF Heard, HeldOf, AreHeld, Silent
    <3>5. h[i].args \o HeldOf(c, i) = h[i].args
      BY <1>1, <3>4 DEF HeldOf, Silent
    <3> QED
      BY <1>1, <1>4, <2>3, <3>1, <3>2, <3>3, <3>5 DEF MessageCall
  <2> QED
    BY <2>2, <2>3
<1>7. MessagesInv(c, h, u, a)
  BY <1>4, <1>6 DEF MessagesInv
<1> QED
  BY <1>7 DEF c, out, h, u

\* What the host has heard of is typed, after a release.
LEMMA HeldTracks ==
    ASSUME NEW b, AreHeld(b),
           NEW heard, heard \in [DOMAIN heard -> Heard], NEW aud, aud \in [DOMAIN heard -> Heard],
           DOMAIN b.held \subseteq DOMAIN heard
    PROVE  /\ Hears(heard, HeldReleased(b).out) \in [DOMAIN heard -> Heard]
           /\ ObserveFragments(aud, "messages", HeldReleased(b).out) \in [DOMAIN heard -> Heard]
           /\ DOMAIN Hears(heard, HeldReleased(b).out) = DOMAIN heard
<1> DEFINE out == HeldReleased(b).out
<1>1. OfEach(out) /\ Said(out) /\ {o.at : o \in out} = DOMAIN b.held
  BY HeldReleasedFacts
<1> HIDE DEF out
<1>2. aud \in [DOMAIN aud -> Heard]
  OBVIOUS
<1>3. Hears(heard, out) \in [DOMAIN heard \cup {o.at : o \in out} -> Heard]
  BY <1>1, HearsTyped
<1>4. ObserveFragments(aud, "messages", out) \in [DOMAIN aud \cup {o.at : o \in out} -> Heard]
  BY <1>1, <1>2, ObserveTyped
<1> QED
  BY <1>1, <1>3, <1>4 DEF out

\* An event of Responses.
ResponseTurn(b, d, c, out) ==
    /\ c.held = b.held
    /\ \/ /\ d.part # "more" /\ d.name \in Injected
          /\ c.dropped = b.dropped \cup {d.idx} /\ out = Nothing
       \/ /\ d.part = "stop" /\ d.name \notin Injected
          /\ c.dropped = b.dropped /\ out = Sent(d.idx, d.name, d.args)
       \/ /\ d.part = "start" /\ d.name \notin Injected
          /\ c.dropped = b.dropped /\ out = Sent(d.idx, Unnamed, Silent)
       \/ /\ d.part = "more" /\ d.idx \in b.dropped
          /\ c.dropped = b.dropped /\ out = Nothing
       \/ /\ d.part = "more" /\ d.idx \notin b.dropped
          /\ c.dropped = b.dropped /\ out = Sent(d.idx, Unnamed, Silent)

\* That is what the cloak does.
LEMMA ResponseTurns ==
    ASSUME NEW b, AreHeld(b), NEW d, d.part \in {"start", "more", "stop"}
    PROVE  /\ AreHeld(RewriteResponses(b, d).b)
           /\ ResponseTurn(b, d, RewriteResponses(b, d).b, RewriteResponses(b, d).out)
<1> DEFINE r == RewriteResponses(b, d)
           c == r.b
<1>1. b = [dropped |-> b.dropped, held |-> b.held] /\ b.held \in [DOMAIN b.held -> Seq(Nat)]
  BY DEF AreHeld
<1>2. CASE d.part # "more" /\ d.name \in Injected
  <2>1. c = [b EXCEPT !.dropped = b.dropped \cup {d.idx}] /\ r.out = Nothing
    BY <1>2 DEF RewriteResponses, Remade
  <2> HIDE DEF c, r
  <2>2. c = [dropped |-> b.dropped \cup {d.idx}, held |-> b.held]
    BY <1>1, <2>1
  <2>3. c.dropped = b.dropped \cup {d.idx} /\ c.held = b.held
    BY <2>2
  <2>4. AreHeld(c)
    BY <1>1, <2>2, <2>3 DEF AreHeld
  <2> QED
    BY <1>2, <2>1, <2>3, <2>4 DEF ResponseTurn, c, r
<1>3. CASE d.part = "stop" /\ d.name \notin Injected
  <2>1. c = b /\ r.out = Sent(d.idx, d.name, d.args)
    BY <1>3 DEF RewriteResponses, Remade
  <2> QED
    BY <1>3, <2>1 DEF ResponseTurn
<1>4. CASE d.part = "start" /\ d.name \notin Injected
  <2>1. c = b /\ r.out = Sent(d.idx, Unnamed, Silent)
    BY <1>4 DEF RewriteResponses, Remade
  <2> QED
    BY <1>4, <2>1 DEF ResponseTurn
<1>5. CASE d.part = "more" /\ d.idx \in b.dropped
  <2>1. c = b /\ r.out = Nothing
    BY <1>5 DEF RewriteResponses, Remade
  <2> QED
    BY <1>5, <2>1 DEF ResponseTurn
<1>6. CASE d.part = "more" /\ d.idx \notin b.dropped
  <2>1. c = b /\ r.out = Sent(d.idx, Unnamed, Silent)
    BY <1>6 DEF RewriteResponses, Remade
  <2> QED
    BY <1>6, <2>1 DEF ResponseTurn
<1> QED
  BY <1>2, <1>3, <1>4, <1>5, <1>6

\* What the record has of it, if it is forwarded at all.
Recorded(aud, d, out) == IF out = Nothing THEN aud ELSE ObserveResponses(aud, d)

\* An event of Responses concerns one call, for the host and for the record.
LEMMA ResponseTurnKeeps ==
    ASSUME NEW b, NEW heard, heard \in [DOMAIN heard -> Heard],
           NEW aud, aud \in [DOMAIN heard -> Heard],
           NEW d, d.idx \in Nat, d.args \in Seq(Nat), d.name \in Seq(Pieces),
           NEW c, NEW out, ResponseTurn(b, d, c, out)
    PROVE  /\ OthersHeard(d.idx, heard, aud, Hears(heard, out), Recorded(aud, d, out))
           /\ Hears(heard, out) \in [DOMAIN Hears(heard, out) -> Heard]
           /\ Recorded(aud, d, out) \in [DOMAIN Hears(heard, out) -> Heard]
           /\ Widened(heard, Hears(heard, out), out, d.idx)
<1> DEFINE h == Hears(heard, out)
           u == Recorded(aud, d, out)
           idx == d.idx
           v == [name |-> IF d.name = Unnamed THEN CallAt(aud, idx).name ELSE d.name,
                 args |-> IF d.part = "stop" /\ d.args # Silent THEN d.args
                          ELSE CallAt(aud, idx).args \o d.args]
<1>1. aud \in [DOMAIN aud -> Heard] /\ DOMAIN aud = DOMAIN heard
  OBVIOUS
<1>2. Unnamed \in Seq(Pieces) /\ Silent \in Seq(Nat)
  BY DEF Unnamed, Silent
<1>3. Tells(idx, out)
  BY <1>2 DEF ResponseTurn, Tells
<1>4. ObserveResponses(aud, d) = With(aud, idx, v)
  BY DEF ObserveResponses
<1>5. v \in Heard
  <2>1. CallAt(aud, idx).name \in Seq(Pieces) /\ CallAt(aud, idx).args \in Seq(Nat)
    BY <1>1, CallTyped
  <2>2. CallAt(aud, idx).args \o d.args \in Seq(Nat)
    BY <2>1, Appending
  <2> QED
    BY <2>1, <2>2 DEF Heard
<1> HIDE DEF v
<1>6. With(aud, idx, v) \in [DOMAIN aud \cup {idx} -> Heard]
  BY <1>1, <1>5, WithTyped
<1> HIDE DEF h, idx
<1>7. h \in [DOMAIN h -> Heard] /\ Widened(heard, h, out, idx)
  <2>1. idx \in Nat
    BY DEF idx
  <2> QED
    BY <1>3, <2>1, SentDomain DEF h
<1>8. OthersHeard(idx, heard, aud, h, ObserveFragments(aud, "chat", out))
  <2>1. idx \in Nat
    BY DEF idx
  <2> QED
    BY <1>3, <2>1, SentKeeps DEF h
<1>9. u = IF out = Nothing THEN aud ELSE With(aud, idx, v)
  BY <1>4 DEF Recorded
<1> HIDE DEF u
<1>10. u \in [DOMAIN h -> Heard]
  BY <1>1, <1>6, <1>7, <1>9 DEF Widened
<1>11. OthersHeard(idx, heard, aud, h, u)
  BY <1>1, <1>8, <1>9 DEF OthersHeard, With
<1> QED
  BY <1>7, <1>10, <1>11 DEF h, u, idx

\* Another call of Responses stays in step.
LEMMA ResponseElsewhere ==
    ASSUME NEW call, NEW i, NEW open, NEW b, NEW heard, NEW aud, NEW idx, i # idx,
           ResponseCall(call, i, open, b, heard, aud), NEW c, i \in c.dropped <=> i \in b.dropped,
           NEW h, NEW u, OthersHeard(idx, heard, aud, h, u)
    PROVE  ResponseCall(call, i, open, c, h, u)
BY DEF OthersHeard, ResponseCall

\* The call of an event of Responses stays in step.
LEMMA ResponseHere ==
    ASSUME NEW a, IsAggregate(a), Announcement(a), ~a.whole, NEW b,
           NEW heard, heard \in [DOMAIN heard -> Heard], NEW aud, aud \in [DOMAIN heard -> Heard],
           ResponsesInv(b, heard, aud, a),
           NEW d, Announces("responses", a, d), ~AggregateBlock(a, b, d).odd,
           NEW c, NEW out, ResponseTurn(b, d, c, out)
    PROVE  ResponseCall(AggregateBlock(a, b, d).calls[d.idx], d.idx,
                        d.idx \in AggregateBlock(a, b, d).open, c,
                        Hears(heard, out), Recorded(aud, d, out))
<1> DEFINE g == AggregateBlock(a, b, d)
           h == Hears(heard, out)
           u == Recorded(aud, d, out)
           i == d.idx
<1>1. aud \in [DOMAIN aud -> Heard] /\ DOMAIN aud = DOMAIN heard
      /\ DOMAIN heard \subseteq DOMAIN a.calls /\ a.open \subseteq DOMAIN a.calls
      /\ a.calls \in [DOMAIN a.calls -> Heard]
      /\ d.name \in Seq(Pieces) /\ d.args \in Seq(Nat)
  BY DEF ResponsesInv, Announcement, Announces
<1>2. /\ d.part = "start" => i \notin DOMAIN a.calls
      /\ d.part # "start" => i \in a.open /\ i \in DOMAIN a.calls
  BY AnnouncementStep, <1>1 DEF Announces
<1>3. d.part # "start" => ResponseCall(a.calls[i], i, TRUE, b, heard, aud)
  BY <1>2 DEF ResponsesInv
<1>4. d.part = "stop" => d.name = a.calls[i].name /\ d.args = a.calls[i].args
  BY DEF Announces
<1>5. d.part = "start" => d.name # Unnamed /\ d.args = Silent
  BY DEF Announces
<1>6. d.part = "more" => d.name = Unnamed
  BY DEF Announces
\* Nothing is said.
<1>7. CASE out = Nothing
  <2>1. h = heard /\ u = aud
    BY <1>1, <1>7, SilentFacts DEF Recorded
  <2> HIDE DEF h, u
  <2>2. CASE d.part = "start"
    <3>1. d.name \in Injected /\ c.dropped = b.dropped \cup {i}
      BY <1>7, <2>2, SentFacts DEF ResponseTurn
    <3>2. g.calls = With(a.calls, i, [name |-> d.name, args |-> Silent])
      BY <2>2, AggregateStarts
    <3> HIDE DEF g
    <3>3. g.calls[i].name = d.name
      BY <3>2 DEF With
    <3>4. i \notin DOMAIN heard /\ i \in c.dropped
      BY <1>1, <1>2, <2>2, <3>1
    <3>5. ResponseCall(g.calls[i], i, i \in g.open, c, h, u)
      BY <2>1, <3>1, <3>3, <3>4 DEF ResponseCall
    <3> QED
      BY <3>5 DEF g, h, u
  <2>3. CASE d.part = "more"
    <3>1. i \in b.dropped /\ c.dropped = b.dropped
      BY <1>7, <2>3, SentFacts DEF ResponseTurn
    <3>2. g.calls = Fragment(a.calls, d)
      BY <2>3, AggregateGoesOn
    <3> HIDE DEF g
    <3>3. g.calls[i].name = a.calls[i].name
      <4>1. Fragment(a.calls, d)[i].name = a.calls[i].name
        BY <1>1, <1>2, <2>3, FragmentFacts
      <4> QED
        BY <3>2, <4>1
    <3>4. a.calls[i].name \in Injected /\ i \notin DOMAIN heard
      BY <1>3, <2>3, <3>1 DEF ResponseCall
    <3>5. ResponseCall(g.calls[i], i, i \in g.open, c, h, u)
      BY <2>1, <3>1, <3>3, <3>4 DEF ResponseCall
    <3> QED
      BY <3>5 DEF g, h, u
  <2>4. CASE d.part = "stop"
    <3>1. d.name \in Injected /\ c.dropped = b.dropped \cup {i}
      BY <1>7, <2>4, SentFacts DEF ResponseTurn
    <3>2. g.calls = a.calls
      BY <2>4, AggregateStops
    <3>3. a.calls[i].name \in Injected /\ i \notin DOMAIN heard
      BY <1>3, <1>4, <2>4, <3>1 DEF ResponseCall
    <3> HIDE DEF g
    <3>4. ResponseCall(g.calls[i], i, i \in g.open, c, h, u)
      BY <2>1, <3>1, <3>2, <3>3 DEF ResponseCall
    <3> QED
      BY <3>4 DEF g, h, u
  <2> QED
    BY <2>2, <2>3, <2>4 DEF Announces
\* The host is told of it.
<1>8. ASSUME out # Nothing
      PROVE  /\ d.part # "more" => d.name \notin Injected
             /\ d.part = "more" => i \notin b.dropped
             /\ c.dropped = b.dropped
             /\ out = IF d.part = "stop" THEN Sent(i, d.name, d.args) ELSE Sent(i, Unnamed, Silent)
  BY <1>8 DEF ResponseTurn
<1>9. ASSUME NEW name, NEW args, out = Sent(i, name, args)
      PROVE  /\ h[i] = [name |-> CallAt(heard, i).name \o name, args |-> CallAt(heard, i).args \o args]
             /\ i \in DOMAIN h
  <2> DEFINE v == [name |-> CallAt(heard, i).name \o name, args |-> CallAt(heard, i).args \o args]
  <2>1. Hears(heard, Sent(i, name, args)) = With(heard, i, v)
    BY HearsSent
  <2> HIDE DEF v
  <2>2. h[i] = v /\ i \in DOMAIN h
    BY <1>9, <2>1 DEF With
  <2> QED
    BY <2>2 DEF v
<1>10. ASSUME out # Nothing
       PROVE  u[i] = [name |-> IF d.name = Unnamed THEN CallAt(aud, i).name ELSE d.name,
                      args |-> IF d.part = "stop" /\ d.args # Silent THEN d.args
                               ELSE CallAt(aud, i).args \o d.args]
  <2> DEFINE v == [name |-> IF d.name = Unnamed THEN CallAt(aud, i).name ELSE d.name,
                   args |-> IF d.part = "stop" /\ d.args # Silent THEN d.args
                            ELSE CallAt(aud, i).args \o d.args]
  <2>1. u = With(aud, i, v)
    BY <1>10 DEF Recorded, ObserveResponses
  <2> HIDE DEF v, u
  <2>2. u[i] = v
    BY <2>1 DEF With
  <2> QED
    BY <2>2 DEF v
<1>11. CASE d.part = "start" /\ out # Nothing
  <2>1. d.name \notin Injected /\ c.dropped = b.dropped /\ out = Sent(i, Unnamed, Silent)
    BY <1>8, <1>11
  <2>2. g.calls = With(a.calls, i, [name |-> d.name, args |-> Silent]) /\ g.open = a.open \cup {i}
    BY <1>11, AggregateStarts
  <2>3. i \notin b.dropped
    BY <1>11, AggregateBlockFacts
  <2>4. i \notin DOMAIN heard /\ i \notin DOMAIN aud
    BY <1>1, <1>2, <1>11
  <2>5. /\ CallAt(heard, i).name = Unnamed /\ CallAt(heard, i).args = Silent
        /\ CallAt(aud, i).args = Silent
    BY <2>4 DEF CallAt
  <2>6. Unnamed \o Unnamed = Unnamed /\ Silent \o Silent = Silent
    BY DEF Unnamed, Silent
  <2> HIDE DEF g, h, u
  <2>7. h[i] = [name |-> CallAt(heard, i).name \o Unnamed, args |-> CallAt(heard, i).args \o Silent]
        /\ i \in DOMAIN h
    BY <1>9, <2>1
  <2>8. h[i] = [name |-> Unnamed, args |-> Silent]
    BY <2>5, <2>6, <2>7
  <2>9. u[i] = [name |-> d.name, args |-> Silent]
    BY <1>5, <1>10, <1>11, <2>5, <2>6
  <2>10. g.calls[i] = [name |-> d.name, args |-> Silent] /\ i \in g.open
    BY <2>2 DEF With
  <2>11. ResponseCall(g.calls[i], i, i \in g.open, c, h, u)
    BY <2>1, <2>3, <2>7, <2>8, <2>9, <2>10 DEF ResponseCall
  <2> QED
    BY <2>11 DEF g, h, u
<1>12. CASE d.part # "start" /\ out # Nothing
  <2>1. c.dropped = b.dropped
    BY <1>8, <1>12
  <2>2. a.calls[i].name \notin Injected
    <3>1. CASE d.part = "more"
      BY <1>3, <1>8, <1>12, <3>1 DEF ResponseCall
    <3>2. CASE d.part = "stop"
      BY <1>4, <1>8, <1>12, <3>2
    <3> QED
      BY <1>12, <3>1, <3>2 DEF Announces
  <2>3. /\ i \in DOMAIN heard /\ i \notin b.dropped /\ aud[i] = a.calls[i]
        /\ heard[i] = [name |-> Unnamed, args |-> Silent]
    BY <1>3, <1>12, <2>2 DEF ResponseCall
  <2>4. /\ CallAt(heard, i).name = Unnamed /\ CallAt(heard, i).args = Silent
        /\ CallAt(aud, i) = a.calls[i]
    BY <1>1, <2>3 DEF CallAt
  <2>5. a.calls[i] = [name |-> a.calls[i].name, args |-> a.calls[i].args]
        /\ a.calls[i].args \in Seq(Nat) /\ a.calls[i].name \in Seq(Pieces)
    BY <1>1, <2>3 DEF Heard
  <2>6. Unnamed \o Unnamed = Unnamed /\ Silent \o Silent = Silent
        /\ Unnamed \o d.name = d.name /\ Silent \o d.args = d.args
        /\ a.calls[i].args \o Silent = a.calls[i].args
    BY <1>1, <2>5 DEF Unnamed, Silent
  <2>7. CASE d.part = "more"
    <3>1. out = Sent(i, Unnamed, Silent)
      BY <1>8, <1>12, <2>7
    <3>2. g.calls = Fragment(a.calls, d) /\ g.open = a.open
      BY <2>7, AggregateGoesOn
    <3> HIDE DEF g, h, u
    <3>3. h[i] = [name |-> CallAt(heard, i).name \o Unnamed, args |-> CallAt(heard, i).args \o Silent]
          /\ i \in DOMAIN h
      BY <1>9, <3>1
    <3>4. h[i] = [name |-> Unnamed, args |-> Silent]
      BY SMTT(40), <2>4, <2>6, <3>3
    <3>5. u[i] = [name |-> a.calls[i].name, args |-> a.calls[i].args \o d.args]
      BY <1>6, <1>10, <1>12, <2>4, <2>7
    <3>6. g.calls[i] = [name |-> a.calls[i].name, args |-> a.calls[i].args \o d.args]
      <4> DEFINE v == [a.calls[i] EXCEPT !.args = @ \o d.args]
      <4>1. g.calls[i] = v
        BY SMTT(40), <1>1, <1>2, <2>7, <3>2 DEF Fragment
      <4>2. v = [name |-> a.calls[i].name, args |-> a.calls[i].args \o d.args]
        <5>1. a.calls[i].args \o d.args \in Seq(Nat)
          BY <1>1, <2>5, Appending
        <5>2. a.calls[i] \in Heard
          BY <1>1, <1>2, <1>12
        <5>3. v \in Heard
          BY <5>1, <5>2 DEF Heard
        <5>4. v.name = a.calls[i].name /\ v.args = a.calls[i].args \o d.args
          BY <5>2 DEF Heard
        <5> HIDE DEF v
        <5> QED
          BY <5>3, <5>4 DEF Heard
      <4> QED
        BY <4>1, <4>2
    <3>7. i \in g.open
      BY <1>2, <2>7, <3>2
    <3>8. g.calls[i].name = a.calls[i].name
      BY <3>6
    <3>9. ResponseCall(g.calls[i], i, i \in g.open, c, h, u)
      BY <2>1, <2>2, <2>3, <3>3, <3>4, <3>5, <3>6, <3>7, <3>8 DEF ResponseCall
    <3> QED
      BY <3>9 DEF g, h, u
  <2>8. CASE d.part = "stop"
    <3>1. out = Sent(i, d.name, d.args)
      BY <1>8, <1>12, <2>8
    <3>2. g.calls = a.calls /\ g.open = a.open \ {i}
      BY <2>8, AggregateStops
    <3> HIDE DEF g, h, u
    <3>3. h[i] = [name |-> CallAt(heard, i).name \o d.name, args |-> CallAt(heard, i).args \o d.args]
          /\ i \in DOMAIN h
      BY <1>9, <3>1
    <3>4. h[i] = [name |-> d.name, args |-> d.args]
      BY <2>4, <2>6, <3>3
    <3>5. h[i] = a.calls[i]
      BY <1>4, <2>5, <2>8, <3>4
    <3>6. u[i] = [name |-> IF d.name = Unnamed THEN a.calls[i].name ELSE d.name,
                  args |-> IF d.args # Silent THEN d.args ELSE a.calls[i].args \o d.args]
      BY SMTT(40), <1>10, <1>12, <2>4, <2>8
    <3>7. u[i] = [name |-> a.calls[i].name, args |-> a.calls[i].args]
      BY <1>4, <2>6, <2>8, <3>6
    <3>8. u[i] = a.calls[i]
      BY <2>5, <3>7
    <3>9. ResponseCall(g.calls[i], i, i \in g.open, c, h, u)
      BY <2>1, <2>2, <2>3, <3>2, <3>3, <3>5, <3>8 DEF ResponseCall
    <3> QED
      BY <3>9 DEF g, h, u
  <2> QED
    BY <1>12, <2>7, <2>8 DEF Announces
<1> QED
  BY <1>7, <1>11, <1>12

\* Calls of Responses stay in step over an event.
LEMMA ResponsesStep ==
    ASSUME NEW a, IsAggregate(a), Announcement(a), ~a.whole, NEW b,
           NEW heard, heard \in [DOMAIN heard -> Heard], NEW aud, aud \in [DOMAIN heard -> Heard],
           ResponsesInv(b, heard, aud, a),
           NEW d, Announces("responses", a, d), ~AggregateBlock(a, b, d).odd,
           NEW c, NEW out, ResponseTurn(b, d, c, out)
    PROVE  ResponsesInv(c, Hears(heard, out), Recorded(aud, d, out), AggregateBlock(a, b, d))
<1> DEFINE g == AggregateBlock(a, b, d)
           h == Hears(heard, out)
           u == Recorded(aud, d, out)
<1>1. /\ d.idx \in Nat /\ DOMAIN g.calls = DOMAIN a.calls \cup {d.idx}
      /\ \A i \in DOMAIN a.calls : i # d.idx => g.calls[i] = a.calls[i]
      /\ \A i \in DOMAIN a.calls : i # d.idx => (i \in g.open <=> i \in a.open)
  BY AnnouncementStep
<1>2. d.args \in Seq(Nat) /\ d.name \in Seq(Pieces)
  BY DEF Announces
<1>3. /\ OthersHeard(d.idx, heard, aud, h, u)
      /\ h \in [DOMAIN h -> Heard] /\ u \in [DOMAIN h -> Heard]
      /\ Widened(heard, h, out, d.idx)
  BY <1>1, <1>2, ResponseTurnKeeps
<1>4. ResponseCall(g.calls[d.idx], d.idx, d.idx \in g.open, c, h, u)
  BY ResponseHere
<1>5. ~g.whole
  BY AggregateBlockFacts
<1>6. \A i : i # d.idx => (i \in c.dropped <=> i \in b.dropped)
  BY DEF ResponseTurn
<1> HIDE DEF g, h, u
<1>7. ASSUME NEW i \in DOMAIN g.calls
      PROVE  ResponseCall(g.calls[i], i, i \in g.open, c, h, u)
  <2>1. CASE i = d.idx
    BY <1>4, <2>1
  <2>2. CASE i # d.idx
    <3>1. i \in DOMAIN a.calls /\ g.calls[i] = a.calls[i] /\ (i \in g.open <=> i \in a.open)
      BY <1>1, <2>2
    <3>2. ResponseCall(a.calls[i], i, i \in a.open, b, heard, aud)
      BY <3>1 DEF ResponsesInv
    <3>3. i \in c.dropped <=> i \in b.dropped
      BY <1>6, <2>2
    <3>4. ResponseCall(a.calls[i], i, i \in a.open, c, h, u)
      BY <1>3, <2>2, <3>2, <3>3, ResponseElsewhere
    <3> QED
      BY <3>1, <3>4 DEF ResponseCall
  <2> QED
    BY <2>1, <2>2
<1>8. DOMAIN h \subseteq DOMAIN g.calls
  BY <1>1, <1>3 DEF ResponsesInv, Widened
<1>9. ResponsesInv(c, h, u, g)
  BY <1>5, <1>7, <1>8 DEF ResponsesInv
<1> QED
  BY <1>9 DEF g, h, u

-----------------------------------------------------------------------------
(* The calls of a pipe                                                     *)

\* A pipe after an event of a call, or a release, that is forwarded or not.
Follows(p, q, out, aud) ==
    /\ q.cloak = p.cloak /\ (p.tool \/ out # Nothing => q.tool)
    /\ q.heard = Hears(p.heard, out) /\ q.aud = aud

\* What the recorder makes of an event of a call.
RecordOf(p, d, out) ==
    IF p.cloak = "responses" THEN Recorded(p.aud, d, out) ELSE ObserveFragments(p.aud, p.cloak, out)

\* Who has heard of nothing has been told nothing of tools.
LEMMA ToolFollows ==
    ASSUME NEW p, Tracks(p), NEW q, NEW out, NEW aud, Follows(p, q, out, aud)
    PROVE  ~q.tool => DOMAIN q.heard = {}
<1> SUFFICES ASSUME ~q.tool PROVE DOMAIN q.heard = {}
  OBVIOUS
<1>1. out = Nothing /\ ~p.tool
  BY DEF Follows
<1>2. p.heard \in [DOMAIN p.heard -> Heard] /\ DOMAIN p.heard = {}
  BY <1>1 DEF Tracks
<1>3. q.heard = Hears(p.heard, out)
  BY DEF Follows
<1>4. Hears(p.heard, Nothing) = p.heard
  BY <1>2, SilentFacts
<1> QED
  BY <1>1, <1>2, <1>3, <1>4

\* An event of chat.
LEMMA ChatData ==
    ASSUME NEW p, Data(p), p.cloak = "chat", NEW d, Fits(p, d), NEW q,
           Follows(p, q, Rewrite(p.k, d).out, ObserveFragments(p.aud, "chat", Rewrite(p.k, d).out)),
           q.k = Rewrite(p.k, d).k, q.b = p.b, q.agg = Aggregate(p.agg, p.k, d)
    PROVE  Data(q)
<1> DEFINE r == Rewrite(p.k, d)
           g == Aggregate(p.agg, p.k, d)
<1>1. d \in DeltaType /\ \A c \in DOMAIN p.k.calls : ~p.k.calls[c].flushed
  BY DEF Fits, DeltaType
<1>2. /\ IsAggregate(p.agg) /\ AreHeld(p.b) /\ p.heard \in [DOMAIN p.heard -> Heard]
      /\ p.aud \in [DOMAIN p.heard -> Heard]
      /\ CloakInv(p.k) /\ CloakHeard(p.k, p.heard)
      /\ p.agg.odd \/ ChatInv(p.k, p.heard, p.aud, p.agg)
  BY DEF Data, Tracks, InStep
<1>3. /\ CloakInv(r.k) /\ CloakHeard(r.k, Hears(p.heard, r.out))
      /\ Hears(p.heard, r.out) \in [DOMAIN Hears(p.heard, r.out) -> Heard]
      /\ ObserveFragments(p.aud, "chat", r.out) \in [DOMAIN Hears(p.heard, r.out) -> Heard]
  BY <1>1, <1>2, ChatTracks
<1>4. IsAggregate(g) /\ (~g.odd => ~p.agg.odd)
  BY <1>2, AggregateFacts
<1>5. ~g.odd => ChatInv(r.k, Hears(p.heard, r.out), ObserveFragments(p.aud, "chat", r.out), g)
  BY <1>1, <1>2, <1>4, ChatStep
<1>6. ~q.tool => DOMAIN q.heard = {}
  BY ToolFollows DEF Data
<1> HIDE DEF r, g
<1>7. /\ q.cloak = "chat" /\ q.heard = Hears(p.heard, r.out)
      /\ q.aud = ObserveFragments(p.aud, "chat", r.out) /\ q.k = r.k /\ q.b = p.b /\ q.agg = g
  BY DEF Follows, r, g
<1>8. q.cloak \in Cloaks
  BY <1>7 DEF Cloaks
<1> QED
  BY <1>2, <1>3, <1>4, <1>5, <1>6, <1>7, <1>8 DEF Data, Tracks, InStep

\* An event of Messages.
LEMMA MessagesData ==
    ASSUME NEW p, Data(p), p.cloak = "messages", NEW d, Fits(p, d), NEW q,
           Follows(p, q, RewriteMessages(p.b, d).out,
                   ObserveFragments(p.aud, "messages", RewriteMessages(p.b, d).out)),
           q.b = RewriteMessages(p.b, d).b, q.agg = AggregateBlock(p.agg, p.b, d)
    PROVE  Data(q)
<1> DEFINE c == RewriteMessages(p.b, d).b
           out == RewriteMessages(p.b, d).out
           g == AggregateBlock(p.agg, p.b, d)
<1>1. Announces("messages", p.agg, d)
  BY DEF Fits
<1>2. /\ IsAggregate(p.agg) /\ AreHeld(p.b) /\ p.heard \in [DOMAIN p.heard -> Heard]
      /\ p.aud \in [DOMAIN p.heard -> Heard]
      /\ DOMAIN p.b.held \subseteq DOMAIN p.heard /\ Announcement(p.agg)
      /\ p.agg.odd \/ MessagesInv(p.b, p.heard, p.aud, p.agg)
  BY DEF Data, Tracks, InStep
<1>3. d.part \in {"start", "more", "stop"} /\ d.args \in Seq(Nat)
  BY <1>1 DEF Announces
<1>4. AreHeld(c) /\ MessageTurn(p.b, d, c, out)
  BY <1>2, <1>3, MessageTurns
<1>5. IsAggregate(g) /\ (~g.odd => ~p.agg.odd)
  BY <1>2, AggregateBlockFacts
<1>6. Announcement(g)
  BY <1>1, <1>2, AnnouncementStep
<1> HIDE DEF c, out
<1>7. /\ DOMAIN c.held \subseteq DOMAIN Hears(p.heard, out)
      /\ Hears(p.heard, out) \in [DOMAIN Hears(p.heard, out) -> Heard]
      /\ ObserveFragments(p.aud, "messages", out) \in [DOMAIN Hears(p.heard, out) -> Heard]
  BY <1>1, <1>2, <1>4, MessagesTrack
<1>8. ~g.odd => MessagesInv(c, Hears(p.heard, out), ObserveFragments(p.aud, "messages", out), g)
  BY <1>1, <1>2, <1>4, <1>5, MessagesStep
<1>9. ~q.tool => DOMAIN q.heard = {}
  BY ToolFollows DEF Data
<1> HIDE DEF g
<1>10. /\ q.cloak = "messages" /\ q.heard = Hears(p.heard, out)
       /\ q.aud = ObserveFragments(p.aud, "messages", out) /\ q.b = c /\ q.agg = g
  BY DEF Follows, c, out, g
<1>11. q.cloak \in Cloaks
  BY <1>10 DEF Cloaks
<1> QED
  BY <1>4, <1>5, <1>6, <1>7, <1>8, <1>9, <1>10, <1>11 DEF Data, Tracks, InStep

\* An event of Responses.
LEMMA ResponsesData ==
    ASSUME NEW p, Data(p), p.cloak = "responses", ~p.agg.whole, NEW d, Fits(p, d), NEW q,
           Follows(p, q, RewriteResponses(p.b, d).out, Recorded(p.aud, d, RewriteResponses(p.b, d).out)),
           q.b = RewriteResponses(p.b, d).b, q.agg = AggregateBlock(p.agg, p.b, d)
    PROVE  Data(q) /\ ~q.agg.whole
<1> DEFINE c == RewriteResponses(p.b, d).b
           out == RewriteResponses(p.b, d).out
           g == AggregateBlock(p.agg, p.b, d)
<1>1. Announces("responses", p.agg, d)
  BY DEF Fits
<1>2. /\ IsAggregate(p.agg) /\ AreHeld(p.b) /\ p.heard \in [DOMAIN p.heard -> Heard]
      /\ p.aud \in [DOMAIN p.heard -> Heard] /\ Announcement(p.agg)
      /\ p.agg.odd \/ ResponsesInv(p.b, p.heard, p.aud, p.agg)
  BY DEF Data, Tracks, InStep
<1>3. d.part \in {"start", "more", "stop"} /\ d.args \in Seq(Nat) /\ d.name \in Seq(Pieces)
  BY <1>1 DEF Announces
<1>4. AreHeld(c) /\ ResponseTurn(p.b, d, c, out)
  BY <1>2, <1>3, ResponseTurns
<1>5. IsAggregate(g) /\ (~g.odd => ~p.agg.odd) /\ g.whole = p.agg.whole
  BY <1>2, AggregateBlockFacts
<1>6. Announcement(g) /\ d.idx \in Nat
  BY <1>1, <1>2, AnnouncementStep
<1> HIDE DEF c, out
<1>7. /\ Hears(p.heard, out) \in [DOMAIN Hears(p.heard, out) -> Heard]
      /\ Recorded(p.aud, d, out) \in [DOMAIN Hears(p.heard, out) -> Heard]
  BY <1>2, <1>3, <1>4, <1>6, ResponseTurnKeeps
<1>8. ~g.odd => ResponsesInv(c, Hears(p.heard, out), Recorded(p.aud, d, out), g)
  BY <1>1, <1>2, <1>4, <1>5, ResponsesStep
<1>9. ~q.tool => DOMAIN q.heard = {}
  BY ToolFollows DEF Data
<1> HIDE DEF g
<1>10. /\ q.cloak = "responses" /\ q.heard = Hears(p.heard, out)
       /\ q.aud = Recorded(p.aud, d, out) /\ q.b = c /\ q.agg = g
  BY DEF Follows, c, out, g
<1>11. q.cloak \in Cloaks
  BY <1>10 DEF Cloaks
<1> QED
  BY <1>4, <1>5, <1>6, <1>7, <1>8, <1>9, <1>10, <1>11 DEF Data, Tracks, InStep

\* What is withheld in chat is released.
LEMMA ReleasedData ==
    ASSUME NEW p, Data(p), p.cloak = "chat", NEW q,
           Follows(p, q, Releases(p.k), ObserveFragments(p.aud, "chat", Releases(p.k))),
           q.k = Released(p.k).k, q.b = p.b, q.agg = p.agg
    PROVE  Data(q) /\ Drained(q)
<1> DEFINE r == Released(p.k).k
           out == Releases(p.k)
<1>1. /\ IsAggregate(p.agg) /\ AreHeld(p.b) /\ p.heard \in [DOMAIN p.heard -> Heard]
      /\ p.aud \in [DOMAIN p.heard -> Heard]
      /\ CloakInv(p.k) /\ CloakHeard(p.k, p.heard)
      /\ p.agg.odd \/ ChatInv(p.k, p.heard, p.aud, p.agg)
  BY DEF Data, Tracks, InStep
<1>2. CloakInv(r) /\ Withheld(r) = {}
  BY <1>1, ReleasedFacts
<1>3. /\ CloakHeard(r, Hears(p.heard, out))
      /\ Hears(p.heard, out) \in [DOMAIN Hears(p.heard, out) -> Heard]
      /\ ObserveFragments(p.aud, "chat", out) \in [DOMAIN Hears(p.heard, out) -> Heard]
  BY <1>1, ReleaseTracks
<1>4. p.agg.odd \/ ChatInv(r, Hears(p.heard, out), ObserveFragments(p.aud, "chat", out), p.agg)
  BY <1>1, ReleaseStep
<1>5. ~q.tool => DOMAIN q.heard = {}
  BY ToolFollows DEF Data
<1> HIDE DEF r, out
<1>6. /\ q.cloak = "chat" /\ q.heard = Hears(p.heard, out)
      /\ q.aud = ObserveFragments(p.aud, "chat", out) /\ q.k = r /\ q.b = p.b /\ q.agg = p.agg
  BY DEF Follows, r, out
<1>7. q.cloak \in Cloaks
  BY <1>6 DEF Cloaks
<1> QED
  BY <1>1, <1>2, <1>3, <1>4, <1>5, <1>6, <1>7 DEF Data, Tracks, InStep, Drained

\* What is withheld in Messages is released.
LEMMA HeldData ==
    ASSUME NEW p, Data(p), p.cloak = "messages", NEW q,
           Follows(p, q, HeldReleased(p.b).out, ObserveFragments(p.aud, "messages", HeldReleased(p.b).out)),
           q.b = HeldReleased(p.b).b, q.agg = p.agg
    PROVE  Data(q) /\ Drained(q)
<1> DEFINE c == HeldReleased(p.b).b
           out == HeldReleased(p.b).out
<1>1. /\ IsAggregate(p.agg) /\ AreHeld(p.b) /\ p.heard \in [DOMAIN p.heard -> Heard]
      /\ p.aud \in [DOMAIN p.heard -> Heard]
      /\ DOMAIN p.b.held \subseteq DOMAIN p.heard /\ Announcement(p.agg)
      /\ p.agg.odd \/ MessagesInv(p.b, p.heard, p.aud, p.agg)
  BY DEF Data, Tracks, InStep
<1>2. AreHeld(c) /\ DOMAIN c.held = {}
  BY <1>1, HeldReleasedFacts
<1>3. /\ Hears(p.heard, out) \in [DOMAIN p.heard -> Heard]
      /\ ObserveFragments(p.aud, "messages", out) \in [DOMAIN p.heard -> Heard]
      /\ DOMAIN Hears(p.heard, out) = DOMAIN p.heard
  BY <1>1, HeldTracks
<1>4. p.agg.odd \/ MessagesInv(c, Hears(p.heard, out), ObserveFragments(p.aud, "messages", out), p.agg)
  BY <1>1, HeldStep
<1>5. ~q.tool => DOMAIN q.heard = {}
  BY ToolFollows DEF Data
<1> HIDE DEF c, out
<1>6. /\ q.cloak = "messages" /\ q.heard = Hears(p.heard, out)
      /\ q.aud = ObserveFragments(p.aud, "messages", out) /\ q.b = c /\ q.agg = p.agg
  BY DEF Follows, c, out
<1>7. q.cloak \in Cloaks
  BY <1>6 DEF Cloaks
<1> QED
  BY <1>1, <1>2, <1>3, <1>4, <1>5, <1>6, <1>7 DEF Data, Tracks, InStep, Drained

\* Nothing is said, and the calls stay as they are.
Alike(p, q) ==
    /\ q.cloak = p.cloak /\ q.k = p.k /\ q.b = p.b /\ q.heard = p.heard /\ q.aud = p.aud
    /\ q.agg = p.agg /\ (p.tool => q.tool)

\* They are followed as before.
LEMMA AlikeData ==
    ASSUME NEW p, Data(p), NEW q, Alike(p, q)
    PROVE  Data(q)
BY DEF Data, Tracks, InStep, Alike

\* The response object of Responses is complete.
LEMMA CompletedData ==
    ASSUME NEW p, Data(p), NEW q, q.cloak = p.cloak, q.k = p.k, q.b = p.b, q.heard = p.heard,
           q.aud = p.aud, p.tool => q.tool, q.agg = Completed(p.agg)
    PROVE  Data(q)
<1>1. IsAggregate(p.agg)
  BY DEF Data, Tracks
<1>2. /\ IsAggregate(q.agg) /\ q.agg.calls = p.agg.calls /\ q.agg.open = p.agg.open
      /\ q.agg.odd = p.agg.odd /\ (q.agg.whole => q.agg.open = {})
  <2> DEFINE a == p.agg
             w == (a.open = {})
             g == [a EXCEPT !.whole = w]
  <2>1. q.agg = g
    BY DEF Completed
  <2> HIDE DEF w
  <2>2. g = [calls |-> a.calls, owner |-> a.owner, odd |-> a.odd, open |-> a.open, whole |-> w]
    BY <1>1 DEF IsAggregate
  <2> HIDE DEF g
  <2>3. /\ g.calls = a.calls /\ g.owner = a.owner /\ g.odd = a.odd /\ g.open = a.open /\ g.whole = w
    BY <2>2
  <2>4. IsAggregate(g)
    BY <2>2, <2>3 DEF IsAggregate
  <2> QED
    BY <2>1, <2>3, <2>4 DEF w
<1>3. Tracks(q)
  BY <1>2 DEF Data, Tracks, Announcement
<1>4. ~q.agg.odd => InStep(q)
  BY <1>2 DEF Data, InStep, ChatInv, MessagesInv, ResponsesInv
<1> QED
  BY <1>3, <1>4 DEF Data

-----------------------------------------------------------------------------
(* The calls of a pipe: blocks                                             *)

\* The calls stay as they are, and so does what is known of the stream.
Moves(p, q) == Alike(p, q) /\ q.gate = p.gate /\ q.tail = p.tail

\* What stays twice has stayed.
LEMMA MovesTransitive ==
    ASSUME NEW p, NEW q, NEW r, Moves(p, q), Moves(q, r)
    PROVE  Moves(p, r)
BY DEF Moves, Alike

\* The host has what it had, and what is said now.
LEMMA HeededCalls ==
    ASSUME NEW p, IsPipe(p), NEW f, NEW out
    PROVE  LET q == Heed(p, f, out)
           IN /\ q.cloak = p.cloak /\ q.k = p.k /\ q.b = p.b /\ q.aud = p.aud /\ q.agg = p.agg
              /\ q.tool = p.tool /\ q.gate = p.gate /\ q.tail = p.tail
              /\ q.heard = IF Reached(p) THEN Hears(p.heard, out) ELSE p.heard
BY ZenonT(40) DEF IsPipe, PipeFields, Heed

\* What the record of a pipe becomes.
Audited(p, f, out) ==
    CASE p.cloak = "none" -> p.aud
      [] p.cloak = "responses" -> IF f.kind = "call" THEN ObserveResponses(p.aud, f.d) ELSE p.aud
      [] OTHER -> ObserveFragments(p.aud, p.cloak, out)

\* Nothing but the record changes with it.
LEMMA ObservedCalls ==
    ASSUME NEW p, IsPipe(p), NEW f, NEW out
    PROVE  LET q == Observed(p, f, out)
           IN /\ q.cloak = p.cloak /\ q.k = p.k /\ q.b = p.b /\ q.heard = p.heard /\ q.agg = p.agg
              /\ q.gate = p.gate /\ q.tail = p.tail
              /\ q.aud = Audited(p, f, out)
<1> DEFINE q == Observed(p, f, out)
           a == Audited(p, f, out)
           o == [p EXCEPT !.aud = a]
<1>1. /\ o.cloak = p.cloak /\ o.k = p.k /\ o.b = p.b /\ o.heard = p.heard /\ o.agg = p.agg
      /\ o.gate = p.gate /\ o.tail = p.tail /\ o.aud = a
  BY DEF IsPipe, PipeFields
<1>2. CASE p.cloak = "none"
  BY <1>2 DEF Observed, Audited
<1>3. CASE p.cloak = "responses" /\ f.kind = "call"
  <2>1. q = o
    BY <1>3 DEF Observed, Audited
  <2> QED
    BY <1>1, <2>1
<1>4. CASE p.cloak = "responses" /\ f.kind # "call"
  BY <1>4 DEF Observed, Audited
<1>5. CASE p.cloak \notin {"none", "responses"}
  <2>1. q = o
    BY <1>5 DEF Observed, Audited
  <2> QED
    BY <1>1, <2>1
<1> QED
  BY <1>2, <1>3, <1>4, <1>5

\* A block that is forwarded, as the calls know it.
Forwarded(p, f, out, q) ==
    /\ q.cloak = p.cloak /\ q.k = p.k /\ q.b = p.b /\ q.agg = p.agg
    /\ q.gate = p.gate /\ q.tail = p.tail
    /\ p.tool \/ out # Nothing => q.tool
    /\ q.heard = Hears(p.heard, out) /\ q.aud = Audited(p, f, out)
    /\ p.terminal => q.terminal
    /\ Final(f) => q.terminal \/ q.pending # "no"

\* What is heard and recorded is of calls.
Heeding(p) ==
    /\ p.heard \in [DOMAIN p.heard -> Heard]
    /\ p.cloak # "none" => p.aud \in [DOMAIN p.heard -> Heard]

\* A failure is held before it is told, and says nothing of calls.
LEMMA ForwardCalls ==
    ASSUME NEW p, Live(p), p.pending = "no", ~p.gone, Heeding(p), NEW f, NEW out,
           RateLimited(f) \/ ModelFault(f) => out = Nothing
    PROVE  Forwarded(p, f, out, Forward(p, f, out))
<1> DEFINE q == [p EXCEPT !.tool = @ \/ f.kind = "tool" \/ out # Nothing]
           h == [q EXCEPT !.held = f, !.pending = "hold", !.used = TRUE]
           t == [q EXCEPT !.terminal = @ \/ Final(f)]
           o == Observed(t, f, out)
           e == Heed(o, f, out)
<1>1. IsPipe(p) /\ ~p.ended
  BY DEF Live, Steady
<1>2. /\ IsPipe(q) /\ q.cloak = p.cloak /\ q.k = p.k /\ q.b = p.b /\ q.agg = p.agg
      /\ q.gate = p.gate /\ q.tail = p.tail /\ q.heard = p.heard /\ q.aud = p.aud
      /\ (q.tool <=> p.tool \/ f.kind = "tool" \/ out # Nothing)
      /\ q.terminal = p.terminal /\ q.ended = p.ended /\ q.gone = p.gone
  BY <1>1 DEF IsPipe, PipeFields
<1>3. Forward(p, f, out) =
          IF ~p.terminal /\ (RateLimited(f) \/ ModelFault(f)) /\ MayHold(q) THEN h ELSE e
  BY DEF Forward
<1> HIDE DEF q
<1>4. /\ IsPipe(h) /\ h.cloak = q.cloak /\ h.k = q.k /\ h.b = q.b /\ h.agg = q.agg
      /\ h.gate = q.gate /\ h.tail = q.tail /\ h.heard = q.heard /\ h.aud = q.aud
      /\ h.tool = q.tool /\ h.terminal = q.terminal /\ h.pending = "hold"
  BY ZenonT(40), <1>2 DEF IsPipe, PipeFields
<1>5. /\ IsPipe(t) /\ t.cloak = q.cloak /\ t.k = q.k /\ t.b = q.b /\ t.agg = q.agg
      /\ t.gate = q.gate /\ t.tail = q.tail /\ t.heard = q.heard /\ t.aud = q.aud
      /\ t.tool = q.tool /\ (t.terminal <=> q.terminal \/ Final(f)) /\ t.ended = q.ended
      /\ t.gone = q.gone
  BY ZenonT(40), <1>2 DEF IsPipe, PipeFields
<1> HIDE DEF h, t
<1>6. /\ IsPipe(o) /\ Unmoved(t, o)
      /\ o.cloak = t.cloak /\ o.k = t.k /\ o.b = t.b /\ o.heard = t.heard /\ o.agg = t.agg
      /\ o.gate = t.gate /\ o.tail = t.tail /\ o.aud = Audited(t, f, out)
  BY <1>5, ObservedFacts, ObservedCalls
<1> HIDE DEF o
<1>7. /\ IsPipe(e) /\ e.terminal = o.terminal
      /\ e.cloak = o.cloak /\ e.k = o.k /\ e.b = o.b /\ e.aud = o.aud /\ e.agg = o.agg
      /\ e.tool = o.tool /\ e.gate = o.gate /\ e.tail = o.tail
      /\ e.heard = IF Reached(o) THEN Hears(o.heard, out) ELSE o.heard
  BY <1>6, HeedFacts, HeededCalls
<1> HIDE DEF e
<1>8. CASE ~p.terminal /\ (RateLimited(f) \/ ModelFault(f)) /\ MayHold(q)
  <2>1. out = Nothing /\ ~p.tool
    BY <1>2, <1>8 DEF MayHold
  <2>2. Hears(p.heard, Nothing) = p.heard
    BY SilentFacts DEF Heeding
  <2>3. Audited(p, f, Nothing) = p.aud
    <3>1. f.kind # "call"
      BY <1>8 DEF RateLimited, ModelFault
    <3>2. p.cloak # "none" => ObserveFragments(p.aud, p.cloak, Nothing) = p.aud
      <4> SUFFICES ASSUME p.cloak # "none" PROVE ObserveFragments(p.aud, p.cloak, Nothing) = p.aud
        OBVIOUS
      <4>1. p.aud \in [DOMAIN p.aud -> Heard]
        BY DEF Heeding
      <4> QED
        BY <4>1, SilentFacts
    <3> QED
      BY <3>1, <3>2 DEF Audited
  <2> QED
    BY <1>2, <1>3, <1>4, <1>8, <2>1, <2>2, <2>3 DEF Forwarded
<1>9. CASE ~(~p.terminal /\ (RateLimited(f) \/ ModelFault(f)) /\ MayHold(q))
  <2>1. Reached(o)
    BY <1>1, <1>2, <1>5, <1>6 DEF Reached, Unmoved, Keeps
  <2>2. Audited(t, f, out) = Audited(p, f, out)
    BY <1>2, <1>5 DEF Audited
  <2>3. o.tool = t.tool /\ o.terminal = t.terminal
    BY <1>6 DEF Unmoved
  <2>4. Forward(p, f, out) = e
    BY <1>3, <1>9
  <2> QED
    BY <1>2, <1>5, <1>6, <1>7, <2>1, <2>2, <2>3, <2>4 DEF Forwarded
<1> QED
  BY <1>8, <1>9

\* The pipe after an event of a call is rewritten, before anything is sent.
LEMMA RewritingCalls ==
    ASSUME NEW p, IsPipe(p), NEW d
    PROVE  LET e == Rewriting(p, d).p
               out == Rewriting(p, d).out
           IN /\ e.cloak = p.cloak /\ e.heard = p.heard /\ e.aud = p.aud /\ e.tool = p.tool
              /\ e.gate = p.gate /\ e.tail = p.tail /\ e.terminal = p.terminal
              /\ p.cloak = "chat" =>
                    /\ e.k = Rewrite(p.k, d).k /\ e.b = p.b /\ e.agg = Aggregate(p.agg, p.k, d)
                    /\ out = Rewrite(p.k, d).out
              /\ p.cloak = "messages" =>
                    /\ e.b = RewriteMessages(p.b, d).b /\ out = RewriteMessages(p.b, d).out
                    /\ e.agg = AggregateBlock(p.agg, p.b, d)
              /\ p.cloak = "responses" =>
                    /\ e.b = RewriteResponses(p.b, d).b /\ out = RewriteResponses(p.b, d).out
                    /\ e.agg = AggregateBlock(p.agg, p.b, d)
<1> DEFINE k == Rewrite(p.k, d).k
           a == Aggregate(p.agg, p.k, d)
           b == IF p.cloak = "messages" THEN RewriteMessages(p.b, d).b ELSE RewriteResponses(p.b, d).b
           g == AggregateBlock(p.agg, p.b, d)
           m == [p EXCEPT !.k = k, !.agg = a]
           n == [p EXCEPT !.b = b, !.agg = g]
<1>1. /\ m.cloak = p.cloak /\ m.heard = p.heard /\ m.aud = p.aud /\ m.tool = p.tool
      /\ m.gate = p.gate /\ m.tail = p.tail /\ m.terminal = p.terminal
      /\ m.k = k /\ m.b = p.b /\ m.agg = a
  <2> HIDE DEF k, a
  <2> QED
    BY DEF IsPipe, PipeFields
<1>2. /\ n.cloak = p.cloak /\ n.heard = p.heard /\ n.aud = p.aud /\ n.tool = p.tool
      /\ n.gate = p.gate /\ n.tail = p.tail /\ n.terminal = p.terminal
      /\ n.b = b /\ n.agg = g
  <2> HIDE DEF b, g
  <2> QED
    BY DEF IsPipe, PipeFields
<1>3. p.cloak = "chat" => Rewriting(p, d) = [p |-> m, out |-> Rewrite(p.k, d).out]
  BY DEF Rewriting
<1>4. p.cloak # "chat" =>
         Rewriting(p, d) = [p |-> n, out |-> IF p.cloak = "messages" THEN RewriteMessages(p.b, d).out
                                             ELSE RewriteResponses(p.b, d).out]
  <2>1. Rewriting(p, d) =
           LET other == IF p.cloak = "messages" THEN RewriteMessages(p.b, d) ELSE RewriteResponses(p.b, d)
           IN IF p.cloak = "chat" THEN [p |-> m, out |-> Rewrite(p.k, d).out]
              ELSE [p |-> [p EXCEPT !.b = other.b, !.agg = g], out |-> other.out]
    BY DEF Rewriting
  <2> HIDE DEF m, g
  <2> QED
    BY <2>1
<1> HIDE DEF m, n
<1>5. CASE p.cloak = "chat"
  BY <1>1, <1>3, <1>5
<1>6. CASE p.cloak # "chat"
  BY <1>2, <1>4, <1>6
<1> QED
  BY <1>5, <1>6

\* An event of a call that is forwarded, or not if nothing is left of it.
LEMMA CallFollows ==
    ASSUME NEW p, Live(p), p.pending = "no", ~p.gone, Data(p), p.cloak # "none",
           NEW f, f.kind = "call"
    PROVE  LET e == Rewriting(p, f.d).p
               out == Rewriting(p, f.d).out
               q == Block(p, f)
           IN /\ q.k = e.k /\ q.b = e.b /\ q.agg = e.agg /\ q.gate = p.gate /\ q.tail = p.tail
              /\ p.terminal => q.terminal
              /\ Follows(p, q, out, IF p.cloak = "responses" THEN Recorded(p.aud, f.d, out)
                                    ELSE ObserveFragments(p.aud, p.cloak, out))
<1> DEFINE e == Rewriting(p, f.d).p
           out == Rewriting(p, f.d).out
           q == Block(p, f)
           w == Forward(e, f, out)
<1>1. IsPipe(p)
  BY DEF Live, Steady
<1>2. q = IF out = Nothing THEN e ELSE w
  <2>1. f.kind # "none" /\ ~Closing(p, f) /\ f.kind # "done"
    BY DEF Closing
  <2> QED
    BY <2>1 DEF Block
<1>3. /\ e.cloak = p.cloak /\ e.heard = p.heard /\ e.aud = p.aud /\ e.tool = p.tool
      /\ e.gate = p.gate /\ e.tail = p.tail /\ e.terminal = p.terminal
  BY <1>1, RewritingCalls
<1>4. Live(e) /\ e.pending = "no" /\ ~e.gone
  BY <1>1, RewritingFacts, UnmovedLive DEF Unmoved, Keeps
<1> HIDE DEF e, out
<1>5. Heeding(p) /\ p.aud \in [DOMAIN p.aud -> Heard] /\ p.heard \in [DOMAIN p.heard -> Heard]
  BY DEF Heeding, Data, Tracks
<1>6. Heeding(e)
  BY <1>3, <1>5 DEF Heeding
<1>7. ~RateLimited(f) /\ ~ModelFault(f)
  BY DEF RateLimited, ModelFault
<1>8. Forwarded(e, f, out, w)
  BY <1>4, <1>6, <1>7, ForwardCalls
<1> HIDE DEF w
<1>9. CASE out = Nothing
  <2>1. Hears(p.heard, out) = p.heard /\ ObserveFragments(p.aud, p.cloak, out) = p.aud
    BY <1>5, <1>9, SilentFacts
  <2> QED
    BY <1>2, <1>3, <1>9, <2>1 DEF Follows, Recorded, e, out, q
<1>10. CASE out # Nothing
  <2>1. Audited(e, f, out) = IF p.cloak = "responses" THEN Recorded(p.aud, f.d, out)
                             ELSE ObserveFragments(p.aud, p.cloak, out)
    BY <1>3, <1>10 DEF Audited, Recorded
  <2> QED
    BY <1>2, <1>3, <1>8, <1>10, <2>1 DEF Follows, Forwarded, e, out, q
<1> QED
  BY <1>9, <1>10

\* The calls stay in step with an event of one.
LEMMA CallBlock ==
    ASSUME NEW p, Live(p), p.pending = "no", ~p.gone, Data(p), p.cloak # "none",
           ~(p.cloak = "responses" /\ p.agg.whole), NEW f, f.kind = "call", Fits(p, f.d)
    PROVE  /\ Data(Block(p, f)) /\ ~(p.cloak = "responses" /\ Block(p, f).agg.whole)
           /\ Block(p, f).cloak = p.cloak /\ Block(p, f).gate = p.gate
           /\ Block(p, f).tail = p.tail
<1> DEFINE e == Rewriting(p, f.d).p
           out == Rewriting(p, f.d).out
           q == Block(p, f)
           aud == IF p.cloak = "responses" THEN Recorded(p.aud, f.d, out)
                  ELSE ObserveFragments(p.aud, p.cloak, out)
<1>1. IsPipe(p) /\ p.cloak \in {"chat", "messages", "responses"}
  BY DEF Live, Steady, Data, Tracks, Cloaks
<1>2. /\ q.k = e.k /\ q.b = e.b /\ q.agg = e.agg /\ q.gate = p.gate /\ q.tail = p.tail
      /\ Follows(p, q, out, aud)
  BY CallFollows
<1>3. /\ p.cloak = "chat" =>
            /\ e.k = Rewrite(p.k, f.d).k /\ e.b = p.b /\ e.agg = Aggregate(p.agg, p.k, f.d)
            /\ out = Rewrite(p.k, f.d).out
      /\ p.cloak = "messages" =>
            /\ e.b = RewriteMessages(p.b, f.d).b /\ out = RewriteMessages(p.b, f.d).out
            /\ e.agg = AggregateBlock(p.agg, p.b, f.d)
      /\ p.cloak = "responses" =>
            /\ e.b = RewriteResponses(p.b, f.d).b /\ out = RewriteResponses(p.b, f.d).out
            /\ e.agg = AggregateBlock(p.agg, p.b, f.d)
  BY <1>1, RewritingCalls
<1> HIDE DEF e, q, out
<1>4. q.cloak = p.cloak
  BY <1>2 DEF Follows
<1>5. CASE p.cloak = "chat"
  <2>1. /\ Follows(p, q, Rewrite(p.k, f.d).out, ObserveFragments(p.aud, "chat", Rewrite(p.k, f.d).out))
        /\ q.k = Rewrite(p.k, f.d).k /\ q.b = p.b /\ q.agg = Aggregate(p.agg, p.k, f.d)
    BY <1>2, <1>3, <1>5
  <2>2. Data(q)
    BY <1>5, <2>1, ChatData
  <2> QED
    BY <1>2, <1>4, <1>5, <2>2 DEF q
<1>6. CASE p.cloak = "messages"
  <2>1. /\ Follows(p, q, RewriteMessages(p.b, f.d).out,
                   ObserveFragments(p.aud, "messages", RewriteMessages(p.b, f.d).out))
        /\ q.b = RewriteMessages(p.b, f.d).b /\ q.agg = AggregateBlock(p.agg, p.b, f.d)
    BY <1>2, <1>3, <1>6
  <2>2. Data(q)
    BY <1>6, <2>1, MessagesData
  <2> QED
    BY <1>2, <1>4, <1>6, <2>2 DEF q
<1>7. CASE p.cloak = "responses"
  <2>1. /\ Follows(p, q, RewriteResponses(p.b, f.d).out,
                   Recorded(p.aud, f.d, RewriteResponses(p.b, f.d).out))
        /\ q.b = RewriteResponses(p.b, f.d).b /\ q.agg = AggregateBlock(p.agg, p.b, f.d)
    BY <1>2, <1>3, <1>7
  <2>2. ~p.agg.whole
    BY <1>7
  <2>3. Data(q) /\ ~q.agg.whole
    BY <1>7, <2>1, <2>2, ResponsesData
  <2> QED
    BY <1>2, <1>4, <1>7, <2>3 DEF q
<1> QED
  BY <1>1, <1>5, <1>6, <1>7

\* The pipe after a release, before anything is sent.
LEMMA ReleasingCalls ==
    ASSUME NEW p, IsPipe(p)
    PROVE  LET l == Releasing(p).p
               out == Releasing(p).out
           IN /\ l.cloak = p.cloak /\ l.heard = p.heard /\ l.aud = p.aud /\ l.tool = p.tool
              /\ l.gate = p.gate /\ l.tail = p.tail /\ l.terminal = p.terminal /\ l.agg = p.agg
              /\ p.cloak = "chat" => l.k = Released(p.k).k /\ l.b = p.b /\ out = Releases(p.k)
              /\ p.cloak = "messages" => l.b = HeldReleased(p.b).b /\ out = HeldReleased(p.b).out
              /\ p.cloak \notin {"chat", "messages"} => l = p /\ out = Nothing
<1> DEFINE k == Released(p.k).k
           b == HeldReleased(p.b).b
           m == [p EXCEPT !.k = k]
           n == [p EXCEPT !.b = b]
<1>1. /\ m.cloak = p.cloak /\ m.heard = p.heard /\ m.aud = p.aud /\ m.tool = p.tool
      /\ m.gate = p.gate /\ m.tail = p.tail /\ m.terminal = p.terminal
      /\ m.k = k /\ m.b = p.b /\ m.agg = p.agg
      /\ n.cloak = p.cloak /\ n.heard = p.heard /\ n.aud = p.aud /\ n.tool = p.tool
      /\ n.gate = p.gate /\ n.tail = p.tail /\ n.terminal = p.terminal
      /\ n.b = b /\ n.agg = p.agg
  <2> HIDE DEF k, b
  <2> QED
    BY DEF IsPipe, PipeFields
<1>2. Released(p.k).out = Releases(p.k)
  BY DEF Released
<1>3. CASE p.cloak = "chat"
  <2>1. Releasing(p) = [p |-> m, out |-> Released(p.k).out]
    BY <1>3 DEF Releasing
  <2> HIDE DEF m
  <2> QED
    BY <1>1, <1>2, <1>3, <2>1
<1>4. CASE p.cloak = "messages"
  <2>1. Releasing(p) = [p |-> n, out |-> HeldReleased(p.b).out]
    BY <1>4 DEF Releasing
  <2> HIDE DEF n
  <2> QED
    BY <1>1, <1>4, <2>1
<1>5. CASE p.cloak \notin {"chat", "messages"}
  <2>1. Releasing(p) = [p |-> p, out |-> Nothing]
    BY <1>5 DEF Releasing
  <2> QED
    BY <1>5, <2>1
<1> QED
  BY <1>3, <1>4, <1>5

\* Of calls that the host has not heard of nothing is kept back.
LEMMA NothingKept ==
    ASSUME NEW p, Data(p), DOMAIN p.heard = {}
    PROVE  Drained(p)
<1>1. p.cloak = "chat" => Withheld(p.k) = {}
  BY DEF Data, Tracks, CloakHeard, Blank, Withheld
<1>2. p.cloak = "messages" => DOMAIN p.b.held = {}
  BY DEF Data, Tracks
<1> QED
  BY <1>1, <1>2 DEF Drained

\* A release says something if anything is kept back.
LEMMA DrainedReleasing ==
    ASSUME NEW p, IsPipe(p), Data(p)
    PROVE  Releasing(p).out = Nothing <=> Drained(p)
<1>1. CASE p.cloak = "chat"
  BY <1>1, ReleasingCalls, ReleasesFacts DEF Data, Tracks, Drained
<1>2. CASE p.cloak = "messages"
  BY <1>2, ReleasingCalls, HeldReleasedFacts DEF Data, Tracks, Drained
<1>3. CASE p.cloak \notin {"chat", "messages"}
  BY <1>3, ReleasingCalls DEF Drained
<1> QED
  BY <1>1, <1>2, <1>3

\* A block without calls tells the host nothing of them.
LEMMA ForwardedAlike ==
    ASSUME NEW p, Heeding(p), NEW f, f.kind # "call", NEW q, Forwarded(p, f, Nothing, q)
    PROVE  Alike(p, q)
<1>1. Hears(p.heard, Nothing) = p.heard
  BY SilentFacts DEF Heeding
<1>2. Audited(p, f, Nothing) = p.aud
  <2>1. p.cloak # "none" => p.aud \in [DOMAIN p.aud -> Heard]
    BY DEF Heeding
  <2>2. p.cloak # "none" => ObserveFragments(p.aud, p.cloak, Nothing) = p.aud
    BY <2>1, SilentFacts
  <2> QED
    BY <2>2 DEF Audited
<1> QED
  BY <1>1, <1>2 DEF Forwarded, Alike

\* A block before which everything is released.
LEMMA ReleaseBlock ==
    ASSUME NEW p, Live(p), ~p.gone, Data(p), NEW f, f.kind # "call",
           ~RateLimited(f), ~ModelFault(f)
    PROVE  LET q == Forward(Releasing(p).p, f, Releasing(p).out)
           IN /\ Data(q) /\ Drained(q)
              /\ q.cloak = p.cloak /\ q.gate = p.gate /\ q.tail = p.tail /\ q.agg = p.agg
              /\ p.terminal => q.terminal
<1> DEFINE l == Releasing(p).p
           out == Releasing(p).out
           q == Forward(l, f, out)
<1>1. IsPipe(p) /\ Heeding(p)
  BY DEF Live, Steady, Data, Tracks, Heeding
<1>2. /\ l.cloak = p.cloak /\ l.heard = p.heard /\ l.aud = p.aud /\ l.tool = p.tool
      /\ l.gate = p.gate /\ l.tail = p.tail /\ l.terminal = p.terminal /\ l.agg = p.agg
      /\ p.cloak = "chat" => l.k = Released(p.k).k /\ l.b = p.b /\ out = Releases(p.k)
      /\ p.cloak = "messages" => l.b = HeldReleased(p.b).b /\ out = HeldReleased(p.b).out
      /\ p.cloak \notin {"chat", "messages"} => l = p /\ out = Nothing
  BY <1>1, ReleasingCalls
<1>3. Live(l) /\ l.pending = p.pending /\ ~l.gone
  BY <1>1, ReleasingFacts, UnmovedLive DEF Unmoved, Keeps
<1>4. Heeding(l)
  BY <1>1, <1>2 DEF Heeding
<1>5. out = Nothing <=> Drained(p)
  BY <1>1, DrainedReleasing
<1> HIDE DEF l, out
<1>6. /\ q.cloak = l.cloak /\ q.k = l.k /\ q.b = l.b /\ q.agg = l.agg /\ q.gate = l.gate
      /\ q.tail = l.tail /\ (l.terminal => q.terminal)
      /\ p.cloak \in {"chat", "messages"} => Follows(p, q, out, ObserveFragments(p.aud, p.cloak, out))
      /\ p.cloak \notin {"chat", "messages"} => Alike(p, q)
  <2>1. CASE p.pending = "no"
    <3>1. Forwarded(l, f, out, q)
      BY <1>3, <1>4, <2>1, ForwardCalls
    <3>2. p.cloak \notin {"chat", "messages"} => Alike(p, q)
      BY <1>1, <1>2, <3>1, ForwardedAlike
    <3>3. p.cloak \in {"chat", "messages"} => Audited(l, f, out) = ObserveFragments(p.aud, p.cloak, out)
      BY <1>2 DEF Audited
    <3> HIDE DEF q
    <3> QED
      BY <1>2, <3>1, <3>2, <3>3 DEF Forwarded, Follows
  <2>2. CASE p.pending # "no"
    <3>1. q = l
      BY <1>3, <2>2 DEF Forward
    <3>2. ~p.tool
      BY <2>2 DEF Live, Steady
    <3>3. out = Nothing
      BY <1>5, <3>2, NothingKept DEF Data, Tracks
    <3>4. Hears(p.heard, out) = p.heard
      BY <1>1, <3>3, SilentFacts DEF Heeding
    <3>5. p.cloak # "none" => ObserveFragments(p.aud, p.cloak, out) = p.aud
      <4>1. p.cloak # "none" => p.aud \in [DOMAIN p.aud -> Heard]
        BY <1>1 DEF Heeding
      <4> QED
        BY <3>3, <4>1, SilentFacts
    <3>6. p.cloak \notin {"chat", "messages"} => Alike(p, q)
      BY <1>2, <3>1 DEF Alike
    <3> HIDE DEF q
    <3> QED
      BY <1>2, <3>1, <3>2, <3>3, <3>4, <3>5, <3>6 DEF Follows
  <2> QED
    BY <2>1, <2>2
<1> HIDE DEF q
<1>7. Data(q) /\ Drained(q)
  <2>1. CASE p.cloak = "chat"
    <3>1. /\ Follows(p, q, Releases(p.k), ObserveFragments(p.aud, "chat", Releases(p.k)))
          /\ q.k = Released(p.k).k /\ q.b = p.b /\ q.agg = p.agg
      BY <1>2, <1>6, <2>1
    <3> QED
      BY <2>1, <3>1, ReleasedData
  <2>2. CASE p.cloak = "messages"
    <3>1. /\ Follows(p, q, HeldReleased(p.b).out,
                     ObserveFragments(p.aud, "messages", HeldReleased(p.b).out))
          /\ q.b = HeldReleased(p.b).b /\ q.agg = p.agg
      BY <1>2, <1>6, <2>2
    <3> QED
      BY <2>2, <3>1, HeldData
  <2>3. CASE p.cloak \notin {"chat", "messages"}
    <3>1. Alike(p, q)
      BY <1>6, <2>3
    <3> QED
      BY <2>3, <3>1, AlikeData DEF Drained, Alike
  <2> QED
    BY <2>1, <2>2, <2>3
<1> QED
  BY <1>2, <1>6, <1>7 DEF q, l, out

\* Any other block.
LEMMA OtherBlock ==
    ASSUME NEW p, Live(p), ~p.gone, Data(p), WholeLast(p), NEW f, f.kind # "call"
    PROVE  /\ Data(Block(p, f)) /\ WholeLast(Block(p, f))
           /\ Block(p, f).cloak = p.cloak /\ Block(p, f).gate = p.gate
           /\ Block(p, f).tail = p.tail
<1> DEFINE q == Block(p, f)
           l == Forward(Releasing(p).p, f, Releasing(p).out)
           c == [p EXCEPT !.agg = Completed(@)]
<1>1. IsPipe(p) /\ Heeding(p) /\ ~p.ended
  BY DEF Live, Steady, Data, Tracks, Heeding
<1>2. \/ f.kind = "none" /\ q = p
      \/ Closing(p, f) /\ q = l
      \/ f.kind = "done" /\ p.cloak = "responses" /\ q = Forward(c, f, Nothing)
      \/ q = Forward(p, f, Nothing)
  BY DEF Block, Closing
<1>3. CASE Closing(p, f) /\ q = l
  <2>1. ~RateLimited(f) /\ ~ModelFault(f)
    BY <1>3 DEF Closing, RateLimited, ModelFault
  <2>2. /\ Data(l) /\ l.cloak = p.cloak /\ l.gate = p.gate /\ l.tail = p.tail /\ l.agg = p.agg
        /\ p.terminal => l.terminal
    BY <2>1, ReleaseBlock
  <2>3. p.pending # "no" => l.pending # "no"
    <3>1. Live(Releasing(p).p) /\ Releasing(p).p.pending = p.pending
      BY <1>1, ReleasingFacts, UnmovedLive DEF Unmoved
    <3> QED
      BY <3>1, <2>1, ForwardFacts
  <2> HIDE DEF l, q
  <2>4. WholeLast(l)
    BY <1>1, <2>2, <2>3 DEF WholeLast
  <2> QED
    BY <1>3, <2>2, <2>4 DEF q
<1>4. CASE f.kind = "done" /\ p.cloak = "responses" /\ q = Forward(c, f, Nothing)
  <2>1. /\ IsPipe(c) /\ Unmoved(p, c) /\ c.cloak = p.cloak /\ c.k = p.k /\ c.b = p.b
        /\ c.heard = p.heard /\ c.aud = p.aud /\ c.tool = p.tool /\ c.agg = Completed(p.agg)
        /\ c.gate = p.gate /\ c.tail = p.tail
    BY ZenonT(40), <1>1 DEF IsPipe, PipeFields, Unmoved, Keeps
  <2> HIDE DEF c
  <2>2. Live(c) /\ ~c.gone /\ c.pending = p.pending /\ Heeding(c)
    BY <1>1, <2>1, UnmovedLive DEF Unmoved, Keeps, Heeding
  <2>3. CASE p.pending = "no"
    <3>1. ~RateLimited(f) /\ ~ModelFault(f) /\ Final(f)
      BY <1>4 DEF RateLimited, ModelFault, Final
    <3>2. Forwarded(c, f, Nothing, q)
      BY <1>4, <2>2, <2>3, ForwardCalls
    <3> HIDE DEF q
    <3>3. Alike(c, q)
      BY <2>2, <3>2, ForwardedAlike
    <3>4. Data(q)
      BY <2>1, <3>3, CompletedData DEF Alike
    <3> QED
      BY <2>1, <3>1, <3>2, <3>4 DEF Forwarded, WholeLast, q
  <2>4. CASE p.pending # "no"
    <3>1. q = c
      BY <1>4, <2>2, <2>4 DEF Forward
    <3> HIDE DEF q
    <3>2. Data(q)
      BY <2>1, <3>1, CompletedData
    <3> QED
      BY <2>1, <2>2, <2>4, <3>1, <3>2 DEF WholeLast, q
  <2> QED
    BY <2>3, <2>4
<1>5. CASE q = p \/ q = Forward(p, f, Nothing)
  <2>1. Moves(p, q) /\ (p.terminal => q.terminal) /\ (p.pending # "no" => q.pending # "no")
    <3>1. CASE q = p
      BY <3>1 DEF Moves, Alike
    <3>2. CASE q = Forward(p, f, Nothing) /\ p.pending # "no"
      BY <3>2 DEF Moves, Alike, Forward
    <3>3. CASE q = Forward(p, f, Nothing) /\ p.pending = "no"
      <4>1. Forwarded(p, f, Nothing, q)
        BY <1>1, <3>3, ForwardCalls
      <4> HIDE DEF q
      <4>2. Alike(p, q)
        BY <1>1, <4>1, ForwardedAlike
      <4> QED
        BY <3>3, <4>1, <4>2 DEF Forwarded, Moves
    <3> QED
      BY <1>5, <3>1, <3>2, <3>3
  <2> HIDE DEF q
  <2>2. Data(q)
    BY <2>1, AlikeData DEF Moves
  <2> QED
    BY <1>1, <2>1, <2>2 DEF Moves, Alike, WholeLast, q
<1> QED
  BY <1>2, <1>3, <1>4, <1>5

\* A call comes before the terminal event and after no failure, and is one that may come.
LEMMA FramesFit ==
    ASSUME NEW p, Tracks(p), p.chunks \in Nat, NEW before, NEW f \in Frames(p, before), f.kind = "call"
    PROVE  p.cloak # "none" /\ Fits(p, f.d) /\ ~RateLimited(before) /\ ~ModelFault(before)
<1>1. p.cloak # "none" /\ ~CallsOver(p, before) /\ \E d \in Calls(p) : f = CallFrame(d)
  <2>1. \A kind : Plain(kind).kind = kind
    BY DEF Plain
  <2> QED
    BY <2>1 DEF Frames
<1>2. PICK d \in Calls(p) : f = CallFrame(d)
  BY <1>1
<1>3. f.d = d
  BY <1>2 DEF CallFrame
<1>4. <<p.chunks>> \in Seq(Nat) /\ Silent \in Seq(Nat) /\ Unnamed \in Seq(Pieces)
  BY DEF Silent, Unnamed
<1>5. CASE p.cloak = "chat"
  <2>1. PICK e \in Deltas : d = Numbered(p, e)
    BY <1>2, <1>5 DEF Calls
  <2>2. e \in [idx : Nat, id : CallIds \cup {NoId}, name : Seq(Pieces), args : Seq(Nat)]
    BY PipeAssumption, CloakAssumption
  <2>3. d \in [idx : Nat, id : CallIds \cup {NoId}, name : Seq(Pieces), args : Seq(Nat)]
    BY <1>4, <2>1, <2>2 DEF Numbered
  <2>4. \A c \in DOMAIN p.k.calls : ~p.k.calls[c].flushed
    BY <1>1 DEF CallsOver
  <2> QED
    BY <1>1, <1>3, <1>5, <2>3, <2>4 DEF Fits, CallsOver
<1>6. CASE p.cloak # "chat"
  <2>1. Announcement(p.agg) /\ ~p.terminal
    BY <1>1, <1>6 DEF Tracks, Cloaks, CallsOver
  <2>2. d \in Announced(p)
    BY <1>2, <1>6 DEF Calls
  <2> DEFINE next == Cardinality(DOMAIN p.agg.calls)
             said(i) == IF p.cloak = "responses" THEN p.agg.calls[i]
                        ELSE [name |-> Unnamed, args |-> Silent]
  <2>3. \/ \E i \in {next} \cap Indices, name \in Injected \cup Repairable \cup {Ordinary} :
              d = Part("start", i, name, Silent)
        \/ \E i \in p.agg.open : d = Part("more", i, Unnamed, <<p.chunks>>)
        \/ \E i \in p.agg.open : d = Part("stop", i, said(i).name, said(i).args)
    BY <2>2 DEF Announced
  <2>4. \A i \in p.agg.open : p.agg.calls[i] \in Heard
    BY <2>1 DEF Announcement
  <2>5. \A i \in p.agg.open : said(i).name \in Seq(Pieces) /\ said(i).args \in Seq(Nat)
    BY <1>4, <2>4 DEF Heard
  <2>6. Announces(p.cloak, p.agg, d)
    <3>1. CASE \E i \in {next} \cap Indices, name \in Injected \cup Repairable \cup {Ordinary} :
                  d = Part("start", i, name, Silent)
      <4>1. PICK i \in {next} \cap Indices, name \in Injected \cup Repairable \cup {Ordinary} :
               d = Part("start", i, name, Silent)
        BY <3>1
      <4>2. name \in Seq(Pieces) /\ name # Unnamed
        BY OrdinaryFacts, CloakAssumption DEF Unnamed
      <4>3. d.part = "start" /\ d.idx = next /\ d.name = name /\ d.args = Silent
        BY <4>1 DEF Part
      <4> QED
        BY <1>4, <4>2, <4>3 DEF Announces
    <3>2. CASE \E i \in p.agg.open : d = Part("more", i, Unnamed, <<p.chunks>>)
      <4>1. PICK i \in p.agg.open : d = Part("more", i, Unnamed, <<p.chunks>>)
        BY <3>2
      <4>2. d.part = "more" /\ d.idx = i /\ d.name = Unnamed /\ d.args = <<p.chunks>>
        BY <4>1 DEF Part
      <4> QED
        BY <1>4, <4>2 DEF Announces
    <3>3. CASE \E i \in p.agg.open : d = Part("stop", i, said(i).name, said(i).args)
      <4>1. PICK i \in p.agg.open : d = Part("stop", i, said(i).name, said(i).args)
        BY <3>3
      <4>2. d.part = "stop" /\ d.idx = i /\ d.name = said(i).name /\ d.args = said(i).args
        BY <4>1 DEF Part
      <4>3. p.cloak = "responses" => d.name = p.agg.calls[i].name /\ d.args = p.agg.calls[i].args
        BY <4>2
      <4>4. d.name \in Seq(Pieces) /\ d.args \in Seq(Nat)
        BY <2>5, <4>2
      <4> QED
        BY <4>2, <4>3, <4>4 DEF Announces
    <3> QED
      BY <2>3, <3>1, <3>2, <3>3
  <2> QED
    BY <1>1, <1>3, <1>6, <2>1, <2>6 DEF Fits, CallsOver
<1> QED
  BY <1>5, <1>6

\* Only a failure is held.
LEMMA BlockPending ==
    ASSUME NEW p, Live(p), NEW f, ~RateLimited(f), ~ModelFault(f)
    PROVE  Block(p, f).pending = p.pending
<1> DEFINE e == Rewriting(p, f.d).p
           l == Releasing(p).p
           c == [p EXCEPT !.agg = Completed(@)]
<1>1. IsPipe(p)
  BY DEF Live, Steady
<1>2. Live(e) /\ e.pending = p.pending
  BY <1>1, RewritingFacts, UnmovedLive DEF Unmoved
<1>3. Live(l) /\ l.pending = p.pending
  BY <1>1, ReleasingFacts, UnmovedLive DEF Unmoved
<1>4. Live(c) /\ c.pending = p.pending
  <2>1. IsPipe(c) /\ Unmoved(p, c)
    BY <1>1 DEF IsPipe, PipeFields, Keeps, Unmoved
  <2> HIDE DEF c
  <2> QED
    BY <2>1, UnmovedLive DEF Unmoved
<1>5. \/ Block(p, f) \in {p, e}
      \/ \E out : Block(p, f) \in {Forward(e, f, out), Forward(l, f, out), Forward(c, f, out),
                                    Forward(p, f, out)}
  BY DEF Block
<1> HIDE DEF e, l, c
<1> QED
  BY <1>2, <1>3, <1>4, <1>5, ForwardFacts

\* Of an event stream with calls only is there a block that begins one.
TailAt(p) == p.tail.kind = "call" => p.gate = "sse" /\ p.cloak # "none"

\* The calls of a pipe that is being forwarded, or is about to end.
Going(p) == Data(p) /\ WholeLast(p) /\ TailAt(p)

\* A complete block.
LEMMA BlockCalls ==
    ASSUME NEW p, Live(p), ~p.gone, Going(p), NEW f,
           f.kind = "call" => p.pending = "no" /\ p.cloak # "none" /\ Fits(p, f.d)
    PROVE  /\ Going(Block(p, f)) /\ Block(p, f).cloak = p.cloak /\ Block(p, f).gate = p.gate
           /\ Block(p, f).tail = p.tail
<1> DEFINE q == Block(p, f)
<1>1. CASE f.kind = "call"
  <2>1. p.cloak # "chat" => ~p.terminal
    BY <1>1 DEF Fits
  <2>2. ~(p.cloak = "responses" /\ p.agg.whole)
    BY <1>1, <2>1 DEF Going, WholeLast, Live
  <2>3. /\ Data(q) /\ ~(p.cloak = "responses" /\ q.agg.whole)
        /\ q.cloak = p.cloak /\ q.gate = p.gate /\ q.tail = p.tail
    BY <1>1, <2>2, CallBlock DEF Going
  <2> HIDE DEF q
  <2>4. WholeLast(q)
    BY <2>3 DEF WholeLast
  <2> QED
    BY <2>3, <2>4 DEF Going, TailAt, q
<1>2. CASE f.kind # "call"
  <2>1. /\ Data(q) /\ WholeLast(q) /\ q.cloak = p.cloak /\ q.gate = p.gate /\ q.tail = p.tail
    BY <1>2, OtherBlock DEF Going
  <2> HIDE DEF q
  <2> QED
    BY <2>1 DEF Going, TailAt, q
<1> QED
  BY <1>1, <1>2

\* What a stream would never release is released at its end.
LEMMA FlushCalls ==
    ASSUME NEW p, Live(p), ~p.gone, Going(p)
    PROVE  /\ Going(FlushArgs(p)) /\ Drained(FlushArgs(p))
           /\ FlushArgs(p).cloak = p.cloak /\ FlushArgs(p).gate = p.gate
<1> DEFINE q == FlushArgs(p)
           l == Forward(Releasing(p).p, Plain("text"), Releasing(p).out)
<1>1. IsPipe(p) /\ ~p.ended /\ Data(p)
  BY DEF Live, Steady, Going
<1>2. q = IF Releasing(p).out # Nothing THEN l ELSE p
  BY DEF FlushArgs
<1>3. CASE Releasing(p).out = Nothing
  BY <1>1, <1>2, <1>3, DrainedReleasing
<1>4. CASE Releasing(p).out # Nothing
  <2>1. Plain("text").kind = "text" /\ ~RateLimited(Plain("text")) /\ ~ModelFault(Plain("text"))
    BY DEF Plain, RateLimited, ModelFault
  <2>2. /\ Data(l) /\ Drained(l) /\ l.cloak = p.cloak /\ l.gate = p.gate /\ l.tail = p.tail
        /\ l.agg = p.agg
        /\ p.terminal => l.terminal
    BY <1>1, <2>1, ReleaseBlock
  <2>3. q.pending = p.pending
    BY FlushFacts
  <2>4. q = l
    BY <1>2, <1>4
  <2> HIDE DEF l, q
  <2>5. WholeLast(q)
    BY <1>1, <2>2, <2>3, <2>4 DEF Going, WholeLast
  <2> QED
    BY <2>2, <2>4, <2>5 DEF Going, TailAt, q
<1> QED
  BY <1>3, <1>4

-----------------------------------------------------------------------------
(* The calls of a pipe: ends and replacements                              *)

\* The calls of a response that ends with nothing kept back, or is to be replaced.
LEMMA EndCalls ==
    ASSUME NEW p, Going(p), NEW q, Moves(p, q), q.ended \/ q.pending # "no",
           q.ended /\ q.gate = "sse" => Drained(p)
    PROVE  Followed(q)
<1>1. Data(q)
  BY AlikeData DEF Going, Moves
<1>2. Tailed(q) /\ WholeLast(q)
  BY DEF Tailed, WholeLast, Going, TailAt, Moves, Alike
<1>3. q.ended /\ q.gate = "sse" => Drained(q)
  BY DEF Drained, Moves, Alike
<1> QED
  BY <1>1, <1>2, <1>3 DEF Followed

\* A pipe that is followed goes on.
LEMMA FollowedGoing ==
    ASSUME NEW p, Followed(p)
    PROVE  Going(p) /\ Heeding(p)
BY DEF Followed, Going, TailAt, Tailed, Data, Tracks, Heeding

\* Nothing of that is about calls.
LEMMA QuietMoves ==
    ASSUME NEW p, IsPipe(p), NEW x
    PROVE  /\ Moves(p, Record(p, x)) /\ Moves(p, Marked(p)) /\ Moves(p, Ended(p))
           /\ Moves(p, Closed(p)) /\ Moves(p, Refiring(p, x)) /\ Refiring(p, x).pending = x
           /\ Refiring(p, x).ended = p.ended
<1>1. Moves(p, Record(p, x)) /\ Moves(p, Marked(p))
  BY ZenonT(40) DEF IsPipe, PipeFields, Record, Marked, Moves, Alike
<1>2. Moves(p, Ended(p)) /\ Moves(p, Closed(p))
  BY ZenonT(40) DEF IsPipe, PipeFields, Ended, Closed, Moves, Alike
<1>3. /\ Moves(p, Refiring(p, x)) /\ Refiring(p, x).pending = x
      /\ Refiring(p, x).ended = p.ended
  BY ZenonT(40) DEF IsPipe, PipeFields, Refiring, Moves, Alike
<1> QED
  BY <1>1, <1>2, <1>3

\* Nor are these fields.
LEMMA FieldMoves ==
    ASSUME NEW p, IsPipe(p), NEW x
    PROVE  /\ Moves(p, [p EXCEPT !.stall = x]) /\ Moves(p, [p EXCEPT !.paused = x])
           /\ Moves(p, [p EXCEPT !.terminal = x]) /\ Moves(p, [p EXCEPT !.held = x])
           /\ Moves(p, [p EXCEPT !.pending = x]) /\ Moves(p, [p EXCEPT !.chunks = x])
<1>1. /\ Moves(p, [p EXCEPT !.stall = x]) /\ Moves(p, [p EXCEPT !.paused = x])
      /\ Moves(p, [p EXCEPT !.terminal = x])
  BY ZenonT(40) DEF IsPipe, PipeFields, Moves, Alike
<1>2. /\ Moves(p, [p EXCEPT !.held = x])
      /\ Moves(p, [p EXCEPT !.pending = x]) /\ Moves(p, [p EXCEPT !.chunks = x])
  BY ZenonT(40) DEF IsPipe, PipeFields, Moves, Alike
<1> QED
  BY <1>1, <1>2

\* Nor is a terminal event of the proxy's own, or one that was held.
LEMMA SilentMoves ==
    ASSUME NEW p, IsPipe(p), p.heard \in [DOMAIN p.heard -> Heard], NEW f
    PROVE  Moves(p, Heed(p, f, Nothing))
<1>1. Hears(p.heard, Nothing) = p.heard
  BY SilentFacts
<1> QED
  BY <1>1, HeededCalls DEF Moves, Alike

\* ensureTerminalEvent.
LEMMA EnsureMoves ==
    ASSUME NEW p, IsPipe(p), p.heard \in [DOMAIN p.heard -> Heard], NEW penalize
    PROVE  Moves(p, Ensure(p, penalize)) /\ IsPipe(Ensure(p, penalize))
<1> DEFINE r == IF p.aborted THEN p ELSE Record(p, "failed")
           b == IF penalize THEN Marked(r) ELSE r
           t == [b EXCEPT !.terminal = TRUE]
           e == Heed(t, Plain("done"), Nothing)
<1>1. Moves(p, p)
  BY DEF Moves, Alike
<1>2. IsPipe(r) /\ Moves(p, r)
  BY <1>1, RecordFacts, QuietMoves
<1>3. Ensure(p, penalize) = IF p.terminal \/ p.ended THEN p ELSE IF p.chunks > 0 THEN e ELSE b
  BY DEF Ensure
<1> HIDE DEF r
<1>4. IsPipe(b) /\ Moves(p, b)
  <2>1. IsPipe(Marked(r)) /\ Moves(r, Marked(r))
    BY <1>2, RecordFacts, QuietMoves
  <2>2. Moves(p, Marked(r))
    BY <1>2, <2>1, MovesTransitive
  <2> QED
    BY <1>2, <2>1, <2>2
<1> HIDE DEF b
<1>5. IsPipe(t) /\ Moves(p, t)
  <2>1. IsPipe(t)
    BY <1>4 DEF IsPipe, PipeFields
  <2>2. Moves(b, t)
    BY <1>4, FieldMoves
  <2> QED
    BY <1>4, <2>1, <2>2, MovesTransitive
<1> HIDE DEF t
<1>6. IsPipe(e) /\ Moves(p, e)
  <2>1. t.heard = p.heard
    BY <1>5 DEF Moves, Alike
  <2>2. Moves(t, e) /\ IsPipe(e)
    BY <1>5, <2>1, SilentMoves, HeedFacts
  <2> QED
    BY <1>5, <2>2, MovesTransitive
<1> QED
  BY <1>1, <1>3, <1>4, <1>6

\* Whatever ends with nothing kept back.
LEMMA EndedCalls ==
    ASSUME NEW p, IsPipe(p), Going(p), Drained(p), NEW x
    PROVE  /\ Followed(Ended(p)) /\ Followed(Ended(Ensure(p, x)))
           /\ Followed(Ended(Record(p, x))) /\ Followed(Ended(Marked(p)))
<1>1. p.heard \in [DOMAIN p.heard -> Heard]
  BY DEF Going, Data, Tracks
<1>2. ASSUME NEW q, IsPipe(q), Moves(p, q)
      PROVE  Followed(Ended(q))
  <2>1. Moves(p, Ended(q)) /\ Ended(q).ended
    BY <1>2, QuietMoves, EndedFacts, MovesTransitive
  <2> QED
    BY <2>1, EndCalls
<1>3. Moves(p, p)
  BY DEF Moves, Alike
<1>4. IsPipe(Ensure(p, x)) /\ Moves(p, Ensure(p, x))
  BY <1>1, EnsureMoves
<1>5. IsPipe(Record(p, x)) /\ Moves(p, Record(p, x)) /\ IsPipe(Marked(p)) /\ Moves(p, Marked(p))
  BY RecordFacts, QuietMoves
<1> QED
  BY <1>2, <1>3, <1>4, <1>5

\* A replacement is awaited with whatever is kept back.
LEMMA RefiringCalls ==
    ASSUME NEW p, IsPipe(p), ~p.ended, Going(p), NEW who, who # "no"
    PROVE  Followed(Refiring(p, who))
<1>1. Moves(p, Refiring(p, who)) /\ Refiring(p, who).pending # "no" /\ ~Refiring(p, who).ended
  BY QuietMoves
<1> QED
  BY <1>1, EndCalls

\* A stream that closes without an error.
LEMMA OnCloseCalls ==
    ASSUME NEW p, Live(p), ~p.gone, Going(p)
    PROVE  Followed(OnClose(p))
<1> DEFINE q == FlushArgs(p)
<1>1. Live(q) /\ IsPipe(q) /\ ~q.ended
  BY FlushFacts DEF Live, Steady
<1>2. Going(q) /\ Drained(q)
  BY FlushCalls
<1>3. OnClose(p) = IF q.gate # "sse" THEN Ended(IF q.aborted \/ q.upEnded THEN q ELSE Marked(q))
                   ELSE IF q.terminal \/ q.chunks = 0 THEN Ended(q)
                   ELSE IF q.aborted \/ q.upEnded THEN Ended(Ensure(q, FALSE))
                   ELSE IF MayRefire(q) THEN Refiring(q, "close")
                   ELSE Ended(Ensure(q, TRUE))
  BY DEF OnClose
<1> HIDE DEF q
<1>4. \A x : Followed(Ended(q)) /\ Followed(Ended(Ensure(q, x))) /\ Followed(Ended(Marked(q)))
  BY <1>1, <1>2, EndedCalls
<1>5. Followed(Refiring(q, "close"))
  BY <1>1, <1>2, RefiringCalls
<1> QED
  BY <1>3, <1>4, <1>5

\* A stream that errs, and its close.
LEMMA OnErrorCalls ==
    ASSUME NEW p, Live(p), ~p.gone, Going(p)
    PROVE  Followed(OnError(p))
<1> DEFINE q == FlushArgs(p)
           m == Marked(Ended(Marked(p)))
<1>1. Live(q) /\ IsPipe(q) /\ IsPipe(p) /\ ~p.ended
  BY FlushFacts DEF Live, Steady
<1>2. Going(q) /\ Drained(q)
  BY FlushCalls
<1>3. OnError(p) = IF p.gate # "sse" THEN m
                   ELSE IF MayRefire(p) THEN Refiring(p, "error")
                   ELSE IF q.chunks = 0 THEN Ended(q) ELSE Ended(Ensure(q, TRUE))
  BY DEF OnError
<1> HIDE DEF q
<1>4. \A x : Followed(Ended(q)) /\ Followed(Ended(Ensure(q, x)))
  BY <1>1, <1>2, EndedCalls
<1>5. Followed(Refiring(p, "error"))
  BY <1>1, RefiringCalls
<1>6. p.gate # "sse" => Followed(m)
  <2>1. IsPipe(Marked(p)) /\ Moves(p, Marked(p))
    BY <1>1, RecordFacts, QuietMoves
  <2>2. /\ IsPipe(Ended(Marked(p))) /\ Moves(Marked(p), Ended(Marked(p)))
        /\ Ended(Marked(p)).ended
    BY <2>1, EndedFacts, QuietMoves
  <2>3. Moves(Ended(Marked(p)), m) /\ m.ended
    BY <2>2, RecordFacts, QuietMoves DEF Unmoved
  <2>4. Moves(p, m)
    BY <2>1, <2>2, <2>3, MovesTransitive
  <2>5. m.gate = p.gate
    BY <2>4 DEF Moves
  <2> QED
    BY <2>3, <2>4, <2>5, EndCalls
<1> QED
  BY <1>3, <1>4, <1>5, <1>6

\* A block that is complete, before the tail is looked at again.
LEMMA TailGone ==
    ASSUME NEW p, IsPipe(p), Going(p)
    PROVE  Going([p EXCEPT !.tail = Absent]) /\ Alike(p, [p EXCEPT !.tail = Absent])
<1> DEFINE q == [p EXCEPT !.tail = Absent]
<1>1. /\ Alike(p, q) /\ q.tail = Absent /\ q.terminal = p.terminal /\ q.pending = p.pending
      /\ q.ended = p.ended
  BY ZenonT(40) DEF IsPipe, PipeFields, Alike
<1>2. Absent.kind # "call"
  BY DEF Absent, Plain
<1> HIDE DEF q
<1>3. Data(q)
  BY <1>1, AlikeData DEF Going
<1>4. WholeLast(q) /\ TailAt(q)
  BY <1>1, <1>2 DEF Going, WholeLast, TailAt, Alike
<1> QED
  BY <1>1, <1>3, <1>4 DEF Going, q

\* The block of the tail fits what is aggregated, whatever happens beside the calls.
LEMMA FitsAlike ==
    ASSUME NEW p, NEW q, Alike(p, q), q.terminal = p.terminal, NEW d, Fits(p, d)
    PROVE  Fits(q, d)
BY DEF Fits, Alike

\* A stream that ends, with a block left over or not.
LEMMA OnEndCalls ==
    ASSUME NEW p, Live(p), ~p.gone, p.pending = "no", Followed(p), NEW whole
    PROVE  Followed(OnEnd(p, whole))
<1> DEFINE e == [p EXCEPT !.upEnded = TRUE, !.stall = FALSE]
           u == [e EXCEPT !.tail = Absent]
           l == Leftover(e, whole)
           q == FlushArgs(l)
<1>1. OnEnd(p, whole) = IF p.gate # "sse" THEN Ended(e)
                        ELSE IF q.pending # "no" THEN q
                        ELSE IF q.terminal THEN Ended(Record(q, "ok"))
                        ELSE IF q.chunks = 0 THEN Ended(q)
                        ELSE IF MayRefire(q) THEN Refiring(q, "end")
                        ELSE Ended(Ensure(q, FALSE))
  BY DEF OnEnd
<1>2. IsPipe(p) /\ ~p.ended /\ Going(p)
  BY FollowedGoing DEF Live, Steady
<1>3. l \in {u, Block(u, e.tail)}
  BY DEF Leftover
<1> HIDE DEF q, l
<1>4. /\ IsPipe(e) /\ Unmoved(p, e) /\ Moves(p, e)
  BY ZenonT(40), <1>2 DEF IsPipe, PipeFields, Keeps, Unmoved, Moves, Alike
<1> HIDE DEF e
<1>5. Live(e) /\ ~e.gone /\ e.pending = "no" /\ e.terminal = p.terminal /\ ~e.ended
  BY <1>2, <1>4, UnmovedLive DEF Unmoved, Keeps
<1>6. Going(e)
  <2>1. Data(e)
    BY <1>2, <1>4, AlikeData DEF Going, Moves
  <2> QED
    BY <1>2, <1>4, <1>5, <2>1 DEF Going, WholeLast, TailAt, Moves, Alike
<1>7. Going(u) /\ Alike(e, u) /\ IsPipe(u) /\ Unmoved(e, u)
  BY <1>4, <1>6, TailGone, SetAside
<1> HIDE DEF u
<1>8. Live(u) /\ ~u.gone /\ u.pending = "no" /\ u.terminal = e.terminal
  BY <1>5, <1>7, UnmovedLive DEF Unmoved, Keeps
<1>9. e.tail.kind = "call" => u.cloak # "none" /\ Fits(u, e.tail.d)
  <2> SUFFICES ASSUME e.tail.kind = "call" PROVE u.cloak # "none" /\ Fits(u, e.tail.d)
    OBVIOUS
  <2>1. p.cloak # "none" /\ Fits(p, p.tail.d) /\ e.tail = p.tail
    BY <1>2, <1>4 DEF Moves, Followed, Tailed
  <2>2. Fits(e, p.tail.d)
    BY <1>4, <1>5, <2>1, FitsAlike DEF Moves
  <2>3. Fits(u, p.tail.d)
    BY <1>7, <1>8, <2>2, FitsAlike
  <2> QED
    BY <1>4, <1>7, <2>1, <2>3 DEF Moves, Alike
<1>10. Live(l) /\ ~l.gone /\ Going(l)
  BY <1>3, <1>7, <1>8, <1>9, BlockFacts, BlockCalls DEF Keeps
<1>11. /\ Live(q) /\ IsPipe(q) /\ ~q.ended /\ Going(q) /\ Drained(q)
  BY <1>10, FlushFacts, FlushCalls DEF q, Live, Steady
<1>12. \A x : /\ Followed(Ended(q)) /\ Followed(Ended(Ensure(q, x)))
              /\ Followed(Ended(Record(q, x)))
  BY <1>11, EndedCalls
<1>13. Followed(Refiring(q, "end"))
  BY <1>11, RefiringCalls
<1>14. q.pending # "no" => Followed(q)
  <2>1. Moves(q, q)
    BY DEF Moves, Alike
  <2> QED
    BY <1>11, <2>1, EndCalls
<1>15. p.gate # "sse" => Followed(Ended(e))
  <2>1. Moves(p, Ended(e)) /\ Ended(e).ended
    BY <1>4, QuietMoves, EndedFacts, MovesTransitive
  <2>2. Ended(e).gate = p.gate
    BY <2>1 DEF Moves
  <2> QED
    BY <1>2, <2>1, <2>2, EndCalls
<1> QED
  BY <1>1, <1>12, <1>13, <1>14, <1>15

\* Followed as before, whatever happens beside the calls.
LEMMA FollowedMoves ==
    ASSUME NEW p, Followed(p), NEW q, Moves(p, q), q.terminal = p.terminal,
           q.pending = p.pending, q.ended = p.ended
    PROVE  Followed(q)
<1>1. Data(q)
  BY AlikeData DEF Followed, Moves
<1>2. WholeLast(q) /\ (q.ended /\ q.gate = "sse" => Drained(q))
  BY DEF Followed, WholeLast, Drained, Moves, Alike
<1>3. Tailed(q)
  <2> SUFFICES ASSUME q.tail.kind = "call"
               PROVE  /\ q.gate = "sse" /\ q.cloak # "none"
                      /\ ~q.ended /\ q.pending = "no" => Fits(q, q.tail.d)
    BY DEF Tailed
  <2>1. q.tail = p.tail /\ q.gate = p.gate /\ q.cloak = p.cloak /\ Alike(p, q)
    BY DEF Moves, Alike
  <2>2. p.gate = "sse" /\ p.cloak # "none" /\ (~p.ended /\ p.pending = "no" => Fits(p, p.tail.d))
    BY <2>1 DEF Followed, Tailed
  <2> QED
    BY <2>1, <2>2, FitsAlike
<1> QED
  BY <1>1, <1>2, <1>3 DEF Followed

\* The replacement fails: nothing was said of calls, nor is now.
LEMMA RescueFailedCalls ==
    ASSUME NEW p, PipeInv(p), p.pending # "no", Followed(p)
    PROVE  Followed(RescueFailed(p))
<1> DEFINE q == [p EXCEPT !.pending = "no"]
           n == [q EXCEPT !.held = Absent]
           h == [n EXCEPT !.terminal = @ \/ Final(q.held)]
           u == Unheld(q)
<1>1. IsPipe(p) /\ ~p.tool /\ Going(p) /\ p.heard \in [DOMAIN p.heard -> Heard]
  BY FollowedGoing DEF PipeInv, Steady, Heeding
<1>2. Drained(p)
  BY <1>1, NothingKept DEF Going, Data, Tracks
<1>3. \/ RescueFailed(p) = Ended(Ensure(u, FALSE))
      \/ \E penalize : RescueFailed(p) = Ended(Ensure(q, penalize))
  BY DEF RescueFailed
<1>4. u = IF q.held = Absent \/ q.ended THEN n ELSE Heed(h, q.held, Nothing)
  BY DEF Unheld
<1> HIDE DEF u
<1>5. IsPipe(q) /\ Moves(p, q)
  <2>1. IsPipe(q)
    BY <1>1 DEF IsPipe, PipeFields
  <2> QED
    BY <1>1, <2>1, FieldMoves
<1> HIDE DEF q
<1>6. IsPipe(n) /\ Moves(q, n)
  <2>1. IsPipe(n)
    BY <1>5 DEF IsPipe, PipeFields
  <2> QED
    BY <1>5, <2>1, FieldMoves
<1> HIDE DEF n
<1>7. IsPipe(h) /\ Moves(n, h)
  <2>1. IsPipe(h)
    BY <1>6 DEF IsPipe, PipeFields
  <2> QED
    BY <1>6, <2>1, FieldMoves
<1> HIDE DEF h
<1>8. Moves(p, n) /\ Moves(p, h)
  BY <1>5, <1>6, <1>7, MovesTransitive
<1>9. h.heard = p.heard /\ q.heard = p.heard
  BY <1>5, <1>8 DEF Moves, Alike
<1>10. IsPipe(u) /\ Moves(p, u) /\ u.heard = p.heard
  <2>1. IsPipe(Heed(h, q.held, Nothing)) /\ Moves(h, Heed(h, q.held, Nothing))
    BY <1>1, <1>7, <1>9, SilentMoves, HeedFacts
  <2>2. Moves(p, Heed(h, q.held, Nothing))
    BY <1>8, <2>1, MovesTransitive
  <2>3. IsPipe(u) /\ Moves(p, u)
    BY <1>4, <1>6, <1>8, <2>1, <2>2
  <2> QED
    BY <2>3 DEF Moves, Alike
<1>11. ASSUME NEW v, IsPipe(v), Moves(p, v), v.heard = p.heard, NEW x
       PROVE  Followed(Ended(Ensure(v, x)))
  <2>1. IsPipe(Ensure(v, x)) /\ Moves(v, Ensure(v, x))
    BY <1>1, <1>11, EnsureMoves
  <2>2. Moves(Ensure(v, x), Ended(Ensure(v, x))) /\ Ended(Ensure(v, x)).ended
    BY <2>1, QuietMoves, EndedFacts
  <2>3. Moves(p, Ended(Ensure(v, x)))
    BY <1>11, <2>1, <2>2, MovesTransitive
  <2> QED
    BY <1>1, <1>2, <2>2, <2>3, EndCalls
<1> QED
  BY <1>3, <1>5, <1>9, <1>10, <1>11

\* Calls of which nothing has come.
LEMMA NoCalls ==
    /\ IsAggregate(AggregateStart) /\ Announcement(AggregateStart)
    /\ DOMAIN AggregateStart.calls = {} /\ AggregateStart.whole = FALSE
    /\ IsFiniteSet(DOMAIN AggregateStart.calls)
    /\ AggregateStart.calls = [c \in DOMAIN AggregateStart.calls |-> AggregateStart.calls[c]]
<1>1. /\ AggregateStart.calls = <<>> /\ AggregateStart.open = {} /\ AggregateStart.whole = FALSE
      /\ IsAggregate(AggregateStart)
  BY DEF AggregateStart, IsAggregate
<1> DEFINE none == <<>>
<1>2. DOMAIN none = {} /\ none = [c \in {} |-> none[c]] /\ none \in [{} -> Heard]
  OBVIOUS
<1>3. AggregateStart.calls = none
  BY <1>1
<1> HIDE DEF none
<1>4. IsFiniteSet({}) /\ Cardinality({}) = 0
  BY FS_EmptySet
<1>5. Announcement(AggregateStart)
  BY <1>1, <1>2, <1>3, <1>4 DEF Announcement
<1> QED
  BY <1>1, <1>2, <1>3, <1>4, <1>5

\* A stream of which the host has heard of no call, aggregated from its start.
LEMMA AnewData ==
    ASSUME NEW q, q.agg = AggregateStart, DOMAIN q.heard = {}, AreHeld(q.b), q.cloak \in Cloaks,
           q.heard \in [DOMAIN q.heard -> Heard], q.cloak # "none" => q.aud \in [DOMAIN q.heard -> Heard],
           q.cloak = "chat" => CloakInv(q.k) /\ CloakHeard(q.k, q.heard),
           q.cloak = "messages" => DOMAIN q.b.held \subseteq DOMAIN q.heard
    PROVE  Data(q)
<1>1. Tracks(q)
  BY NoCalls DEF Tracks
<1>2. ChatInv(q.k, q.heard, q.aud, q.agg)
  BY NoCalls DEF ChatInv
<1>3. MessagesInv(q.b, q.heard, q.aud, q.agg) /\ ResponsesInv(q.b, q.heard, q.aud, q.agg)
  BY NoCalls DEF MessagesInv, ResponsesInv
<1> QED
  BY <1>1, <1>2, <1>3 DEF Data, InStep

\* The turn goes on with another stream, whose calls are the only ones.
LEMMA ReplacedCalls ==
    ASSUME NEW p, PipeInv(p), p.pending # "no", Followed(p), NEW b
    PROVE  Followed(Replaced(p, b))
<1> DEFINE q == [p EXCEPT !.stream = "open", !.from = b, !.leg = 2, !.pending = "no"]
           r == [q EXCEPT !.held = Absent, !.tail = Absent, !.agg = AggregateStart,
                          !.paused = FALSE]
           t == [r EXCEPT !.upEnded = FALSE, !.stall = p.pending # "hold"]
<1>1. Replaced(p, b) = t
  BY DEF Replaced
<1>2. IsPipe(p) /\ ~p.tool /\ ~p.ended
  BY DEF PipeInv, Steady
<1>3. /\ IsPipe(q) /\ q.cloak = p.cloak /\ q.k = p.k /\ q.b = p.b /\ q.heard = p.heard
      /\ q.aud = p.aud /\ q.tool = p.tool /\ q.ended = p.ended
  BY ZenonT(40), <1>2 DEF IsPipe, PipeFields
<1> HIDE DEF q
<1>4. /\ IsPipe(r) /\ r.cloak = q.cloak /\ r.k = q.k /\ r.b = q.b /\ r.heard = q.heard
      /\ r.aud = q.aud /\ r.tool = q.tool /\ r.ended = q.ended
      /\ r.tail = Absent /\ r.agg = AggregateStart
  BY ZenonT(40), <1>3 DEF IsPipe, PipeFields
<1> HIDE DEF r
<1>5. /\ t.cloak = r.cloak /\ t.k = r.k /\ t.b = r.b /\ t.heard = r.heard
      /\ t.aud = r.aud /\ t.tool = r.tool /\ t.ended = r.ended
      /\ t.tail = r.tail /\ t.agg = r.agg
  BY ZenonT(40), <1>4 DEF IsPipe, PipeFields
<1> HIDE DEF t
<1>6. DOMAIN p.heard = {} /\ Tracks(p)
  BY <1>2 DEF Followed, Data, Tracks
<1>7. Data(t)
  <2>1. /\ t.agg = AggregateStart /\ DOMAIN t.heard = {} /\ AreHeld(t.b) /\ t.cloak \in Cloaks
        /\ t.heard \in [DOMAIN t.heard -> Heard]
        /\ t.cloak # "none" => t.aud \in [DOMAIN t.heard -> Heard]
        /\ t.cloak = "chat" => CloakInv(t.k) /\ CloakHeard(t.k, t.heard)
        /\ t.cloak = "messages" => DOMAIN t.b.held \subseteq DOMAIN t.heard
    BY <1>3, <1>4, <1>5, <1>6 DEF Tracks
  <2> QED
    BY <2>1, AnewData
<1>8. t.tail.kind # "call" /\ ~t.agg.whole /\ ~t.ended
  BY <1>2, <1>3, <1>4, <1>5, NoCalls DEF Absent, Plain
<1> QED
  BY <1>1, <1>7, <1>8 DEF Followed, Tailed, WholeLast

\* A response without a pipe, and one that gets its first.
LEMMA FirstCalls ==
    /\ CallsInv(NoPipe)
    /\ \A b, blame, hook, gate, cloak, most :
          cloak \in Cloaks => CallsInv(Piping(b, blame, hook, gate, cloak, most))
<1> DEFINE none == <<>>
<1>1. DOMAIN none = {} /\ none \in [{} -> Heard] /\ none \in [{} -> Call] /\ none \in [{} -> Seq(Nat)]
  OBVIOUS
<1>2. none = CloakStart.calls /\ none = CloakStart.claims /\ none = BlocksStart.held
  BY DEF CloakStart, BlocksStart
<1>3. /\ CloakStart.next = 0
      /\ CloakStart = [calls |-> CloakStart.calls, owner |-> CloakStart.owner,
                       claims |-> CloakStart.claims, next |-> CloakStart.next]
      /\ BlocksStart = [dropped |-> BlocksStart.dropped, held |-> BlocksStart.held]
  BY DEF CloakStart, BlocksStart
<1>4. /\ NoPipe.k = CloakStart /\ NoPipe.b = BlocksStart /\ NoPipe.heard = none /\ NoPipe.aud = none
      /\ NoPipe.agg = AggregateStart /\ NoPipe.tail = Absent /\ NoPipe.tool = FALSE
      /\ NoPipe.ended = FALSE /\ NoPipe.gone = FALSE /\ NoPipe.cloak = "none" /\ IsPipe(NoPipe)
  BY DEF NoPipe, IsPipe, PipeFields
<1> HIDE DEF none
<1>5. CloakInv(CloakStart)
  BY <1>1, <1>2, <1>3 DEF CloakInv
<1>6. AreHeld(BlocksStart)
  BY <1>1, <1>2, <1>3 DEF AreHeld
<1>7. CloakHeard(CloakStart, none)
  BY <1>1, <1>2 DEF CloakHeard
<1>8. ASSUME NEW p, p.k = CloakStart, p.b = BlocksStart, p.heard = none, p.aud = none,
             p.agg = AggregateStart, p.tail = Absent, p.ended = FALSE, p.gone = FALSE,
             p.cloak \in Cloaks
      PROVE  CallsInv(p)
  <2>1. Data(p)
    BY <1>1, <1>2, <1>5, <1>6, <1>7, <1>8, AnewData
  <2>2. Tailed(p) /\ WholeLast(p)
    BY <1>8, NoCalls DEF Tailed, WholeLast, Absent, Plain
  <2> QED
    BY <1>8, <2>1, <2>2 DEF CallsInv, Followed
<1>9. CallsInv(NoPipe)
  BY <1>4, <1>8 DEF Cloaks
<1>10. ASSUME NEW b, NEW blame, NEW hook, NEW gate, NEW cloak \in Cloaks, NEW most
       PROVE  CallsInv(Piping(b, blame, hook, gate, cloak, most))
  <2> DEFINE n == NoPipe
             h == [n EXCEPT !.stream = "open", !.from = b, !.blame = blame, !.hook = hook]
             m == [h EXCEPT !.gate = gate, !.cloak = cloak, !.most = most, !.stall = TRUE]
  <2>1. Piping(b, blame, hook, gate, cloak, most) = m
    BY DEF Piping
  <2> HIDE DEF n
  <2>2. IsPipe(n)
    BY <1>4 DEF n
  <2>3. /\ IsPipe(h) /\ h.k = n.k /\ h.b = n.b /\ h.heard = n.heard /\ h.aud = n.aud
        /\ h.agg = n.agg /\ h.tail = n.tail /\ h.ended = n.ended /\ h.gone = n.gone
    BY ZenonT(40), <2>2 DEF IsPipe, PipeFields
  <2> HIDE DEF h
  <2>4. /\ m.k = h.k /\ m.b = h.b /\ m.heard = h.heard /\ m.aud = h.aud
        /\ m.agg = h.agg /\ m.tail = h.tail /\ m.ended = h.ended /\ m.gone = h.gone
        /\ m.cloak = cloak
    BY ZenonT(40), <2>3 DEF IsPipe, PipeFields
  <2> HIDE DEF m
  <2>5. CallsInv(m)
    BY <1>4, <1>8, <2>3, <2>4 DEF n
  <2> QED
    BY <2>1, <2>5
<1> QED
  BY <1>9, <1>10

\* A pipe that is being forwarded has a host.
LEMMA WatchedCalls ==
    ASSUME PipeInv(pipe), CallsInv(pipe), Watched
    PROVE  /\ Live(pipe) /\ IsPipe(pipe) /\ ~pipe.gone /\ Followed(pipe)
           /\ pipe.pending = "no" /\ ~pipe.ended
BY WatchedLive DEF Watched, CallsInv

\* A pipe that is forwarded, and whose block that was begun is gone.
LEMMA GoingFollowed ==
    ASSUME NEW p, Live(p), Going(p), p.tail.kind # "call"
    PROVE  Followed(p)
BY DEF Followed, Going, Tailed, Live

\* A chunk of an event stream.
LEMMA DataArrivesCalls ==
    ASSUME PipeInv(pipe), CallsInv(pipe), DataArrives
    PROVE  CallsInv(pipe')
<1> DEFINE n == [pipe EXCEPT !.chunks = @ + 1]
           c == [n EXCEPT !.tail = Absent]
           p == Block(c, pipe.tail)
<1>1. PICK f \in Frames(p, pipe.tail), unfinished \in BOOLEAN, slow \in BOOLEAN :
         pipe' = [(IF unfinished THEN [p EXCEPT !.tail = f] ELSE Block(p, f)) EXCEPT !.paused = slow]
  BY DEF DataArrives
<1> DEFINE t == [p EXCEPT !.tail = f]
           q == IF unfinished THEN t ELSE Block(p, f)
<1>2. /\ Live(pipe) /\ IsPipe(pipe) /\ ~pipe.gone /\ Followed(pipe)
      /\ pipe.pending = "no" /\ ~pipe.ended /\ pipe.gate = "sse" /\ pipe.chunks \in Nat
  BY WatchedCalls DEF DataArrives, Live, Steady
<1>4. /\ Live(n) /\ IsPipe(n) /\ Moves(pipe, n) /\ n.terminal = pipe.terminal
      /\ n.pending = pipe.pending /\ n.ended = pipe.ended /\ n.gone = pipe.gone
  <2>1. Live(n) /\ IsPipe(n)
    BY <1>2, ChunkFacts DEF Live, Steady
  <2>2. Moves(pipe, n)
    BY <1>2, FieldMoves
  <2>3. /\ n.terminal = pipe.terminal
        /\ n.pending = pipe.pending /\ n.ended = pipe.ended /\ n.gone = pipe.gone
    BY <1>2 DEF IsPipe, PipeFields
  <2> QED
    BY <2>1, <2>2, <2>3
<1> HIDE DEF n
<1>5. Followed(n) /\ Going(n)
  BY <1>2, <1>4, FollowedMoves, FollowedGoing
<1>6. /\ Live(c) /\ Going(c) /\ Alike(n, c) /\ Unmoved(n, c) /\ c.tail = Absent
  <2>1. IsPipe(c) /\ Unmoved(n, c) /\ Going(c) /\ Alike(n, c)
    BY <1>4, <1>5, SetAside, TailGone
  <2>2. c.tail = Absent
    BY <1>4 DEF IsPipe, PipeFields
  <2> HIDE DEF c
  <2> QED
    BY <1>4, <2>1, <2>2, UnmovedLive
<1> HIDE DEF c
<1>7. /\ c.pending = "no" /\ ~c.gone /\ c.terminal = n.terminal /\ c.gate = "sse"
      /\ c.cloak = pipe.cloak
  BY <1>2, <1>4, <1>6 DEF Unmoved, Keeps, Alike, Moves
<1>8. pipe.tail.kind = "call" => c.cloak # "none" /\ Fits(c, pipe.tail.d)
  <2> SUFFICES ASSUME pipe.tail.kind = "call" PROVE c.cloak # "none" /\ Fits(c, pipe.tail.d)
    OBVIOUS
  <2>1. Fits(pipe, pipe.tail.d) /\ pipe.cloak # "none"
    BY <1>2 DEF Followed, Tailed
  <2>2. Fits(n, pipe.tail.d)
    BY <1>4, <2>1, FitsAlike DEF Moves
  <2>3. Fits(c, pipe.tail.d)
    BY <1>6, <1>7, <2>2, FitsAlike
  <2> QED
    BY <1>7, <2>1, <2>3
<1>9. /\ Live(p) /\ ~p.gone /\ Going(p) /\ p.tail = Absent /\ p.gate = "sse"
      /\ p.chunks \in Nat
      /\ ~RateLimited(pipe.tail) /\ ~ModelFault(pipe.tail) => p.pending = "no"
  <2>1. Live(p) /\ Keeps(c, p)
    BY <1>6, BlockFacts
  <2>2. Going(p) /\ p.gate = c.gate /\ p.tail = c.tail
    BY <1>6, <1>7, <1>8, BlockCalls
  <2>3. ~RateLimited(pipe.tail) /\ ~ModelFault(pipe.tail) => p.pending = "no"
    BY <1>6, <1>7, BlockPending
  <2> HIDE DEF p
  <2> QED
    BY <1>6, <1>7, <2>1, <2>2, <2>3 DEF Keeps, Live, Steady
<1> HIDE DEF p
<1>10. f.kind = "call" => /\ p.cloak # "none" /\ Fits(p, f.d)
                          /\ p.pending = "no"
  BY <1>9, FramesFit DEF Going, Data
<1>11. Absent.kind # "call"
  BY DEF Absent, Plain
<1>12. Followed(t) /\ Live(t) /\ ~t.gone
  <2>1. Live(t) /\ Unmoved(p, t) /\ IsPipe(p)
    BY <1>9, SetAside, UnmovedLive, LiveInv
  <2>2. /\ Alike(p, t) /\ t.tail = f
    BY ZenonT(40), <2>1 DEF IsPipe, PipeFields, Alike
  <2> HIDE DEF t
  <2>3. /\ t.terminal = p.terminal /\ t.gate = "sse" /\ t.pending = p.pending /\ t.ended = p.ended
        /\ ~t.gone /\ ~t.ended /\ t.agg = p.agg /\ t.cloak = p.cloak
    BY <1>9, <2>1, <2>2 DEF Unmoved, Keeps, Alike, Live
  <2>4. Data(t) /\ WholeLast(t)
    BY <1>9, <2>2, <2>3, AlikeData DEF Going, WholeLast
  <2>5. Tailed(t)
    <3>1. f.kind = "call" => Fits(t, f.d)
      BY <1>10, <2>2, <2>3, FitsAlike
    <3> QED
      BY <1>10, <2>2, <2>3, <3>1 DEF Tailed
  <2> QED
    BY <2>1, <2>3, <2>4, <2>5 DEF Followed
<1>13. Followed(Block(p, f)) /\ Live(Block(p, f)) /\ ~Block(p, f).gone
  <2>1. Live(Block(p, f)) /\ Keeps(p, Block(p, f))
    BY <1>9, BlockFacts
  <2>2. Going(Block(p, f)) /\ Block(p, f).tail = p.tail
    BY <1>9, <1>10, BlockCalls
  <2> QED
    BY <1>9, <1>11, <2>1, <2>2, GoingFollowed DEF Keeps
<1>14. Followed(q) /\ IsPipe(q) /\ ~q.gone
  BY <1>12, <1>13 DEF Live, Steady
<1>15. pipe' = [q EXCEPT !.paused = slow]
  BY <1>1
<1> HIDE DEF q
<1>16. Moves(q, pipe') /\ Unmoved(q, pipe')
  BY <1>14, <1>15, FieldMoves, SetAside
<1>17. Followed(pipe')
  BY <1>14, <1>16, FollowedMoves DEF Unmoved
<1> QED
  BY <1>14, <1>16, <1>17 DEF Unmoved, Keeps, CallsInv

\* A chunk of another body, and a host that reads again.
LEMMA OtherDataCalls ==
    ASSUME PipeInv(pipe), CallsInv(pipe), DataUnjudged \/ DataPassed \/ HostReads
    PROVE  CallsInv(pipe')
<1> DEFINE n == [pipe EXCEPT !.chunks = @ + 1]
<1>1. /\ Live(pipe) /\ IsPipe(pipe) /\ ~pipe.gone /\ Followed(pipe)
      /\ pipe.pending = "no" /\ ~pipe.ended /\ pipe.chunks \in Nat
  BY WatchedCalls DEF DataUnjudged, DataPassed, HostReads, Live, Steady
<1>2. /\ Live(n) /\ IsPipe(n) /\ Moves(pipe, n) /\ n.terminal = pipe.terminal
      /\ n.pending = pipe.pending /\ n.ended = pipe.ended /\ n.gone = pipe.gone
  <2>1. Live(n) /\ IsPipe(n)
    BY <1>1, ChunkFacts DEF Live, Steady
  <2>2. Moves(pipe, n)
    BY <1>1, FieldMoves
  <2>3. /\ n.terminal = pipe.terminal
        /\ n.pending = pipe.pending /\ n.ended = pipe.ended /\ n.gone = pipe.gone
    BY <1>1 DEF IsPipe, PipeFields
  <2> QED
    BY SMTT(40), <2>1, <2>2, <2>3
<1>3. \/ pipe' = n
      \/ \E x : pipe' = [n EXCEPT !.paused = x]
      \/ \E x : pipe' = [pipe EXCEPT !.paused = x]
      \/ /\ pipe.gate = "undecided"
         /\ \/ pipe' = [n EXCEPT !.gate = "raw"]
            \/ \E f \in Frames(n, Absent) : pipe' = Block([n EXCEPT !.gate = "sse"], f)
  BY DEF DataUnjudged, DataPassed, HostReads
<1> HIDE DEF n
<1>4. Followed(n) /\ Going(n)
  BY <1>1, <1>2, FollowedMoves, FollowedGoing
<1>5. ASSUME NEW p, IsPipe(p), Followed(p), ~p.gone, NEW x
      PROVE  CallsInv([p EXCEPT !.paused = x])
  <2> DEFINE q == [p EXCEPT !.paused = x]
  <2>1. Moves(p, q) /\ Unmoved(p, q)
    BY <1>5, FieldMoves, SetAside
  <2> HIDE DEF q
  <2>2. Followed(q)
    BY <1>5, <2>1, FollowedMoves DEF Unmoved
  <2> QED
    BY <1>5, <2>1, <2>2 DEF Unmoved, Keeps, CallsInv, q
<1>6. ASSUME pipe.gate = "undecided", NEW x
      PROVE  LET g == [n EXCEPT !.gate = x]
             IN /\ Live(g) /\ ~g.gone /\ g.pending = "no" /\ Alike(n, g) /\ Going(g)
                /\ g.terminal = n.terminal /\ g.tail.kind # "call" /\ g.chunks = n.chunks
  <2> DEFINE g == [n EXCEPT !.gate = x]
  <2>1. Live(g)
    BY <1>2, ChunkFacts
  <2>2. /\ Alike(n, g) /\ g.terminal = n.terminal /\ g.tail = n.tail /\ g.pending = n.pending
        /\ g.gone = n.gone /\ g.ended = n.ended /\ g.chunks = n.chunks
    BY ZenonT(40), <1>2 DEF IsPipe, PipeFields, Alike
  <2> HIDE DEF g
  <2>3. g.tail.kind # "call"
    BY <1>2, <1>4, <1>6, <2>2 DEF Followed, Tailed, Moves
  <2>4. Data(g)
    BY <1>4, <2>2, AlikeData DEF Going
  <2>5. Going(g)
    BY <1>4, <2>2, <2>3, <2>4 DEF Going, WholeLast, TailAt, Alike
  <2> QED
    BY <1>1, <1>2, <2>1, <2>2, <2>3, <2>5 DEF g
<1>7. CASE pipe.gate = "undecided" /\ pipe' = [n EXCEPT !.gate = "raw"]
  BY <1>6, <1>7, GoingFollowed DEF CallsInv
<1>8. CASE pipe.gate = "undecided"
             /\ \E f \in Frames(n, Absent) : pipe' = Block([n EXCEPT !.gate = "sse"], f)
  <2>1. PICK f \in Frames(n, Absent) : pipe' = Block([n EXCEPT !.gate = "sse"], f)
    BY <1>8
  <2> DEFINE g == [n EXCEPT !.gate = "sse"]
  <2>2. /\ Live(g) /\ ~g.gone /\ g.pending = "no" /\ Alike(n, g) /\ Going(g)
        /\ g.terminal = n.terminal /\ g.tail.kind # "call"
    BY <1>6, <1>8
  <2>3. pipe' = Block(g, f)
    BY <2>1
  <2> HIDE DEF g
  <2>4. f.kind = "call" => g.cloak # "none" /\ Fits(g, f.d)
    <3> SUFFICES ASSUME f.kind = "call" PROVE g.cloak # "none" /\ Fits(g, f.d)
      OBVIOUS
    <3>1. Tracks(n) /\ n.chunks \in Nat
      BY <1>2, <1>4 DEF Going, Data, Live, Steady
    <3>2. n.cloak # "none" /\ Fits(n, f.d)
      BY <3>1, FramesFit
    <3>3. Fits(g, f.d)
      BY <2>2, <3>2, FitsAlike
    <3> QED
      BY <2>2, <3>2, <3>3 DEF Alike
  <2>5. /\ Live(pipe') /\ Keeps(g, pipe')
    BY <2>2, <2>3, BlockFacts
  <2>6. Going(pipe') /\ pipe'.tail = g.tail
    BY <2>2, <2>3, <2>4, BlockCalls
  <2> QED
    BY <2>2, <2>5, <2>6, GoingFollowed DEF Keeps, CallsInv
<1>9. CASE pipe' = n
  BY <1>1, <1>2, <1>4, <1>9 DEF CallsInv
<1>10. CASE (\E x : pipe' = [n EXCEPT !.paused = x]) \/ (\E x : pipe' = [pipe EXCEPT !.paused = x])
  BY <1>1, <1>2, <1>4, <1>5, <1>10
<1> QED
  BY <1>3, <1>7, <1>8, <1>9, <1>10

\* A stream that is over.
LEMMA ClosedCalls ==
    ASSUME NEW p, PipeInv(p), CallsInv(p)
    PROVE  CallsInv(Closed(p))
<1>1. IsPipe(p)
  BY DEF PipeInv, Steady
<1>2. IsPipe(Closed(p)) /\ Unmoved(p, Closed(p))
  BY ZenonT(40), <1>1 DEF IsPipe, PipeFields, Keeps, Unmoved, Closed
<1>3. Moves(p, Closed(p))
  BY <1>1, QuietMoves
<1>4. ~p.gone => Followed(Closed(p))
  BY <1>2, <1>3, FollowedMoves DEF CallsInv, Unmoved
<1> QED
  BY <1>2, <1>4 DEF CallsInv, Unmoved, Keeps

\* A stream ends, breaks off or falls silent.
LEMMA StreamOverCalls ==
    ASSUME PipeInv(pipe), CallsInv(pipe), StreamErrors \/ StreamCloses \/ StreamEnds \/ StallCut
    PROVE  CallsInv(pipe')
<1> DEFINE s == [pipe EXCEPT !.stall = FALSE]
<1>1. Watched
  BY DEF StreamErrors, StreamCloses, StreamEnds, StallCut
<1>2. Live(pipe) /\ IsPipe(pipe) /\ ~pipe.gone /\ Followed(pipe) /\ pipe.pending = "no"
  BY <1>1, WatchedCalls
<1>3. \/ pipe' \in {Closed(OnError(pipe)), Closed(OnClose(pipe)), Closed(OnError(s))}
      \/ \E whole : pipe' = Closed(OnEnd(pipe, whole))
  BY DEF StreamErrors, StreamCloses, StreamEnds, StallCut
<1>4. IsPipe(s) /\ Unmoved(pipe, s) /\ Moves(pipe, s)
  BY <1>2, SetAside, FieldMoves
<1> HIDE DEF s
<1>5. Live(s) /\ Followed(s) /\ ~s.gone /\ s.pending = "no"
  BY <1>2, <1>4, UnmovedLive, FollowedMoves DEF Unmoved, Keeps
<1>6. Going(pipe) /\ Going(s)
  BY <1>2, <1>5, FollowedGoing
<1>7. /\ PipeInv(OnError(pipe)) /\ OnError(pipe).gone = pipe.gone
      /\ PipeInv(OnClose(pipe)) /\ OnClose(pipe).gone = pipe.gone
      /\ PipeInv(OnError(s)) /\ OnError(s).gone = s.gone
      /\ \A whole : PipeInv(OnEnd(pipe, whole)) /\ OnEnd(pipe, whole).gone = pipe.gone
  BY <1>2, <1>5, OnErrorInv, OnCloseInv, OnEndInv DEF Keeps
<1>8. /\ Followed(OnError(pipe)) /\ Followed(OnClose(pipe)) /\ Followed(OnError(s))
      /\ \A whole : Followed(OnEnd(pipe, whole))
  BY <1>2, <1>5, <1>6, OnErrorCalls, OnCloseCalls, OnEndCalls
<1>9. \E r : PipeInv(r) /\ CallsInv(r) /\ pipe' = Closed(r)
  BY <1>2, <1>3, <1>5, <1>7, <1>8 DEF CallsInv
<1> QED
  BY <1>9, ClosedCalls

\* The calls of a host that hangs up are of no more account.
LEMMA HostLeavesCalls ==
    ASSUME PipeInv(pipe), HostLeaves
    PROVE  CallsInv(pipe')
<1> DEFINE p == [pipe EXCEPT !.gone = TRUE, !.aborted = @ \/ pipe.stream = "open"]
<1>1. IsPipe(pipe) /\ Live(pipe) /\ ~pipe.gone
  BY DEF PipeInv, Live, Steady, HostLeaves
<1>2. pipe' = IF pipe.pending = "no" THEN Closed(OnClose(p)) ELSE p
  BY DEF HostLeaves
<1>3. /\ IsPipe(p) /\ p.gone = TRUE /\ Stays(pipe, p) /\ p.chunks = pipe.chunks
      /\ p.ended = pipe.ended /\ p.pending = pipe.pending /\ p.tool = pipe.tool
  BY ZenonT(40), <1>1 DEF IsPipe, PipeFields, Stays
<1> HIDE DEF p
<1>4. Live(p)
  BY <1>1, <1>3 DEF Live, Steady, Stays
<1>5. CASE pipe.pending = "no"
  <2>1. /\ PipeInv(OnClose(p)) /\ OnClose(p).gone = TRUE
        /\ OnClose(p).ended \/ OnClose(p).pending # "no"
    BY <1>3, <1>4, <1>5, OnCloseInv DEF Keeps
  <2> QED
    BY <1>2, <1>5, <2>1, ClosedCalls DEF CallsInv
<1>6. CASE pipe.pending # "no"
  BY <1>2, <1>3, <1>6 DEF CallsInv
<1> QED
  BY <1>5, <1>6

\* An event of the stream, or of the host.
LEMMA PipeEventCalls ==
    ASSUME PipeInv(pipe), CallsInv(pipe), PipeEvent \/ StallCut
    PROVE  CallsInv(pipe')
BY DataArrivesCalls, OtherDataCalls, StreamOverCalls, HostLeavesCalls DEF PipeEvent

\* A replacement that comes, or does not.
LEMMA RescueCalls ==
    ASSUME NEW p, PipeInv(p), CallsInv(p), p.pending # "no", NEW b
    PROVE  CallsInv(RescueFailed(p)) /\ CallsInv(Rescued(p, b))
<1>1. RescueFailed(p).ended /\ RescueFailed(p).gone = p.gone /\ Rescued(p, b).gone = p.gone
  BY RescueFailedInv, RescuedInv DEF Keeps
<1>2. CallsInv(RescueFailed(p))
  BY <1>1, RescueFailedCalls DEF CallsInv
<1>3. CASE p.gone \/ p.aborted
  BY <1>2, <1>3 DEF Rescued
<1>4. CASE ~(p.gone \/ p.aborted)
  <2>1. Rescued(p, b) = Replaced(p, b)
    BY <1>4 DEF Rescued
  <2>2. Followed(Replaced(p, b))
    BY <1>4, ReplacedCalls DEF CallsInv
  <2> QED
    BY <1>1, <1>2, <1>4, <2>1, <2>2 DEF CallsInv
<1> QED
  BY <1>2, <1>3, <1>4

-----------------------------------------------------------------------------
(* The calls of every turn                                                 *)

\* Which cloak applies is fixed by the conversation.
TurnCalls == setting \in Settings /\ CallsInv(pipe)

\* What is answered to a turn has no pipe, or one that begins.
LEMMA DeliveredCalls ==
    ASSUME TurnCalls, NEW t, NEW answer, NEW backend, NEW blame, NEW hook, NEW contents,
           Delivered(t, answer, backend, blame, hook, contents)
    PROVE  CallsInv(pipe')
<1>1. StreamCloakOf(t) \in Cloaks
  <2>1. setting.cloak \in Cloaks
    BY TurnAssumption DEF TurnCalls, SettingType
  <2> QED
    BY <2>1 DEF StreamCloakOf, Cloaks
<1> QED
  BY <1>1, FirstCalls DEF Delivered, TurnCalls

\* The steps of a turn.
LEMMA NextCalls ==
    ASSUME IInv, TurnCalls, [Next]_turnVars
    PROVE  TurnCalls'
<1>1. PipeInv(pipe) /\ CallsInv(pipe) /\ setting \in Settings
  BY DEF IInv, TurnCalls
<1>2. CASE UNCHANGED <<setting, pipe>>
  BY <1>2 DEF TurnCalls
<1>3. CASE HostAsks \/ RelayThrows \/ DirectThrows \/ KiloThrows \/ ChatThrows
  BY <1>2, <1>3 DEF HostAsks, RelayThrows, DirectThrows, KiloThrows, ChatThrows
<1>4. CASE BodyRead \/ BodyBreaks \/ HostAborts \/ ItemAges \/ DaemonRestarts \/ OthersStep
  BY <1>2, <1>4 DEF BodyRead, BodyBreaks, HostAborts, ItemAges, DaemonRestarts, OthersStep
<1>5. CASE RelayAnswers
  <2>1. /\ setting' = setting
        /\ \/ pipe' = pipe
           \/ \E t, answer, backend : Delivered(t, answer, backend, backend, TRUE, Contents(answer))
    BY <1>5 DEF RelayAnswers, Resend
  <2> QED
    BY <1>1, <2>1, DeliveredCalls DEF TurnCalls
<1>6. CASE DirectAnswers
  <2>1. /\ setting' = setting
        /\ \/ pipe' = pipe
           \/ \E t, answer, contents : Delivered(t, answer, Direct, Direct, FALSE, contents)
    BY <1>6 DEF DirectAnswers, Resend
  <2> QED
    BY <1>1, <2>1, DeliveredCalls DEF TurnCalls
<1>7. CASE KiloAnswers
  <2>1. /\ setting' = setting
        /\ \/ pipe' = pipe
           \/ \E answer, backend : Delivered(turn, answer, backend, Unknown, FALSE, Contents(answer))
    BY <1>7 DEF KiloAnswers
  <2> QED
    BY <1>1, <2>1, DeliveredCalls DEF TurnCalls
<1>8. CASE ClineAnswers \/ OvhAnswers
  <2>1. /\ setting' = setting
        /\ \E answer, backend, contents : Delivered(turn, answer, backend, backend, FALSE, contents)
    BY <1>8 DEF ClineAnswers, OvhAnswers
  <2> QED
    BY <1>1, <2>1, DeliveredCalls DEF TurnCalls
<1>9. CASE PipeStep \/ PipeStalls
  BY <1>1, <1>9, PipeEventCalls DEF PipeStep, PipeStalls, Asking, TurnCalls
<1>10. CASE RefireAnswers
  <2>1. /\ setting' = setting /\ pipe.pending # "no"
        /\ pipe' = pipe \/ pipe' = RescueFailed(pipe) \/ \E backend : pipe' = Rescued(pipe, backend)
    BY <1>10 DEF RefireAnswers, Refires, Resend
  <2> QED
    BY <1>1, <2>1, RescueCalls DEF TurnCalls
<1>11. CASE RefireThrows
  BY <1>1, <1>11, RescueCalls DEF RefireThrows, Refires, TurnCalls
<1>12. CASE PipeOver
  BY <1>1, <1>12, FirstCalls DEF PipeOver, TurnCalls
<1>13. CASE UNCHANGED turnVars
  BY <1>2, <1>13 DEF turnVars
<1> QED
  BY <1>3, <1>4, <1>5, <1>6, <1>7, <1>8, <1>9, <1>10, <1>11, <1>12, <1>13 DEF Next

\* The host, the recorder and the aggregation know the same calls, all through a turn.
THEOREM CallsAreFollowed == Spec => []TurnCalls
<1>1. Init => TurnCalls
  BY FirstCalls DEF Init, TurnCalls
<1>2. IInv /\ TurnCalls /\ [Next]_turnVars => TurnCalls'
  BY NextCalls
<1> QED
  BY <1>1, <1>2, Invariance, PTL DEF Spec

-----------------------------------------------------------------------------
(* What the host and the record have in the end                            *)

\* The calls of a stream that is over, of which nothing is kept back.
Over(p) ==
    /\ Followed(p) /\ p.ended /\ p.gate = "sse" /\ p.cloak # "none" /\ Comparable(p)

\* An answered call, as the host and the record have it in the end.
Delivering(had, rec, a) ==
    /\ had.args = a.args /\ rec.args = a.args
    /\ had.name = a.name \/ had.name = a.name \o a.name
    /\ \/ rec.name = a.name
       \/ rec.name = a.name \o a.name /\ (a.args = Silent \/ a.name \notin Declared)

\* The host has a call for each that is answered, and no more.
Matching(p, at) ==
    LET S == Aggregated(p.agg)
        T == DOMAIN p.heard
    IN /\ at \in [S -> T]
       /\ \A i \in T : \E c \in S : at[c] = i
       /\ \A c \in S : \A d \in S : at[c] = at[d] => c = d
       /\ \A c \in S : /\ Delivering(p.heard[at[c]], p.aud[at[c]], p.agg.calls[c])
                       /\ p.agg.calls[c].name \in Seq(Pieces)

\* A call of chat that is not withheld.
LEMMA ChatDelivered ==
    ASSUME NEW call \in Call, ~call.buffered, NEW had \in Heard, NEW rec \in Heard, NEW a \in Heard,
           ChatCall(call, had, rec, a)
    PROVE  Delivering(had, rec, a)
<1>1. had.args \o Silent = had.args
  BY DEF Heard, Silent
<1> QED
  BY <1>1 DEF ChatCall, KeptBack, Visible, Delivering

\* Chat.
LEMMA ChatMatching ==
    ASSUME NEW p, Over(p), p.cloak = "chat"
    PROVE  IsFiniteSet(Aggregated(p.agg)) /\ \E at : Matching(p, at)
<1> DEFINE S == Aggregated(p.agg)
           T == DOMAIN p.heard
           k == p.k
           at == [c \in S |-> k.calls[c].host]
<1>1. /\ CloakInv(k) /\ CloakHeard(k, p.heard) /\ ChatInv(k, p.heard, p.aud, p.agg)
      /\ Withheld(k) = {}
      /\ p.heard \in [T -> Heard] /\ p.aud \in [T -> Heard]
  BY DEF Over, Followed, Data, Tracks, InStep, Drained, Comparable
<1>2. S \subseteq DOMAIN p.agg.calls /\ IsFiniteSet(S)
  <2>1. S \subseteq DOMAIN p.agg.calls
    BY SMTT(40) DEF Aggregated
  <2> QED
    BY <1>1, <2>1, FS_Subset DEF ChatInv
<1>3. ASSUME NEW c \in S
      PROVE  /\ c \in DOMAIN k.calls /\ k.calls[c].host \in T
             /\ Delivering(p.heard[k.calls[c].host], p.aud[k.calls[c].host], p.agg.calls[c])
             /\ p.agg.calls[c].name \in Seq(Pieces)
  <2> DEFINE a == p.agg.calls[c]
             i == k.calls[c].host
  <2>1. /\ c \in DOMAIN k.calls /\ a.name # Unnamed /\ Standing(k.calls[c], i, p.heard, p.aud, a)
    BY <1>1, <1>2, <1>3 DEF ChatInv
  <2>2. a.name \notin Injected
    BY <1>3 DEF Aggregated
  <2>3. a \in Heard /\ i \in T /\ ChatCall(k.calls[c], p.heard[i], p.aud[i], a)
    BY <2>1, <2>2 DEF Standing
  <2>4. k.calls[c] \in Call
    BY <1>1, <2>1 DEF CloakInv
  <2>5. ~k.calls[c].buffered
    BY SMTT(40), <1>1, <2>1 DEF CloakInv, Withheld
  <2>6. p.heard[i] \in Heard /\ p.aud[i] \in Heard
    BY SMTT(40), <1>1, <2>3
  <2>7. Delivering(p.heard[i], p.aud[i], a)
    BY <2>3, <2>4, <2>5, <2>6, ChatDelivered
  <2> QED
    BY <2>1, <2>3, <2>7 DEF Heard
<1>4. ASSUME NEW i \in T
      PROVE  \E c \in S : k.calls[c].host = i
  <2>1. PICK c \in DOMAIN k.calls : k.calls[c].host = i
    BY <1>1 DEF CloakHeard
  <2>2. c \in DOMAIN p.agg.calls
    BY <1>1, <2>1 DEF ChatInv
  <2>3. p.agg.calls[c].name \notin Injected
    BY <1>1, <2>1, <2>2 DEF ChatInv, Standing
  <2> QED
    BY <2>1, <2>2, <2>3 DEF Aggregated
<1>5. \A c \in S : \A d \in S : k.calls[c].host = k.calls[d].host => c = d
  BY <1>1, <1>3 DEF CloakInv
<1> HIDE DEF S
<1>6. at \in [S -> T] /\ \A c \in S : at[c] = k.calls[c].host
  BY <1>3
<1> HIDE DEF at
<1>7. Matching(p, at)
  BY ZenonT(60), <1>3, <1>4, <1>5, <1>6 DEF Matching, S
<1> QED
  BY <1>2, <1>7 DEF S

\* Messages and Responses, where the host has a call under its own index.
LEMMA BlockMatching ==
    ASSUME NEW p, Over(p), p.cloak \in {"messages", "responses"}
    PROVE  IsFiniteSet(Aggregated(p.agg)) /\ \E at : Matching(p, at)
<1> DEFINE S == Aggregated(p.agg)
           T == DOMAIN p.heard
           at == [c \in S |-> c]
<1>1. /\ p.heard \in [T -> Heard] /\ p.aud \in [T -> Heard] /\ Announcement(p.agg) /\ AreHeld(p.b)
      /\ p.cloak = "messages" => MessagesInv(p.b, p.heard, p.aud, p.agg) /\ DOMAIN p.b.held = {}
      /\ p.cloak = "responses" => ResponsesInv(p.b, p.heard, p.aud, p.agg) /\ p.agg.whole
  BY DEF Over, Followed, Data, Tracks, InStep, Drained, Comparable
<1>2. S = {c \in DOMAIN p.agg.calls : p.agg.calls[c].name \notin Injected}
  BY DEF Aggregated
<1> HIDE DEF S
<1>3. IsFiniteSet(S)
  <2>1. IsFiniteSet(0..(Cardinality(DOMAIN p.agg.calls) - 1))
    BY <1>1, FS_Interval DEF Announcement
  <2> QED
    BY <1>1, <1>2, <2>1, FS_Subset DEF Announcement
<1>4. \A c \in DOMAIN p.agg.calls : p.agg.calls[c] \in Heard
  BY <1>1 DEF Announcement
<1>5. ASSUME NEW c \in DOMAIN p.agg.calls
      PROVE  IF p.agg.calls[c].name \in Injected THEN c \notin T
             ELSE c \in T /\ p.heard[c] = p.agg.calls[c] /\ p.aud[c] = p.agg.calls[c]
  <2> DEFINE a == p.agg.calls[c]
  <2>1. a \in Heard
    BY <1>4
  <2>2. CASE p.cloak = "messages"
    <3>1. MessageCall(a, c, c \in p.agg.open, p.b, p.heard, p.aud) /\ HeldOf(p.b, c) = <<>>
      BY <1>1, <2>2 DEF MessagesInv, HeldOf, Silent
    <3>2. CASE a.name \in Injected
      BY <3>1, <3>2 DEF MessageCall
    <3>3. CASE a.name \notin Injected
      <4>1. /\ c \in T /\ p.heard[c].name = a.name /\ p.heard[c].args \o <<>> = a.args
            /\ p.aud[c] = p.heard[c] /\ p.heard[c] \in Heard
        BY <1>1, <3>1, <3>3 DEF MessageCall
      <4>2. p.heard[c].args = a.args
        BY <4>1 DEF Heard
      <4>3. \A u \in Heard : \A v \in Heard : u.name = v.name /\ u.args = v.args => u = v
        BY DEF Heard
      <4>4. p.heard[c] = a
        BY <2>1, <4>1, <4>2, <4>3
      <4> QED
        BY <3>3, <4>1, <4>4
    <3> QED
      BY <3>2, <3>3
  <2>3. CASE p.cloak = "responses"
    BY <1>1, <2>3 DEF ResponsesInv, ResponseCall
  <2> QED
    BY <2>2, <2>3
<1>6. T = S
  <2>1. T \subseteq DOMAIN p.agg.calls
    BY <1>1 DEF MessagesInv, ResponsesInv
  <2> QED
    BY <1>2, <1>5, <2>1
<1>7. at \in [S -> T] /\ \A c \in S : at[c] = c
  BY SMTT(40), <1>6
<1> HIDE DEF at
<1>8. \A c \in S : Delivering(p.heard[c], p.aud[c], p.agg.calls[c]) /\ p.agg.calls[c].name \in Seq(Pieces)
  BY <1>2, <1>4, <1>5 DEF Delivering, Heard
<1>9. Matching(p, at)
  BY <1>6, <1>7, <1>8 DEF Matching, S
<1> QED
  BY <1>3, <1>9 DEF S

\* What matches is as many.
LEMMA MatchingCount ==
    ASSUME NEW p, NEW at, Matching(p, at), IsFiniteSet(Aggregated(p.agg))
    PROVE  Cardinality(DOMAIN p.heard) = Cardinality(Aggregated(p.agg))
<1> DEFINE S == Aggregated(p.agg)
           T == DOMAIN p.heard
<1>1. /\ at \in [S -> T] /\ \A i \in T : \E c \in S : at[c] = i
      /\ \A c \in S : \A d \in S : at[c] = at[d] => c = d
  BY DEF Matching
<1> HIDE DEF S, T
<1>2. at \in Bijection(S, T)
  BY <1>1 DEF Bijection, Injection, Surjection, IsInjective
<1>3. ExistsBijection(S, T)
  BY <1>2 DEF ExistsBijection
<1> QED
  BY <1>3, FS_Bijection DEF S, T

\* A name begins what is said of it once, or twice.
LEMMA Beginning ==
    ASSUME NEW s \in Seq(Pieces)
    PROVE  IsPrefix(s, s) /\ IsPrefix(s, s \o s)
BY DEF IsPrefix

\* No tool of the host, and no ordinary name, is another name said twice.
LEMMA NoneTwice ==
    ASSUME NEW s \in Seq(Pieces), s # Unnamed
    PROVE  s \o s \notin Declared
<1>1. s \o s # Ordinary
  BY OrdinaryFacts DEF Unnamed
<1>2. s \o s \notin Repairable
  <2> DEFINE t == s \o s
  <2>1. Len(s) \in 1..Len(t) /\ SubSeq(t, 1, Len(s)) = s
    BY DEF Unnamed
  <2> HIDE DEF t
  <2>2. t \in Repairable => t # s \o s
    BY <2>1, CloakAssumption
  <2> QED
    BY <2>2 DEF t
<1> QED
  BY <1>1, <1>2 DEF Declared

\* The host has what the aggregation would have answered.
LEMMA OverStreamed ==
    ASSUME NEW p, NEW at, Matching(p, at)
    PROVE  \A c \in Aggregated(p.agg) :
             \E i \in DOMAIN p.heard : SameCall(p.heard[i], p.agg.calls[c])
<1>1. ASSUME NEW c \in Aggregated(p.agg)
      PROVE  \E i \in DOMAIN p.heard : SameCall(p.heard[i], p.agg.calls[c])
  <2> DEFINE a == p.agg.calls[c]
             had == p.heard[at[c]]
  <2>1. at[c] \in DOMAIN p.heard /\ Delivering(had, p.aud[at[c]], a) /\ a.name \in Seq(Pieces)
    BY <1>1 DEF Matching
  <2> HIDE DEF a, had
  <2>2. IsPrefix(a.name, had.name) /\ had.args = a.args
    BY <2>1, Beginning DEF Delivering
  <2>3. SameCall(had, a)
    BY <2>2 DEF SameCall
  <2> QED
    BY <2>1, <2>3 DEF a, had
<1> QED
  BY <1>1

\* The record accuses no more and no less than the answer would.
LEMMA OverRecorded ==
    ASSUME NEW p, NEW at, Matching(p, at), p.aud \in [DOMAIN p.heard -> Heard]
    PROVE  LET recorded == {p.aud[i] : i \in DOMAIN p.aud}
               answered == {p.agg.calls[c] : c \in Aggregated(p.agg)}
           IN /\ {c.args : c \in recorded} = {c.args : c \in answered}
              /\ "empty_arguments" \notin Failures(answered, Declared)
                   => Failures(recorded, Declared) = Failures(answered, Declared)
<1> DEFINE recorded == {p.aud[i] : i \in DOMAIN p.aud}
           answered == {p.agg.calls[c] : c \in Aggregated(p.agg)}
<1>1. ASSUME NEW c \in Aggregated(p.agg)
      PROVE  /\ at[c] \in DOMAIN p.aud /\ p.aud[at[c]].args = p.agg.calls[c].args
             /\ p.agg.calls[c].args # Silent =>
                  (p.aud[at[c]].name \in Declared <=> p.agg.calls[c].name \in Declared)
  <2> DEFINE a == p.agg.calls[c]
             rec == p.aud[at[c]]
  <2>1. /\ at[c] \in DOMAIN p.aud /\ Delivering(p.heard[at[c]], rec, a)
        /\ a.name \in Seq(Pieces)
    BY <1>1 DEF Matching
  <2> HIDE DEF a, rec
  <2>2. a.name \o a.name = a.name \/ a.name \o a.name \notin Declared
    BY <2>1, NoneTwice DEF Unnamed
  <2>3. rec.args = a.args /\ (a.args # Silent => (rec.name \in Declared <=> a.name \in Declared))
    BY <2>1, <2>2 DEF Delivering
  <2> QED
    BY <2>1, <2>3 DEF a, rec
<1>2. \A i \in DOMAIN p.aud : \E c \in Aggregated(p.agg) : at[c] = i
  BY DEF Matching
<1>3. ASSUME NEW r \in recorded
      PROVE  \E a \in answered : /\ r.args = a.args
                                 /\ a.args # Silent => (r.name \in Declared <=> a.name \in Declared)
  BY <1>1, <1>2, <1>3
<1>4. ASSUME NEW a \in answered
      PROVE  \E r \in recorded : /\ r.args = a.args
                                 /\ a.args # Silent => (r.name \in Declared <=> a.name \in Declared)
  BY <1>1, <1>4
<1> HIDE DEF recorded, answered
<1>5. {c.args : c \in recorded} = {c.args : c \in answered}
  <2>1. \A r \in recorded : \E a \in answered : r.args = a.args
    BY <1>3
  <2>2. \A a \in answered : \E r \in recorded : r.args = a.args
    BY <1>4
  <2> QED
    BY <2>1, <2>2
<1>6. ASSUME "empty_arguments" \notin Failures(answered, Declared)
      PROVE  Failures(recorded, Declared) = Failures(answered, Declared)
  <2>1. \A a \in answered : a.args # Silent
    BY <1>6 DEF Failures
  <2>2. \A r \in recorded : r.args # Silent
    BY <1>3, <2>1
  <2>3. recorded = {} <=> answered = {}
    BY <1>3, <1>4
  <2>4. (\E r \in recorded : r.name \notin Declared) <=> (\E a \in answered : a.name \notin Declared)
    BY <1>3, <1>4, <2>1
  <2> QED
    BY <2>1, <2>2, <2>3, <2>4 DEF Failures
<1> QED
  BY <1>5, <1>6 DEF recorded, answered

\* A stream that is over.
LEMMA OverAgrees ==
    ASSUME NEW p, Over(p)
    PROVE  /\ Cardinality(DOMAIN p.heard) = Cardinality(Aggregated(p.agg))
           /\ p.aud \in [DOMAIN p.heard -> Heard]
           /\ \E at : Matching(p, at)
<1>1. p.cloak \in Cloaks /\ p.aud \in [DOMAIN p.heard -> Heard]
  BY DEF Over, Followed, Data, Tracks
<1>2. IsFiniteSet(Aggregated(p.agg)) /\ \E at : Matching(p, at)
  BY <1>1, ChatMatching, BlockMatching DEF Over, Cloaks
<1> QED
  BY <1>1, <1>2, MatchingCount

\* What a host assembles from a stream, cut or replaced, is what a caller that does not stream
\* would get: as many calls, each with its name and all of its arguments.
\* (rewriteSseBlock, flushBufferedToolArgs, convertSseToJson)
THEOREM StreamsAgree == Spec => []StreamedAsAggregated
<1>1. TurnCalls => StreamedAsAggregated
  <2> SUFFICES ASSUME CallsInv(pipe), pipe.ended, ~pipe.gone, pipe.cloak # "none",
                      pipe.gate = "sse", Comparable(pipe)
               PROVE  /\ Cardinality(DOMAIN pipe.heard) = Cardinality(Aggregated(pipe.agg))
                      /\ \A c \in Aggregated(pipe.agg) :
                           \E i \in DOMAIN pipe.heard : SameCall(pipe.heard[i], pipe.agg.calls[c])
    BY DEF TurnCalls, StreamedAsAggregated
  <2>1. Over(pipe)
    BY DEF Over, CallsInv
  <2> QED
    BY <2>1, OverAgrees, OverStreamed
<1> QED
  BY <1>1, CallsAreFollowed, PTL

\* The record of a streamed turn has the arguments of every call, each once, and accuses the
\* model of nothing that the answer read as a whole would not show.  (forwardText, observe)
THEOREM RecordAgrees == Spec => []AuditAgrees
<1>1. TurnCalls => AuditAgrees
  <2> SUFFICES ASSUME CallsInv(pipe), pipe.ended, ~pipe.gone, pipe.cloak # "none",
                      pipe.gate = "sse", Comparable(pipe)
               PROVE  LET recorded == {pipe.aud[i] : i \in DOMAIN pipe.aud}
                          answered == {pipe.agg.calls[c] : c \in Aggregated(pipe.agg)}
                      IN /\ Cardinality(DOMAIN pipe.aud) = Cardinality(Aggregated(pipe.agg))
                         /\ {c.args : c \in recorded} = {c.args : c \in answered}
                         /\ "empty_arguments" \notin Failures(answered, Declared)
                              => Failures(recorded, Declared) = Failures(answered, Declared)
    BY DEF TurnCalls, AuditAgrees
  <2>1. Over(pipe)
    BY DEF Over, CallsInv
  <2>2. /\ Cardinality(DOMAIN pipe.heard) = Cardinality(Aggregated(pipe.agg))
        /\ pipe.aud \in [DOMAIN pipe.heard -> Heard] /\ DOMAIN pipe.aud = DOMAIN pipe.heard
    BY <2>1, OverAgrees
  <2>3. PICK at : Matching(pipe, at)
    BY <2>1, OverAgrees
  <2> DEFINE recorded == {pipe.aud[i] : i \in DOMAIN pipe.aud}
             answered == {pipe.agg.calls[c] : c \in Aggregated(pipe.agg)}
  <2>4. /\ {c.args : c \in recorded} = {c.args : c \in answered}
        /\ "empty_arguments" \notin Failures(answered, Declared)
             => Failures(recorded, Declared) = Failures(answered, Declared)
    BY <2>2, <2>3, OverRecorded
  <2> QED
    BY <2>2, <2>4
<1> QED
  BY <1>1, CallsAreFollowed, PTL

=============================================================================
