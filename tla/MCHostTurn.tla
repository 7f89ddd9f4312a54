------------------------------ MODULE MCHostTurn ------------------------------
(***************************************************************************)
(* Constants for HostTurn: one conversation for each lane and each way of  *)
(* being answered, every one with as many turns as its properties need.    *)
(***************************************************************************)
EXTENDS HostTurn

CONSTANTS
    c1, c2, c3,     \* ids of tool calls
    i1, i2          \* reasoning items

-----------------------------------------------------------------------------
(* Conversations                                                           *)

Conversation(lane, turns) == [lane |-> lane, responses |-> FALSE, streams |-> FALSE,
                              cloak |-> "none", optIn |-> FALSE, turns |-> turns, items |-> {},
                              chunks |-> 2]

\* Reasoning carried over turns, by streams and by whole bodies.
Carried == {[Conversation("zen", 2) EXCEPT !.responses = TRUE, !.streams = TRUE, !.items = {i1},
                                      !.chunks = 1],
            [Conversation("zen", 2) EXCEPT !.responses = TRUE, !.items = {i1, i2}]}

\* A longer stream, that may be replaced.
Flowing == {[Conversation("zen", 1) EXCEPT !.streams = TRUE, !.chunks = 3]}

\* Parallel tool calls in one streamed chat answer, that may be replaced or not.
Calling == {[Conversation("zen", 1) EXCEPT !.streams = TRUE, !.cloak = "chat", !.chunks = 1],
            [Conversation("paid", 1) EXCEPT !.streams = TRUE, !.cloak = "chat", !.chunks = 4]}

\* The same of Messages and of Responses.
Announcing ==
    {[Conversation("zen", 1) EXCEPT !.streams = TRUE, !.cloak = "messages", !.chunks = 2],
     [Conversation("paid", 1) EXCEPT !.streams = TRUE, !.cloak = "messages", !.chunks = 4],
     [Conversation("zen", 1) EXCEPT !.streams = TRUE, !.cloak = "responses", !.responses = TRUE,
                               !.chunks = 2],
     [Conversation("paid", 1) EXCEPT !.streams = TRUE, !.cloak = "responses", !.responses = TRUE,
                               !.chunks = 4]}

\* Refused sessions that may fail over to Kilo.
Gated == {[Conversation("zen", 3) EXCEPT !.optIn = TRUE],
          [Conversation("zen", 1) EXCEPT !.optIn = TRUE, !.responses = TRUE, !.streams = TRUE,
                                    !.chunks = 0]}

\* The other lanes.
Others == {[Conversation(lane, 1) EXCEPT !.streams = TRUE] : lane \in {"paid", "kilo", "cline", "ovh"}}
          \cup {[Conversation("ovh", 1) EXCEPT !.responses = TRUE]}

AllSettings == Carried \cup Flowing \cup Calling \cup Announcing \cup Gated \cup Others

-----------------------------------------------------------------------------
(* Deltas of tool calls: two calls of repairable tools, one named whole and *)
(* one in pieces, both under index 0, and one call of a placeholder.        *)

Glob == <<"g", "h">>
Placeholders == {<<"x">>}
Repairables == {Glob}

SomeDeltas == {
    Delta(0, c1, Glob, <<>>), Delta(0, NoId, <<>>, <<0>>), Delta(0, c2, Glob, <<0>>),
    Delta(0, c3, <<"x">>, <<>>), Delta(0, c2, <<"g">>, <<>>), Delta(0, c2, <<"h">>, <<>>)}

-----------------------------------------------------------------------------
(* What comments promise, and the code does not keep                       *)

\* "a rescue re-arms the replacement" (src/stream-pipe.ts, the stall cut).
ReplacementGuarded ==
    pipe.stream = "open" /\ pipe.leg = 2 /\ ~pipe.ended => pipe.stall

\* "Client aborts and clean terminal markers never reach this hook" (refire).
TerminalNeverReplaced == [][pipe'.leg > pipe.leg => ~pipe.told]_pipe

\* "The start verdict rules by index" (rewriteMessagesBlock of
\* src/stream-cloak.ts): the verdict on a call is that of its own start.
VerdictsOwn ==
    pipe.cloak = "messages" =>
      \A i \in pipe.b.dropped \cap DOMAIN pipe.agg.calls : pipe.agg.calls[i].name \in Injected

\* "... a frame carries arguments together with the whole name and would
\* otherwise glue "read" onto "read"" (src/toolcall-audit.ts): no recorded name
\* is longer than any name the caller declared.
NamesNotGlued ==
    pipe.cloak = "messages" \/ \A i \in DOMAIN pipe.aud :
        \E name \in Declared : Len(pipe.aud[i].name) <= Len(name)

\* Failures are marked on the backend whose stream they end (relayUrl).
CutterBlamed == [][pipe'.marks > pipe.marks => pipe.blame = pipe.from]_pipe

\* "dead-id stripping applies regardless of the hop guard" (src/proxy.ts).
DeadIdsNotSent == turn.phase = "fetching" => turn.sent.items \cap mem.ids = {}

\* "the plain lane may still serve": once it was fallen back to, the turn stays
\* with it (src/proxy.ts, the direct path).
PlainLaneKept ==
    [][turn.href = "plain" /\ turn.phase = "fetching" /\ turn'.phase = "fetching"
         => turn'.href = "plain"]_turnVars

\* "relay handled successfully": an answer of a relay is not asked for again
\* (src/proxy.ts, the relay path).
AnswerNotAskedAgain ==
    [][turn.phase = "reading" /\ turn.shown = "ok" => turn'.phase # "fetching"]_turnVars

\* "While gated, fresh Zen sessions fail over to a healthy Kilo model ...;
\* proven sessions keep their upstream" (src/upstream-health.ts): what Kilo
\* served is no proof that Zen would.
StrangerFailsOver ==
    [][~ug.mem.known /\ ug'.mem.known => turn.path # "kilo"]_turnVars

=============================================================================
