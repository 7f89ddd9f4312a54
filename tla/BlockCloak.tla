------------------------------ MODULE BlockCloak ------------------------------
(***************************************************************************)
(* The tool calls of streams that announce each call under an index of its *)
(* own: rewriteMessagesBlock and rewriteResponsesBlock of                  *)
(* src/stream-cloak.ts, and over the same events the aggregations of       *)
(* src/sse-aggregator.ts.  A Messages stream has the start, the fragments  *)
(* and the end of a call, a Responses stream says the whole call again at  *)
(* its end and once more in the response object that completes it.         *)
(*                                                                         *)
(* Operators only, as StreamCloak, with the same abstraction of names and  *)
(* arguments.  The verdict on an item of Responses is also kept by its id, *)
(* which says no more than its index.  A caller without tools, from whom   *)
(* all calls are hidden, is one for whom all names are Injected.           *)
(***************************************************************************)
EXTENDS StreamCloak

\* One event of a call.  In Responses, `more` is either of the two events
\* with arguments, and `stop` has the name and all arguments.
Piece == [part : {"start", "more", "stop"}, idx : Indices, name : Seq(Pieces), args : Seq(Nat)]
Part(part, idx, name, args) == [part |-> part, idx |-> idx, name |-> name, args |-> args]

\* The indices of hidden calls, and the arguments withheld of Messages calls.
BlocksStart == [dropped |-> {}, held |-> <<>>]

AreBlocks(b) ==
    /\ DOMAIN b = {"dropped", "held"} /\ b.dropped \subseteq Indices
    /\ DOMAIN b.held \subseteq Indices /\ \A i \in DOMAIN b.held : b.held[i] \in Seq(Nat)

Without(held, i) == [j \in DOMAIN held \ {i} |-> held[j]]
HeldOf(b, i) == IF i \in DOMAIN b.held THEN b.held[i] ELSE Silent

Remade(b, out) == [b |-> b, out |-> out]

-----------------------------------------------------------------------------
(* One event as the host gets it                                           *)

\* The start decides on the call, by its index until the call stops.
StartMessages(b, d) ==
    IF d.name \in Injected THEN Remade([b EXCEPT !.dropped = @ \cup {d.idx}], Nothing)
    ELSE Remade(IF d.name \in Repairable THEN [b EXCEPT !.held = With(@, d.idx, Silent)] ELSE b,
                Sent(d.idx, d.name, Silent))

\* The arguments of a repairable call are sent as it stops.
RewriteMessages(b, d) ==
    LET hidden == d.idx \in b.dropped
        holds == d.idx \in DOMAIN b.held
    IN CASE d.part = "start" -> StartMessages(b, d)
         [] d.part = "more" /\ hidden -> Remade(b, Nothing)
         [] d.part = "more" /\ ~hidden /\ holds ->
              Remade([b EXCEPT !.held[d.idx] = @ \o d.args], Nothing)
         [] d.part = "more" /\ ~hidden /\ ~holds -> Remade(b, Sent(d.idx, Unnamed, d.args))
         [] d.part = "stop" /\ hidden -> Remade([b EXCEPT !.dropped = @ \ {d.idx}], Nothing)
         [] d.part = "stop" /\ ~hidden ->
              Remade([b EXCEPT !.held = Without(@, d.idx)], Sent(d.idx, Unnamed, HeldOf(b, d.idx)))

\* Hidden calls are dropped by the name where there is one, else by the index.
\* The host takes a call from the event that ends it.
RewriteResponses(b, d) ==
    CASE d.part # "more" /\ d.name \in Injected ->
           Remade([b EXCEPT !.dropped = @ \cup {d.idx}], Nothing)
      [] d.part = "stop" /\ d.name \notin Injected -> Remade(b, Sent(d.idx, d.name, d.args))
      [] d.part = "start" /\ d.name \notin Injected -> Remade(b, Sent(d.idx, Unnamed, Silent))
      [] d.part = "more" ->
           Remade(b, IF d.idx \in b.dropped THEN Nothing ELSE Sent(d.idx, Unnamed, Silent))

\* What is still withheld, at the end of the message or of the stream.
HeldReleased(b) ==
    Remade([b EXCEPT !.held = <<>>],
           {[at |-> i, name |-> Unnamed, args |-> b.held[i]] : i \in DOMAIN b.held})

-----------------------------------------------------------------------------
(* What callers that do not stream get                                     *)

\* sseToMessagesJson; and the items of the object that sseToResponsesJson takes
\* once the response is complete.  `odd` is set when a call takes the index of
\* a placeholder that a stream replaced since had begun.
AggregateBlock(a, b, d) ==
    LET calls == CASE d.part = "start" -> With(a.calls, d.idx, [name |-> d.name, args |-> Silent])
                   [] d.part = "more" -> [a.calls EXCEPT ![d.idx].args = @ \o d.args]
                   [] d.part = "stop" -> a.calls
        open  == CASE d.part = "start" -> a.open \cup {d.idx}
                   [] d.part = "more" -> a.open
                   [] d.part = "stop" -> a.open \ {d.idx}
    IN [a EXCEPT !.calls = calls, !.open = open,
                 !.odd = @ \/ (d.part = "start" /\ d.idx \in b.dropped)]

\* response.completed: the response object has every call that is over.
Completed(a) == [a EXCEPT !.whole = a.open = {}]

=============================================================================
