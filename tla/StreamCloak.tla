----------------------------- MODULE StreamCloak -----------------------------
(***************************************************************************)
(* The tool calls of a streamed chat answer: rewriteChatBlock of           *)
(* src/stream-cloak.ts, which tracks every call of the stream, hides the   *)
(* tools that the proxy itself declared, keeps the indices of parallel     *)
(* calls apart and withholds the arguments of tools it may have to repair  *)
(* until the call is whole; and, over the same deltas, the aggregation of  *)
(* src/sse-aggregator.ts, which serves callers that do not stream.         *)
(*                                                                         *)
(* Operators only: StreamPipe keeps the records.  A name is a sequence of  *)
(* pieces, since a provider may send it in pieces; an argument fragment is *)
(* a number.  Casing, the find/glob renaming and the repair of complete    *)
(* arguments are functions of the whole name or packet, and are left out.  *)
(***************************************************************************)
EXTENDS Integers, Sequences, FiniteSets, TLC

CONSTANTS
    CallIds,       \* ids an upstream gives to its tool calls
    NoId,          \* a delta without an id
    Pieces,        \* what names are made of
    Indices,       \* the indices an upstream uses: many label every call 0
    Injected,      \* names of the placeholder tools of enforceOpencodeFingerprint
    Repairable     \* names with a schema, whose arguments are withheld; none is a name said twice

ASSUME CloakAssumption ==
    /\ Indices \subseteq Nat
    /\ NoId \notin CallIds
    /\ CallIds \cap Nat = {}
    /\ Injected \cup Repairable \subseteq Seq(Pieces) \ {<<>>}
    /\ \A name \in Repairable : \A i \in 1..Len(name) : name # SubSeq(name, 1, i) \o SubSeq(name, 1, i)

Unnamed == <<>>
Silent == <<>>                       \* no arguments

Keys == CallIds \cup Indices         \* chatCallIdKey, chatIndexKey

\* The map f after x is set to v.
With(f, x, v) == [y \in DOMAIN f \cup {x} |-> IF y = x THEN v ELSE f[y]]

\* What the upstream sends of one call at a time.
Delta(idx, id, name, args) == [idx |-> idx, id |-> id, name |-> name, args |-> args]

\* ChatTrackedCall.
Call == [dropped : BOOLEAN, name : Seq(Pieces), buffered : BOOLEAN, args : Seq(Nat),
         host : Nat, flushed : BOOLEAN]

CallStart(host) == [dropped |-> FALSE, name |-> Unnamed, buffered |-> FALSE, args |-> Silent,
                    host |-> host, flushed |-> FALSE]

CloakStart == [calls |-> <<>>, owner |-> <<>>, claims |-> <<>>, next |-> 0]

IsCloak(k) ==
    /\ DOMAIN k = {"calls", "owner", "claims", "next"}
    /\ DOMAIN k.calls \subseteq Keys /\ \A c \in DOMAIN k.calls : k.calls[c] \in Call
    /\ DOMAIN k.owner \subseteq Indices /\ \A i \in DOMAIN k.owner : k.owner[i] \in CallIds
    /\ DOMAIN k.claims \subseteq Nat /\ \A i \in DOMAIN k.claims : k.claims[i] \in Keys
    /\ k.next \in Nat

-----------------------------------------------------------------------------
(* Which call a delta belongs to                                           *)

\* An id names the call; without one, the call that last owned the index.
KeyOf(owner, d) ==
    CASE d.id # NoId -> d.id
      [] d.id = NoId /\ d.idx \in DOMAIN owner -> owner[d.idx]
      [] OTHER -> d.idx

Owning(owner, d) == IF d.id = NoId THEN owner ELSE With(owner, d.idx, d.id)

Larger(a, b) == IF a < b THEN b ELSE a

\* Mutation: the index of a dropped placeholder is not taken into account.
TrackedUnclaimed(k, d) ==
    LET key == KeyOf(k.owner, d)
    IN [k EXCEPT !.owner = Owning(k.owner, d),
                 !.calls = IF key \in DOMAIN k.calls THEN k.calls
                           ELSE With(k.calls, key, CallStart(d.idx))]

\* A call not seen before gets its index, or a fresh one if another call has it.
Tracked(k, d) ==
    LET key   == KeyOf(k.owner, d)
        next  == Larger(k.next, d.idx + 1)
        known == key \in DOMAIN k.calls
        taken == d.idx \in DOMAIN k.claims
        at    == IF taken THEN next ELSE d.idx
    IN IF known THEN [k EXCEPT !.owner = Owning(k.owner, d), !.next = next]
       ELSE [owner  |-> Owning(k.owner, d),
             next   |-> IF taken THEN next + 1 ELSE next,
             claims |-> With(k.claims, at, key),
             calls  |-> With(k.calls, key, CallStart(at))]

\* A name that comes with arguments is the whole name; others are pieces of it.
Accumulated(name, piece, whole) == IF whole THEN piece ELSE name \o piece

-----------------------------------------------------------------------------
(* What the host is sent of it                                             *)

\* One delta as the host gets it; it appends names and arguments by index.
Sent(at, name, args) == {[at |-> at, name |-> name, args |-> args]}
Nothing == {}

\* A rewritten delta: the state after it and what is sent.
Rewritten(k, key, call, out) == [k |-> [k EXCEPT !.calls[key] = call], out |-> out]

Withholds(call, name) == name \in Repairable /\ ~call.flushed

\* A delta that carries a name.  A name the host already has is not sent again.
RewriteNamed(k, key, d) ==
    LET call    == k.calls[key]
        name    == Accumulated(call.name, d.name, d.args # Silent)
        again   == d.args # Silent /\ name = call.name
        shown   == IF again THEN Unnamed ELSE d.name
        named   == [call EXCEPT !.name = name, !.dropped = FALSE]
    IN IF d.name \in Injected
       THEN Rewritten(k, key, [call EXCEPT !.dropped = TRUE], Nothing)
       ELSE IF Withholds(call, name)
       THEN Rewritten(k, key, [named EXCEPT !.buffered = TRUE, !.args = d.args],
                      IF again THEN Nothing ELSE Sent(call.host, shown, Silent))
       ELSE Rewritten(k, key, named, Sent(call.host, shown, d.args))

\* A delta with arguments only follows the verdict on its call.
RewriteNameless(k, key, d) ==
    LET call == k.calls[key]
    IN CASE call.dropped -> Rewritten(k, key, call, Nothing)
         [] ~call.dropped /\ call.buffered ->
              Rewritten(k, key, [call EXCEPT !.args = @ \o d.args], Nothing)
         [] OTHER -> Rewritten(k, key, call, Sent(call.host, Unnamed, d.args))

Rewrite(k, d) ==
    LET t == Tracked(k, d)
        key == KeyOf(t.owner, d)
    IN IF d.name # Unnamed THEN RewriteNamed(t, key, d) ELSE RewriteNameless(t, key, d)

-----------------------------------------------------------------------------
(* Releasing what is withheld                                              *)

Withheld(k) == {c \in DOMAIN k.calls :
    /\ k.calls[c].buffered /\ ~k.calls[c].flushed
    /\ k.calls[c].name # Unnamed}

Releases(k) == {[at |-> k.calls[c].host, name |-> k.calls[c].name, args |-> k.calls[c].args]
                  : c \in Withheld(k)}

\* The chunk with the finish reason, or the end of the stream, releases the
\* arguments of every call that still has some.  The release names the call
\* again, although the host has its name.
Released(k) ==
    [k |-> [k EXCEPT !.calls =
             [c \in DOMAIN k.calls |->
                IF c \in Withheld(k)
                THEN [k.calls[c] EXCEPT !.flushed = TRUE, !.buffered = FALSE, !.args = Silent]
                ELSE k.calls[c]]],
     out |-> Releases(k)]

-----------------------------------------------------------------------------
(* What the host makes of a stream, and callers that do not stream get     *)

\* By index: the pieces of the name and the fragments of the arguments.
Heard == [name : Seq(Pieces), args : Seq(Nat)]

\* The host appends what comes for an index; the pieces of one rewritten
\* chunk are for different indices.
Hears(host, out) ==
    [i \in DOMAIN host \cup {o.at : o \in out} |->
       LET had == IF i \in DOMAIN host THEN host[i] ELSE [name |-> Unnamed, args |-> Silent]
           now == {o \in out : o.at = i}
       IN IF now = {} THEN had
          ELSE LET o == CHOOSE o \in now : TRUE
               IN [name |-> had.name \o o.name, args |-> had.args \o o.args]]

\* The two shapes in which providers are known to name a call: in pieces before
\* its arguments, or once more as a whole with the first of them.  A placeholder
\* is not named in pieces.
Shaped(had, d) ==
    IF d.name = Unnamed THEN had.name # Unnamed
    ELSE /\ had.args = Silent
         /\ IF d.args # Silent THEN had.name \in {Unnamed, d.name}
            ELSE /\ had.name # d.name
                 /\ \/ had.name = Unnamed
                    \/ {had.name, d.name, had.name \o d.name} \cap Injected = {}

\* sseToChatCompletionJson.  `odd` is set once a call is named in another shape,
\* or without an id where a stream replaced since had given its placeholder one;
\* `open` and `whole` are for the streams of BlockCloak: the calls begun and not
\* over, and whether the response was completed with none of them.
AggregateStart == [calls |-> <<>>, owner |-> <<>>, odd |-> FALSE, open |-> {}, whole |-> FALSE]

Aggregate(a, k, d) ==
    LET key == KeyOf(a.owner, d)
        had == IF key \in DOMAIN a.calls THEN a.calls[key] ELSE [name |-> Unnamed, args |-> Silent]
        name == IF d.name = Unnamed THEN had.name ELSE Accumulated(had.name, d.name, d.args # Silent)
    IN [a EXCEPT !.owner = Owning(@, d),
                 !.calls = With(@, key, [name |-> name, args |-> had.args \o d.args]),
                 !.odd = @ \/ ~Shaped(had, d) \/ KeyOf(k.owner, d) # key]

\* The calls of the answer: placeholders are taken out, by their whole name.
Aggregated(a) == {c \in DOMAIN a.calls : a.calls[c].name \notin Injected}

=============================================================================
