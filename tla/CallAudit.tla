------------------------------ MODULE CallAudit ------------------------------
(***************************************************************************)
(* What the record of a turn says of its tool calls: the observers and the *)
(* classification of src/toolcall-audit.ts.  The recorder is given the     *)
(* blocks that are forwarded, as the cloak left them, and puts the calls   *)
(* together once more, in the way of each dialect.                         *)
(*                                                                         *)
(* Operators only.  A call is known here by the index the host has for it, *)
(* as an id never comes under two of those, nor two ids under one.  The    *)
(* budgets of calls and of bytes, and the chain of retries that the        *)
(* recorder keeps over turns, are left out.                                *)
(***************************************************************************)
EXTENDS BlockCloak

\* pushCall, for a call that is not found.
CallAt(calls, i) == IF i \in DOMAIN calls THEN calls[i] ELSE [name |-> Unnamed, args |-> Silent]

\* Names come in pieces in chat only.
Named(dialect, had, o) ==
    CASE o.name = Unnamed -> had
      [] o.name # Unnamed /\ dialect = "chat" -> Accumulated(had, o.name, o.args # Silent)
      [] OTHER -> o.name

\* observeChat and observeMessages, of what a block has for each index.
ObserveFragments(calls, dialect, out) ==
    [i \in DOMAIN calls \cup {o.at : o \in out} |->
       LET had == CallAt(calls, i)
           now == {o \in out : o.at = i}
       IN IF now = {} THEN had
          ELSE LET o == CHOOSE o \in now : TRUE
               IN [name |-> Named(dialect, had.name, o), args |-> had.args \o o.args]]

\* Mutation: the arguments that a call is repeated with are appended.
ObserveAppending(calls, d) ==
    LET had == CallAt(calls, d.idx)
    IN With(calls, d.idx, [name |-> IF d.name = Unnamed THEN had.name ELSE d.name,
                           args |-> had.args \o d.args])

\* observeResponses: an item that is over has all arguments (setArgs).
ObserveResponses(calls, d) ==
    LET had == CallAt(calls, d.idx)
    IN With(calls, d.idx, [name |-> IF d.name = Unnamed THEN had.name ELSE d.name,
                           args |-> IF d.part = "stop" /\ d.args # Silent THEN d.args
                                    ELSE had.args \o d.args])

\* Of a set of calls.  Whether arguments are valid is left to the payload.
Failures(calls, declared) ==
    (IF calls = {} THEN {"no_tool_calls"} ELSE {})
    \cup (IF \E c \in calls : c.name \notin declared THEN {"unknown_tool_name"} ELSE {})
    \cup (IF \E c \in calls : c.args = Silent THEN {"empty_arguments"} ELSE {})

=============================================================================
