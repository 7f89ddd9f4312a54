------------------------------ MODULE Reasoning ------------------------------
(***************************************************************************)
(* The reasoning a Responses conversation carries from turn to turn:       *)
(* src/responses.ts.  The host sends its whole history every time.  An     *)
(* item of it may carry an encrypted blob that only the backend that       *)
(* issued it can read, and is known by an id that ages out.  What a        *)
(* backend cannot read makes it refuse the whole request.                  *)
(*                                                                         *)
(* Operators only, on one conversation: HostTurn keeps its memory.  The    *)
(* bounds on conversations and on hashes per conversation are left out, as *)
(* are the pointer to the previous response, which is dropped along with   *)
(* what it points to, and the difference between a blob and its hash.      *)
(***************************************************************************)
EXTENDS Integers, FiniteSets

CONSTANTS
    Items,      \* reasoning items a conversation may come to hold
    Unset       \* no issuer is known

\* A request: its reasoning items, and those that still carry their blob.
Body == {b \in [items : SUBSET Items, blobs : SUBSET Items] : b.blobs \subseteq b.items}
NoHistory == [items |-> {}, blobs |-> {}]

\* What the daemon remembers: the backend of the last success, and what was
\* refused.  Only the first is kept on disk.
Fresh == [issuer |-> Unset, blobs |-> {}, ids |-> {}]

-----------------------------------------------------------------------------
(* Bodies                                                                  *)

StripReasoningEncryption(b) == [b EXCEPT !.blobs = {}]

StripUnresolvableReasoning(b) == NoHistory

\* Only what this conversation had refused before.
StripRejectedReasoning(b, m) == [b EXCEPT !.blobs = @ \ m.blobs]

StripRejectedReasoningIds(b, m) == [items |-> b.items \ m.ids, blobs |-> b.blobs \ m.ids]

\* The conversation goes to another backend than the one it comes from.
IssuerChanged(m, backend) == m.issuer \notin {Unset, backend}

\* The body of a turn: portable if the conversation leaves its issuer, without
\* what is known to be refused in any case.
ForUpstream(b, m, backend) ==
    LET portable == IF IssuerChanged(m, backend) THEN StripReasoningEncryption(b) ELSE b
    IN StripRejectedReasoningIds(StripRejectedReasoning(portable, m), m)

-----------------------------------------------------------------------------
(* Memory                                                                  *)

RememberRejectedReasoning(m, b) == [m EXCEPT !.blobs = @ \cup b.blobs]

RememberRejectedReasoningIds(m, dead) == [m EXCEPT !.ids = @ \cup dead]

RememberIssuerRelay(m, backend) == [m EXCEPT !.issuer = backend]

\* issuerRelayFor: a pin that idled or aged out is dropped when it is read; the
\* memory of refusals has a term of its own.
Recalls(m) == [issuer : {m.issuer, Unset}, blobs : {m.blobs, {}}, ids : {m.ids, {}}]

\* A restart: the pin as last saved, which is throttled, or none.
Restarted(saved) == [Fresh EXCEPT !.issuer = saved]

-----------------------------------------------------------------------------
(* What a backend makes of a body                                          *)

\* origin: the backend each item comes from; aged: the items it has dropped.
Foreign(b, backend, origin) == {i \in b.blobs : origin[i] # backend}
Expired(b, aged) == b.items \cap aged

Unreadable(b, backend, origin, aged) ==
    IF Foreign(b, backend, origin) # {} THEN {"mismatch"}
    ELSE IF Expired(b, aged) # {} THEN {"expired"} ELSE {}

=============================================================================
