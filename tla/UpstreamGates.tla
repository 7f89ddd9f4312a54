---------------------------- MODULE UpstreamGates ----------------------------
(***************************************************************************)
(* How the daemon tells that Zen refuses new sessions, and what it does    *)
(* about it: src/upstream-health.ts, and classifyZenFailover of            *)
(* src/proxy-lanes.ts.  After some refusals in a row the gate is closed;   *)
(* then, if the user opted in, sessions that never worked are served by a  *)
(* Kilo model, but for one a window, the canary, whose success opens the   *)
(* gate again.                                                             *)
(*                                                                         *)
(* The state has a file, which saves of lesser changes may skip and which  *)
(* the process of a host may write as well: whoever finds it written by    *)
(* another adopts it whole.  What was refused is remembered in memory only.*)
(*                                                                         *)
(* Operators on one record, and the steps of other conversations and       *)
(* processes.  The keys are those of the one conversation of HostTurn; the *)
(* term of a session and the cap on keys are left out.                     *)
(***************************************************************************)
EXTENDS Naturals

CONSTANT EnterAfter      \* GATE_ENTER_AFTER

ASSUME GatesAssumption == EnterAfter \in Nat \ {0}

VARIABLE ug

\* GateState, and whether this conversation is among the sessions: refusals in
\* a row, and whether the window of the last canary is over.
Gate == [gated : BOOLEAN, strikes : 0..EnterAfter, due : BOOLEAN, known : BOOLEAN]

CleanGate == [gated |-> FALSE, strikes |-> 0, due |-> TRUE, known |-> FALSE]

\* moved: the file was written by another process since the daemon read it.
GatesStart == [mem |-> CleanGate, file |-> CleanGate, moved |-> FALSE, rejected |-> FALSE]

GatesTypeOK == ug \in [mem : Gate, file : Gate, moved : BOOLEAN, rejected : BOOLEAN]

-----------------------------------------------------------------------------
(* The file                                                                *)

EnsureLoaded(g) == IF g.moved THEN [g EXCEPT !.mem = g.file, !.moved = FALSE] ELSE g

Persisted(g) == [g EXCEPT !.file = g.mem, !.moved = FALSE]

\* A save that is not forced may be throttled.
PersistedOrNot(g) == {g, Persisted(g)}
Noted(g, dirty) == IF dirty THEN PersistedOrNot(g) ELSE {g}

-----------------------------------------------------------------------------
(* What the answers of an upstream teach                                   *)

Opened(gate) == [gate EXCEPT !.gated = FALSE, !.strikes = 0]

\* Mutation: the recovery is saved as a lesser change is.
SuccessUnforced(g, keyed, canary) ==
    LET l == EnsureLoaded(g)
        k == [l EXCEPT !.mem.known = @ \/ keyed]
    IN IF canary THEN PersistedOrNot([k EXCEPT !.mem = [Opened(@) EXCEPT !.due = FALSE],
                                               !.rejected = FALSE])
       ELSE IF k.mem.gated THEN Noted(k, keyed)
       ELSE Noted([k EXCEPT !.mem.strikes = 0], keyed \/ k.mem.strikes # 0)

\* recordUpstreamSuccess.  Only a canary opens a closed gate.
RecordUpstreamSuccess(g, keyed, canary) ==
    LET l == EnsureLoaded(g)
        k == [l EXCEPT !.mem.known = @ \/ keyed]
        proven == [k EXCEPT !.mem.due = FALSE, !.rejected = FALSE]
    IN CASE canary /\ k.mem.gated -> {Persisted([proven EXCEPT !.mem = Opened(@)])}
         [] canary /\ ~k.mem.gated -> PersistedOrNot(proven)
         [] ~canary /\ k.mem.gated -> Noted(k, keyed)
         [] OTHER -> Noted([k EXCEPT !.mem.strikes = 0], keyed \/ k.mem.strikes # 0)

\* A success of Kilo: the table of sessions is shared, the gate is not.
RecordKiloSuccess(g, keyed) ==
    LET l == EnsureLoaded(g) IN Noted([l EXCEPT !.mem.known = @ \/ keyed], keyed)

\* recordUpstreamFailure, of a free-tier refusal or of another 403.
RecordUpstreamFailure(g, freeTier) ==
    LET l == EnsureLoaded(g)
        n == IF l.mem.strikes < EnterAfter THEN l.mem.strikes + 1 ELSE EnterAfter
    IN IF ~freeTier THEN Noted([l EXCEPT !.mem.strikes = 0], l.mem.strikes # 0)
       ELSE IF ~l.mem.gated /\ n >= EnterAfter
       THEN {Persisted([l EXCEPT !.mem.gated = TRUE, !.mem.strikes = n])}
       ELSE PersistedOrNot([l EXCEPT !.mem.strikes = n])

RememberGateRejection(g) == [g EXCEPT !.rejected = TRUE]

-----------------------------------------------------------------------------
(* Where a turn goes                                                       *)

\* This conversation ate a refusal that has not lapsed.
WasGateRejected(g) == g.rejected

\* `long`: a chat of more than one message counts as proven.
IsUnprovenSession(g, long) == ~g.mem.known /\ ~long

\* decideZenRoute: one canary a window, and its window saved before it flies.
DecideZenRoute(g, long) ==
    IF ~g.mem.gated \/ ~IsUnprovenSession(g, long) THEN [route |-> "passthrough", g |-> g]
    ELSE IF g.mem.due
    THEN [route |-> "canary", g |-> Persisted([g EXCEPT !.mem.due = FALSE])]
    ELSE [route |-> "failover", g |-> g]

\* classifyZenFailover, for users who opted in.
ClassifyZenFailover(g, long) ==
    IF WasGateRejected(g) THEN [route |-> "failover", g |-> g]
    ELSE DecideZenRoute(EnsureLoaded(g), long)

-----------------------------------------------------------------------------
(* Other conversations, other processes, and time                          *)

\* Answers to other conversations.
OthersServed == \E canary \in BOOLEAN : ug' \in RecordUpstreamSuccess(ug, FALSE, canary)

OthersRefused == \E freeTier \in BOOLEAN : ug' \in RecordUpstreamFailure(ug, freeTier)

\* resetUpstreamGate, in the process of a host: it writes the file and forgets
\* the refusals it remembers itself, which are not the daemon's.
HostResets == ug' = [ug EXCEPT !.file = Opened(@), !.moved = TRUE]

\* CANARY_INTERVAL_MS have gone by since the last canary.
WindowPasses ==
    /\ ~ug.mem.due \/ ~ug.file.due
    /\ ug' = [ug EXCEPT !.mem.due = TRUE, !.file.due = TRUE]

RejectionLapses == ug.rejected /\ ug' = [ug EXCEPT !.rejected = FALSE]

GatesRestarted(g) == [g EXCEPT !.mem = g.file, !.moved = FALSE, !.rejected = FALSE]

GatesStep == OthersServed \/ OthersRefused \/ HostResets \/ WindowPasses \/ RejectionLapses

-----------------------------------------------------------------------------
(* Properties                                                              *)

\* A restart finds the gate as it was, with its canary as spent as it was,
\* although saves may be skipped; a reset by a host is found as well.
\* (recordUpstreamSuccess, recordUpstreamFailure, decideZenRoute, persist)
GateSurvives ==
    IF ug.moved THEN ~ug.file.gated
    ELSE /\ ug.file.gated = ug.mem.gated
         /\ ug.mem.gated => ug.file.due = ug.mem.due

=============================================================================
