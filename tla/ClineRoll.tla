------------------------------ MODULE ClineRoll ------------------------------
(***************************************************************************)
(* The pool of Cline logins (src/cline-pool.ts) and the turns that roll    *)
(* over it (rollChat of src/cline-roll.ts, handleClineRequest of           *)
(* src/proxy-lanes.ts), with the keep-alive of src/cline-accounts.ts.      *)
(*                                                                         *)
(* A turn works on the pool it read when it began, across refreshes and    *)
(* answers that take as long as the network; what it learns it patches     *)
(* into the pool by the name of the slot, while other turns, the           *)
(* keep-alive and the user's logins and logouts do the same.               *)
(*                                                                         *)
(* One such patch, login or logout is one step: a read and a write without *)
(* a wait between them.  A login is known by a number.  Parks and caps     *)
(* carry no time: they end in steps of their own.  Caps are those of the   *)
(* one model that is asked for.                                            *)
(***************************************************************************)
EXTENDS Naturals, FiniteSets

CONSTANTS
    Slots,      \* names of logins
    NoSlot,     \* no login
    Turns,      \* calls of rollChat
    MaxLogins,  \* bound: logins made by users, the first pool's included
    MaxReset    \* bound: resets of caps, from early to late

ASSUME ClineRollAssumption ==
    /\ IsFiniteSet(Slots) /\ NoSlot \notin Slots
    /\ MaxLogins \in Nat /\ MaxReset \in Nat

VARIABLES
    saved,    \* accounts of the pool file, by slot
    bearer,   \* whose token a slot holds: the number of a login
    grant,    \* whose refreshToken it holds, or 0
    parked,   \* slots whose deadUntil lies ahead
    cap,      \* limits: the reset of a slot's cap, or 0
    served,   \* usage: turns a slot has served
    active,   \* activeSlot
    logins,   \* logins made so far
    turn,     \* the local state of each turn
    keeper    \* the local state of the keep-alive

pool == <<saved, bearer, grant, parked, cap, served, active>>
vars == <<pool, logins, turn, keeper>>

Logins == 0..MaxLogins

Idle ==
    [phase |-> "idle",
     candidates |-> {},     \* logins it may try
     left |-> {},           \* those it has not tried
     capped |-> {},         \* those on a cap when the turn began
     lead |-> NoSlot,       \* the active slot when it began
     slot |-> NoSlot,       \* the candidate under way
     grant |-> [s \in Slots |-> 0],      \* the grants it read
     refreshed |-> FALSE,   \* refreshedThisSlot
     sent |-> [s \in Slots |-> 0],        \* requests sent
     fate |-> [s \in Slots |-> "none"],   \* how the candidate was left
     bodies |-> {},         \* slots with an open response body
     last |-> NoSlot,       \* whose response is lastRes
     from |-> NoSlot,       \* whose response it returns
     gone |-> FALSE,        \* the caller's socket is closed
     limitOnly |-> FALSE,
     result |-> "none"]

Asleep ==
    [phase |-> "idle", left |-> {}, slot |-> NoSlot, grant |-> [s \in Slots |-> 0]]

Failures == {"fault", "rejected", "capped", "refused"}
Fates == Failures \cup {"none", "served", "masked"}
Results == {"none", "served", "failed", "rejected", "unreachable", "empty"}

Turn ==
    [phase : {"idle", "pick", "refresh", "sent", "reauth", "resent", "done"},
     candidates : SUBSET Slots, left : SUBSET Slots, capped : SUBSET Slots,
     lead : Slots \cup {NoSlot}, slot : Slots \cup {NoSlot},
     grant : [Slots -> Logins], refreshed : BOOLEAN,
     sent : [Slots -> Nat], fate : [Slots -> Fates],
     bodies : SUBSET Slots, last : Slots \cup {NoSlot}, from : Slots \cup {NoSlot},
     gone : BOOLEAN, limitOnly : BOOLEAN, result : Results]

Keeper ==
    [phase : {"idle", "pick", "refresh"}, left : SUBSET Slots, slot : Slots \cup {NoSlot},
     grant : [Slots -> Logins]]

TypeOK ==
    /\ saved \subseteq Slots /\ parked \subseteq Slots
    /\ bearer \in [Slots -> Logins] /\ grant \in [Slots -> Logins]
    /\ cap \in [Slots -> 0..MaxReset] /\ served \in [Slots -> Nat]
    /\ active \in Slots \cup {NoSlot}
    /\ logins \in Logins
    /\ turn \in [Turns -> Turn]
    /\ keeper \in Keeper

\* Any pool the users can have built up: device logins hold a grant, pasted keys
\* do not.
Init ==
    /\ saved \in SUBSET Slots
    /\ \E device \in SUBSET saved, number \in [saved -> 1..Cardinality(saved)] :
          /\ \A a, b \in saved : number[a] = number[b] => a = b
          /\ bearer = [s \in Slots |-> IF s \in saved THEN number[s] ELSE 0]
          /\ grant = [s \in Slots |-> IF s \in device THEN number[s] ELSE 0]
    /\ logins = Cardinality(saved)
    /\ logins <= MaxLogins
    /\ parked = {}
    /\ cap = [s \in Slots |-> 0]
    /\ served = [s \in Slots |-> 0]
    /\ active \in IF saved = {} THEN {NoSlot} ELSE saved
    /\ turn = [q \in Turns |-> Idle]
    /\ keeper = Asleep

-----------------------------------------------------------------------------
(* Edits of the pool file                                                  *)

\* Mutation: a slot that was logged out is written back.
RenewAny(s, g) ==
    /\ saved' = saved \cup {s}
    /\ bearer' = [bearer EXCEPT ![s] = g]
    /\ grant' = [grant EXCEPT ![s] = g]
    /\ UNCHANGED <<parked, cap, served, active>>

\* patchAccountOnDisk with fresh tokens: a slot that is gone is left alone.
Renew(s, g) ==
    /\ bearer' = IF s \in saved THEN [bearer EXCEPT ![s] = g] ELSE bearer
    /\ grant' = IF s \in saved THEN [grant EXCEPT ![s] = g] ELSE grant
    /\ UNCHANGED <<saved, parked, cap, served, active>>

\* patchAccountOnDisk with deadUntil.
Park(s) ==
    /\ parked' = IF s \in saved THEN parked \cup {s} ELSE parked
    /\ UNCHANGED <<saved, bearer, grant, cap, served, active>>

\* recordLimitOnDisk, if the answer states a reset: the later of the two wins.
RecordCap(s, reset) ==
    /\ cap' = IF s \in saved /\ reset > cap[s] THEN [cap EXCEPT ![s] = reset] ELSE cap
    /\ UNCHANGED <<saved, bearer, grant, parked, served, active>>

\* markActiveSlotOnDisk, clearLimitOnDisk and recordClineUsageOnDisk.
RecordServed(s) ==
    /\ active' = IF s \in saved THEN s ELSE active
    /\ cap' = [cap EXCEPT ![s] = 0]
    /\ served' = IF s \in saved THEN [served EXCEPT ![s] = @ + 1] ELSE served
    /\ UNCHANGED <<saved, bearer, grant, parked>>

\* addAccount, for a pasted key or a device login with its grant.  A key pasted
\* over a device login keeps the grant of the latter.
Login(s, device) ==
    /\ logins < MaxLogins
    /\ logins' = logins + 1
    /\ saved' = saved \cup {s}
    /\ bearer' = [bearer EXCEPT ![s] = logins + 1]
    /\ grant' = IF device THEN [grant EXCEPT ![s] = logins + 1] ELSE grant
    /\ parked' = parked \ {s}
    /\ active' = IF active = NoSlot THEN s ELSE active
    /\ UNCHANGED <<cap, served, turn, keeper>>

\* Mutation: the marks of the slot stay behind.
LogoutKeepingMarks(s) ==
    /\ s \in saved
    /\ saved' = saved \ {s}
    /\ bearer' = [bearer EXCEPT ![s] = 0]
    /\ grant' = [grant EXCEPT ![s] = 0]
    /\ parked' = parked \ {s}
    /\ UNCHANGED <<cap, served, active, logins, turn, keeper>>

\* removeAccount: the first account that remains becomes the active one.
Logout(s) ==
    /\ s \in saved
    /\ saved' = saved \ {s}
    /\ bearer' = [bearer EXCEPT ![s] = 0]
    /\ grant' = [grant EXCEPT ![s] = 0]
    /\ parked' = parked \ {s}
    /\ cap' = [cap EXCEPT ![s] = 0]
    /\ served' = [served EXCEPT ![s] = 0]
    /\ active' \in IF active # s THEN {active}
                  ELSE IF saved = {s} THEN {NoSlot} ELSE saved \ {s}
    /\ UNCHANGED <<logins, turn, keeper>>

\* parsePoolDoc drops a park and parseLimits a cap whose time has come.
ParkEnds(s) ==
    /\ s \in parked
    /\ parked' = parked \ {s}
    /\ UNCHANGED <<saved, bearer, grant, cap, served, active, logins, turn, keeper>>

CapEnds(s) ==
    /\ cap[s] > 0
    /\ cap' = [cap EXCEPT ![s] = 0]
    /\ UNCHANGED <<saved, bearer, grant, parked, served, active, logins, turn, keeper>>

-----------------------------------------------------------------------------
(* A turn                                                                  *)

\* Open logins before capped ones, the active login first of its kind.
Preferred(t) ==
    LET open == t.left \ t.capped
        kind == IF open # {} THEN open ELSE t.left
    IN  IF t.lead \in kind THEN {t.lead} ELSE kind

\* The pool as the turn reads it: parked logins are no candidates.
Snapshot(t) ==
    [t EXCEPT !.phase = "pick",
              !.candidates = saved \ parked,
              !.left = saved \ parked,
              !.capped = {s \in saved \ parked : cap[s] > 0},
              !.lead = active,
              !.grant = grant]

\* The roll returns the response of a login, if any; handleClineRequest cancels
\* it if its caller is gone.
Ended(t, from, result) ==
    [t EXCEPT !.phase = "done", !.result = result, !.from = from, !.slot = NoSlot,
              !.bodies = IF t.gone THEN @ \ {from} ELSE @,
              !.grant = Idle.grant, !.capped = {}, !.lead = NoSlot]

\* Mutation: a login without an answer ends the roll.
RolledAtLast(t, fate) ==
    [t EXCEPT !.phase = "pick", !.fate[t.slot] = fate, !.refreshed = FALSE, !.slot = NoSlot,
              !.left = IF fate = "fault" THEN {} ELSE @]

\* On to the next candidate.
Rolled(t, fate) ==
    [t EXCEPT !.phase = "pick", !.fate[t.slot] = fate, !.refreshed = FALSE, !.slot = NoSlot]

\* attempt(account.token): the signal of a caller who is gone stops it at once.
Sent(t, phase) ==
    IF t.gone THEN Rolled(t, "fault")
    ELSE [t EXCEPT !.phase = phase, !.sent[t.slot] = @ + 1]

Received(t) == [t EXCEPT !.bodies = @ \cup {t.slot}]
Cancelled(t) == [t EXCEPT !.bodies = @ \ {t.slot}]
LastCancelled(t) == [t EXCEPT !.bodies = @ \ {t.last}, !.last = NoSlot]

\* Mutation: the response kept before is not cancelled.
StashedLeaking(t) == [t EXCEPT !.last = t.slot]

\* stashFailure
Stashed(t) == [LastCancelled(t) EXCEPT !.last = t.slot]

Renewed(t) == [t EXCEPT !.refreshed = TRUE]

Begin(q) ==
    LET t == Snapshot(turn[q]) IN
    /\ turn[q].phase = "idle"
    /\ turn' = [turn EXCEPT ![q] =
           IF t.left # {} THEN t
           ELSE Ended(t, NoSlot, IF saved = {} THEN "empty" ELSE "rejected")]
    /\ UNCHANGED <<pool, logins, keeper>>

\* A candidate is sent the request, or refreshed first if its token is stale.
Try(q) ==
    LET t == turn[q] IN
    /\ t.phase = "pick"
    /\ \E s \in Preferred(t) :
          turn' = [turn EXCEPT ![q] = Sent([t EXCEPT !.left = @ \ {s}, !.slot = s], "sent")]
    /\ UNCHANGED <<pool, logins, keeper>>

TryStale(q) ==
    LET t == turn[q] IN
    /\ t.phase = "pick"
    /\ \E s \in Preferred(t) :
          /\ t.grant[s] # 0
          /\ turn' = [turn EXCEPT ![q] =
                 [t EXCEPT !.left = @ \ {s}, !.slot = s, !.phase = "refresh"]]
    /\ UNCHANGED <<pool, logins, keeper>>

\* Cline hands out fresh tokens: they are kept, and the request is sent.
Refreshed(q) ==
    LET t == turn[q]
        s == t.slot
    IN
    /\ t.phase \in {"refresh", "reauth"}
    /\ turn' = [turn EXCEPT ![q] =
           Sent(Cancelled(Renewed(t)), IF t.phase = "refresh" THEN "sent" ELSE "resent")]
    /\ Renew(s, t.grant[s])
    /\ UNCHANGED <<logins, keeper>>

\* Cline rejects the grant: the slot is parked and skipped.
GrantRejected(q) ==
    LET t == turn[q] IN
    /\ t.phase \in {"refresh", "reauth"}
    /\ turn' = [turn EXCEPT ![q] = Rolled(Cancelled(t), "rejected")]
    /\ Park(t.slot)
    /\ UNCHANGED <<logins, keeper>>

\* Mutation: any refresh that fails counts as a rejection.
RefreshFailsParking(q) ==
    LET t == turn[q] IN
    /\ t.phase \in {"refresh", "reauth"}
    /\ turn' = [turn EXCEPT ![q] = Rolled(Cancelled(t), "rejected")]
    /\ Park(t.slot)
    /\ UNCHANGED <<logins, keeper>>

\* The refresh fails on the way: the old token is sent, or the answer to it kept.
RefreshFails(q) ==
    LET t == turn[q] IN
    /\ t.phase \in {"refresh", "reauth"}
    /\ turn' = [turn EXCEPT ![q] =
           IF t.phase = "refresh" THEN Sent(t, "sent")
           ELSE Rolled(Stashed(t), "refused")]
    /\ UNCHANGED <<pool, logins, keeper>>

\* The fetch throws, as it does once the caller is gone.
SendFails(q) ==
    LET t == turn[q] IN
    /\ t.phase \in {"sent", "resent"}
    /\ turn' = [turn EXCEPT ![q] = Rolled(t, "fault")]
    /\ UNCHANGED <<pool, logins, keeper>>

\* succeed: the response kept from an earlier login is cancelled.
ServedBy(t, fate) ==
    Ended([LastCancelled(Received(t)) EXCEPT !.fate[t.slot] = fate], t.slot, "served")

\* A 2xx answer.
Succeeds(q) ==
    LET t == turn[q] IN
    /\ t.phase \in {"sent", "resent"}
    /\ turn' = [turn EXCEPT ![q] = ServedBy(t, "served")]
    /\ RecordServed(t.slot)
    /\ UNCHANGED <<logins, keeper>>

\* A 4xx answer to blame the request for.
ClientError(q) ==
    LET t == turn[q] IN
    /\ t.phase \in {"sent", "resent"}
    /\ turn' = [turn EXCEPT ![q] = ServedBy(t, "served")]
    /\ UNCHANGED <<pool, logins, keeper>>

\* One refresh for each candidate, and one retry.
MayRefresh(t) == ~t.refreshed /\ t.grant[t.slot] # 0

\* 401 or 403
Unauthorized(q) ==
    LET t == turn[q] IN
    /\ t.phase \in {"sent", "resent"}
    /\ turn' = [turn EXCEPT ![q] =
           IF MayRefresh(t) THEN [Received(t) EXCEPT !.phase = "reauth"]
           ELSE Rolled(Stashed(Received(t)), "refused")]
    /\ UNCHANGED <<pool, logins, keeper>>

\* 402, 429 without a cap, 5xx
Refused(q) ==
    LET t == turn[q] IN
    /\ t.phase \in {"sent", "resent"}
    /\ turn' = [turn EXCEPT ![q] = Rolled(Stashed(Received(t)), "refused")]
    /\ UNCHANGED <<pool, logins, keeper>>

\* 429 with the free limit of the model, and its reset if it states one; or a
\* stream whose first event says so, which is looked for in first answers only.
Capped(q, reset) ==
    LET t == turn[q] IN
    /\ t.phase \in {"sent", "resent"}
    /\ turn' = [turn EXCEPT ![q] = Rolled(Stashed(Received(t)), "capped")]
    /\ RecordCap(t.slot, reset)
    /\ UNCHANGED <<logins, keeper>>

\* A retry is not looked into: a stream that says so is taken for a success.
MaskedCap(q) ==
    LET t == turn[q] IN
    /\ t.phase = "resent"
    /\ turn' = [turn EXCEPT ![q] = ServedBy(t, "masked")]
    /\ RecordServed(t.slot)
    /\ UNCHANGED <<logins, keeper>>

AllLeft(t, fate) == \A s \in t.candidates : t.fate[s] = fate

\* Every candidate has failed: the last response is returned, if there is one.
Exhausted(q) ==
    LET t == turn[q] IN
    /\ t.phase = "pick" /\ t.left = {}
    /\ turn' = [turn EXCEPT ![q] =
           IF t.last # NoSlot
           THEN [Ended(t, t.last, "failed") EXCEPT !.limitOnly = AllLeft(t, "capped")]
           ELSE Ended(t, NoSlot, IF AllLeft(t, "rejected") THEN "rejected" ELSE "unreachable")]
    /\ UNCHANGED <<pool, logins, keeper>>

\* The caller hangs up.
CallerGone(q) ==
    /\ turn[q].phase \notin {"idle", "done"} /\ ~turn[q].gone
    /\ turn' = [turn EXCEPT ![q].gone = TRUE]
    /\ UNCHANGED <<pool, logins, keeper>>

-----------------------------------------------------------------------------
(* The keep-alive, every fifteen minutes                                   *)

KeeperStarts ==
    /\ keeper.phase = "idle" /\ saved # {}
    /\ keeper' = [keeper EXCEPT !.phase = "pick", !.left = saved, !.grant = grant]
    /\ UNCHANGED <<pool, logins, turn>>

KeeperDone == [keeper EXCEPT !.phase = IF keeper.left = {} THEN "idle" ELSE "pick", !.slot = NoSlot,
                             !.grant = IF keeper.left = {} THEN Asleep.grant ELSE @]

KeeperPasses(s) ==
    /\ keeper.phase = "pick" /\ s \in keeper.left
    /\ keeper' = LET k == keeper.left \ {s} IN
         [keeper EXCEPT !.phase = IF k = {} THEN "idle" ELSE "pick", !.left = k,
                        !.grant = IF k = {} THEN Asleep.grant ELSE @]
    /\ UNCHANGED <<pool, logins, turn>>

\* A token that has expired, or soon will.
KeeperRefreshes(s) ==
    /\ keeper.phase = "pick" /\ s \in keeper.left /\ keeper.grant[s] # 0
    /\ keeper' = [keeper EXCEPT !.phase = "refresh", !.left = @ \ {s}, !.slot = s]
    /\ UNCHANGED <<pool, logins, turn>>

KeeperRefreshed ==
    /\ keeper.phase = "refresh"
    /\ Renew(keeper.slot, keeper.grant[keeper.slot])
    /\ keeper' = KeeperDone
    /\ UNCHANGED <<logins, turn>>

KeeperRejected ==
    /\ keeper.phase = "refresh"
    /\ Park(keeper.slot)
    /\ keeper' = KeeperDone
    /\ UNCHANGED <<logins, turn>>

\* defaultClineRefresher takes any failure for a rejection.
KeeperFails ==
    /\ keeper.phase = "refresh"
    /\ Park(keeper.slot)
    /\ keeper' = KeeperDone
    /\ UNCHANGED <<logins, turn>>

-----------------------------------------------------------------------------
Answer(q) ==
    \/ Succeeds(q) \/ ClientError(q) \/ Unauthorized(q) \/ Refused(q) \/ MaskedCap(q)
    \/ \E reset \in 0..MaxReset : Capped(q, reset)

Step(q) ==
    \/ Begin(q) \/ Try(q) \/ TryStale(q)
    \/ Refreshed(q) \/ GrantRejected(q) \/ RefreshFails(q)
    \/ SendFails(q) \/ Answer(q) \/ Exhausted(q)

Keep ==
    \/ KeeperStarts \/ KeeperRefreshed \/ KeeperRejected \/ KeeperFails
    \/ \E s \in Slots : KeeperPasses(s) \/ KeeperRefreshes(s)

Next ==
    \/ \E q \in Turns : Step(q) \/ CallerGone(q)
    \/ Keep
    \/ \E s \in Slots : Logout(s) \/ ParkEnds(s) \/ CapEnds(s) \/ Login(s, TRUE) \/ Login(s, FALSE)

Spec == Init /\ [][Next]_vars

\* A refresh and a fetch end with an answer or a time-out of the transport.
FairSpec == Spec /\ \A q \in Turns : WF_vars(Step(q))

-----------------------------------------------------------------------------
(* Properties                                                              *)

\* What is kept of a login goes with it, whichever turns are under way when the
\* user logs out and record what they learnt of it afterwards: no cap, no park
\* and no count outlives the slot, and the active slot is a saved one, if any
\* is (src/cline-pool.ts, removeAccount and the ...OnDisk patches).
MarksHaveLogin ==
    /\ active = NoSlot <=> saved = {}
    /\ \A s \in Slots \ saved :
          s # active /\ s \notin parked /\ cap[s] = 0 /\ served[s] = 0
              /\ bearer[s] = 0 /\ grant[s] = 0

\* A login the user has removed only comes back by a login: no turn and no
\* keep-alive that read the pool earlier resurrects it (src/cline-pool.ts,
\* patchAccountOnDisk).
LogoutHolds == [][saved' \subseteq saved \/ logins' > logins]_vars

\* A turn that is over holds no connection but that of the response it returns,
\* and not even that if its caller is gone: not those of responses it kept and
\* replaced, refreshed after, or lost (src/cline-roll.ts, rollChat).
BodiesReleased ==
    \A q \in Turns :
        turn[q].phase = "done" =>
            turn[q].bodies = IF turn[q].gone THEN {} ELSE {turn[q].from} \ {NoSlot}

\* A turn that fails has tried every login that was saved and not parked when it
\* began; one that does not has an answer of a login that failed nothing; none
\* is sent the request more than twice (src/cline-roll.ts, rollChat).
RollComplete ==
    \A q \in Turns :
        /\ turn[q].result \in {"failed", "rejected", "unreachable"} =>
               \A s \in turn[q].candidates : turn[q].fate[s] \in Failures
        /\ turn[q].result = "served" => turn[q].fate[turn[q].from] \in {"served", "masked"}
        /\ \A s \in Slots : turn[q].sent[s] <= 2

\* Every turn that begins ends.
TurnEnds == \A q \in Turns : turn[q].phase # "idle" ~> turn[q].phase = "done"
=============================================================================
