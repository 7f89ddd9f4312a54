--------------------------- MODULE ClineRollProofs ---------------------------
(***************************************************************************)
(* Proofs about ClineRoll for any finite number of slots, any turns and    *)
(* any number of logins.                                                   *)
(***************************************************************************)
EXTENDS ClineParks, FiniteSetTheorems, TLAPS

Busy == {"refresh", "sent", "reauth", "resent"}

\* The open bodies of a turn are accounted for: that of the response it keeps,
\* that of the answer it refreshes for, and at last that of its result.
Connections(t) ==
    /\ t.slot # NoSlot <=> t.phase \in Busy
    /\ t.slot \notin t.left /\ t.last \notin t.left
    /\ t.last = t.slot => t.last = NoSlot
    /\ t.phase = "idle" => t.last = NoSlot
    /\ t.phase \notin {"reauth", "done"} => t.bodies = {t.last} \ {NoSlot}
    /\ t.phase = "reauth" => t.bodies = {t.last, t.slot} \ {NoSlot}
    /\ t.phase = "done" => t.bodies = IF t.gone THEN {} ELSE {t.from} \ {NoSlot}

Sound(t) == t \in Turn /\ Connections(t)

PoolOK ==
    /\ saved \subseteq Slots /\ parked \subseteq Slots
    /\ bearer \in [Slots -> Logins] /\ grant \in [Slots -> Logins]
    /\ cap \in [Slots -> 0..MaxReset] /\ served \in [Slots -> Nat]
    /\ active \in Slots \cup {NoSlot}
    /\ MarksHaveLogin

TurnsOK == turn \in [Turns -> Turn] /\ \A q \in Turns : Sound(turn[q])

KeeperOK == keeper \in Keeper /\ (keeper.phase = "refresh" => keeper.slot \in Slots)

IInv == PoolOK /\ logins \in Logins /\ TurnsOK /\ KeeperOK

-----------------------------------------------------------------------------
(* What the steps do to the local state of a turn                          *)

\* A turn that has not begun is sound.
LEMMA IdleSound == Sound(Idle)
<1>1. 0 \in Logins
  BY ClineRollAssumption DEF Logins
<1>2. Idle \in Turn
  BY <1>1 DEF Idle, Turn, Fates, Results
<1> QED
  BY <1>2 DEF Sound, Connections, Idle, Busy

\* A turn that waits is about a slot.
LEMMA SlotOfBusy ==
    ASSUME NEW t, Sound(t), t.phase \in Busy
    PROVE  t.slot \in Slots
BY DEF Sound, Connections, Turn

\* A turn that rolls on keeps the body of the response kept, and no other.
LEMMA RolledSound ==
    ASSUME NEW t \in Turn, NEW f \in Fates, t.slot \in Slots,
           t.last \notin t.left, t.bodies = {t.last} \ {NoSlot}
    PROVE  Sound(Rolled(t, f))
<1>1. NoSlot \notin t.left
  BY ClineRollAssumption DEF Turn
<1>2. Rolled(t, f) \in Turn
  BY DEF Rolled, Turn
<1> QED
  BY <1>1, <1>2 DEF Rolled, Sound, Connections, Busy, Turn

\* A request, withdrawn if the caller is gone, leaves the turn sound.
LEMMA SentSound ==
    ASSUME NEW t \in Turn, NEW p \in {"sent", "resent"}, t.slot \in Slots,
           t.slot \notin t.left, t.last \notin t.left, t.last # t.slot,
           t.bodies = {t.last} \ {NoSlot}
    PROVE  Sound(Sent(t, p))
<1>1. CASE t.gone
  BY <1>1, RolledSound DEF Sent, Fates, Failures
<1>2. CASE ~t.gone
  <2>1. [t EXCEPT !.phase = p, !.sent[t.slot] = @ + 1] \in Turn
    <3>1. t.sent \in [Slots -> Nat] /\ t.sent[t.slot] + 1 \in Nat
      BY DEF Turn
    <3>2. [t.sent EXCEPT ![t.slot] = @ + 1] \in [Slots -> Nat]
      BY <3>1
    <3> QED
      BY <3>2 DEF Turn
  <2> QED
    BY <1>2, <2>1, ClineRollAssumption DEF Sent, Sound, Connections, Busy, Turn
<1> QED
  BY <1>1, <1>2

\* A turn that ends leaves open the body it returns, and no other.
LEMMA EndedSound ==
    ASSUME NEW t \in Turn, NEW from \in Slots \cup {NoSlot}, NEW r \in Results,
           t.last \notin t.left, t.bodies = {from} \ {NoSlot}
    PROVE  Sound(Ended(t, from, r))
<1>1. Idle.grant \in [Slots -> Logins]
  BY IdleSound DEF Sound, Turn
<1>2. NoSlot \notin t.left
  BY ClineRollAssumption DEF Turn
<1>3. Ended(t, from, r) \in Turn
  BY ZenonT(40), <1>1 DEF Ended, Turn
<1> DEFINE e == Ended(t, from, r)
<1>4. /\ e.phase = "done" /\ e.slot = NoSlot /\ e.left = t.left /\ e.last = t.last
      /\ e.from = from /\ e.gone = t.gone
      /\ e.bodies = IF t.gone THEN t.bodies \ {from} ELSE t.bodies
  BY DEF Ended, Turn
<1>5. e.bodies = IF e.gone THEN {} ELSE {e.from} \ {NoSlot}
  BY <1>4
<1> HIDE DEF e
<1>6. Connections(e)
  BY <1>2, <1>4, <1>5 DEF Connections, Busy
<1> QED
  BY <1>3, <1>6 DEF e, Sound

\* The answer under way becomes the response that is kept.
LEMMA StashedSound ==
    ASSUME NEW t, Sound(t), t.phase \in {"sent", "resent", "reauth"},
           NEW u \in {t, Received(t)}, t.phase = "reauth" \/ u = Received(t),
           NEW f \in Fates
    PROVE  Sound(Rolled(Stashed(u), f))
<1> DEFINE v == Stashed(u)
<1>1. t.slot \in Slots /\ t \in Turn
  BY SlotOfBusy DEF Busy, Sound
<1>2. u \in Turn /\ u.last = t.last /\ u.slot = t.slot /\ u.left = t.left
  BY <1>1 DEF Received, Turn
<1>3. u.bodies = {t.last, t.slot} \ {NoSlot}
  <2>1. CASE t.phase = "reauth"
    <3>1. t.bodies = {t.last, t.slot} \ {NoSlot}
      BY <2>1 DEF Sound, Connections
    <3>2. CASE u = Received(t)
      BY <1>1, <3>1, <3>2, ClineRollAssumption DEF Received, Turn
    <3> QED
      BY <3>1, <3>2
  <2>2. CASE t.phase # "reauth"
    <3>1. t.bodies = {t.last} \ {NoSlot} /\ u = Received(t)
      BY <2>2 DEF Sound, Connections
    <3> QED
      BY <1>1, <3>1, ClineRollAssumption DEF Received, Turn
  <2> QED
    BY <2>1, <2>2
<1>4. v \in Turn /\ v.slot = t.slot /\ v.last = t.slot /\ v.left = t.left
  BY <1>1, <1>2 DEF Stashed, LastCancelled, Turn
<1>5. v.bodies = {t.slot} \ {NoSlot}
  BY <1>1, <1>2, <1>3, ClineRollAssumption DEF Stashed, LastCancelled, Sound, Connections, Turn
<1>6. t.slot \notin t.left
  BY DEF Sound, Connections
<1> HIDE DEF v
<1> QED
  BY <1>1, <1>4, <1>5, <1>6, RolledSound DEF v

\* So does one that ends with the answer of its slot.
LEMMA ServedSound ==
    ASSUME NEW t, Sound(t), t.phase \in {"sent", "resent"}, NEW f \in Fates
    PROVE  Sound(ServedBy(t, f))
<1> DEFINE v == [LastCancelled(Received(t)) EXCEPT !.fate[t.slot] = f]
<1>1. t.slot \in Slots /\ t \in Turn
  BY SlotOfBusy DEF Busy, Sound
<1>2. v \in Turn /\ v.last = NoSlot /\ v.left = t.left
  BY <1>1 DEF LastCancelled, Received, Turn
<1>3. v.bodies = {t.slot} \ {NoSlot}
  BY <1>1, ClineRollAssumption DEF LastCancelled, Received, Sound, Connections, Turn
<1>4. NoSlot \notin v.left
  BY <1>1, <1>2, ClineRollAssumption DEF Turn
<1> HIDE DEF v
<1>5. Sound(Ended(v, t.slot, "served"))
  BY <1>1, <1>2, <1>3, <1>4, EndedSound DEF Results
<1> QED
  BY <1>5 DEF v, ServedBy

-----------------------------------------------------------------------------
(* The pool of logins                                                      *)

\* Each edit of the pool keeps PoolOK: new tokens,
LEMMA RenewOK ==
    ASSUME PoolOK, NEW s \in Slots, NEW g \in Logins, Renew(s, g)
    PROVE  PoolOK'
<1>1. bearer' \in [Slots -> Logins] /\ grant' \in [Slots -> Logins]
  BY DEF PoolOK, Renew
<1>2. MarksHaveLogin'
  BY DEF PoolOK, Renew, MarksHaveLogin
<1> QED
  BY <1>1, <1>2 DEF PoolOK, Renew

\* a dead grant,
LEMMA ParkOK ==
    ASSUME PoolOK, NEW s \in Slots, Park(s)
    PROVE  PoolOK'
BY DEF PoolOK, Park, MarksHaveLogin

\* a limit that was hit,
LEMMA RecordCapOK ==
    ASSUME PoolOK, NEW s \in Slots, NEW reset \in 0..MaxReset, RecordCap(s, reset)
    PROVE  PoolOK'
<1>1. cap' \in [Slots -> 0..MaxReset]
  BY DEF PoolOK, RecordCap
<1>2. MarksHaveLogin'
  BY DEF PoolOK, RecordCap, MarksHaveLogin
<1> QED
  BY <1>1, <1>2 DEF PoolOK, RecordCap

\* a request served,
LEMMA RecordServedOK ==
    ASSUME PoolOK, NEW s \in Slots, RecordServed(s)
    PROVE  PoolOK'
<1>1. 0 \in 0..MaxReset
  BY ClineRollAssumption
<1>2. cap' \in [Slots -> 0..MaxReset] /\ served' \in [Slots -> Nat]
  BY <1>1 DEF PoolOK, RecordServed
<1>3. MarksHaveLogin'
  BY ClineRollAssumption DEF PoolOK, RecordServed, MarksHaveLogin
<1> QED
  BY <1>2, <1>3 DEF PoolOK, RecordServed

\* a login,
LEMMA LoginOK ==
    ASSUME PoolOK, logins \in Logins, NEW s \in Slots, NEW device \in BOOLEAN, Login(s, device)
    PROVE  PoolOK' /\ logins' \in Logins
<1>1. logins + 1 \in Logins /\ logins' = logins + 1
  BY ClineRollAssumption DEF Login, Logins
<1>2. bearer' \in [Slots -> Logins] /\ grant' \in [Slots -> Logins]
  BY <1>1 DEF PoolOK, Login
<1>3. MarksHaveLogin'
  BY ClineRollAssumption DEF PoolOK, Login, MarksHaveLogin
<1> QED
  BY <1>1, <1>2, <1>3 DEF PoolOK, Login

\* a logout,
LEMMA LogoutOK ==
    ASSUME PoolOK, NEW s \in Slots, Logout(s)
    PROVE  PoolOK'
<1>1. 0 \in Logins /\ 0 \in 0..MaxReset
  BY ClineRollAssumption DEF Logins
<1>2. /\ bearer' \in [Slots -> Logins] /\ grant' \in [Slots -> Logins]
      /\ cap' \in [Slots -> 0..MaxReset] /\ served' \in [Slots -> Nat]
  BY <1>1 DEF PoolOK, Logout
<1>3. active' \in Slots \cup {NoSlot}
  BY DEF PoolOK, Logout
<1>4. MarksHaveLogin'
  <2>1. active' = NoSlot <=> saved' = {}
    BY ClineRollAssumption DEF PoolOK, Logout, MarksHaveLogin
  <2>2. \A x \in Slots \ saved' : x # active'
    BY ClineRollAssumption DEF PoolOK, Logout, MarksHaveLogin
  <2>3. \A x \in Slots \ saved' :
           x \notin parked' /\ cap'[x] = 0 /\ served'[x] = 0 /\ bearer'[x] = 0 /\ grant'[x] = 0
    BY DEF PoolOK, Logout, MarksHaveLogin
  <2> QED
    BY <2>1, <2>2, <2>3 DEF MarksHaveLogin
<1> QED
  BY <1>2, <1>3, <1>4 DEF PoolOK, Logout

\* the end of a park,
LEMMA ParkEndsOK ==
    ASSUME PoolOK, NEW s \in Slots, ParkEnds(s)
    PROVE  PoolOK'
BY DEF PoolOK, ParkEnds, MarksHaveLogin

\* the end of a cap,
LEMMA CapEndsOK ==
    ASSUME PoolOK, NEW s \in Slots, CapEnds(s)
    PROVE  PoolOK'
<1>1. cap' \in [Slots -> 0..MaxReset]
  BY ClineRollAssumption DEF PoolOK, CapEnds
<1> QED
  BY <1>1 DEF PoolOK, CapEnds, MarksHaveLogin

\* and no edit.
LEMMA SamePoolOK ==
    ASSUME PoolOK, UNCHANGED pool
    PROVE  PoolOK'
BY DEF PoolOK, pool, MarksHaveLogin

-----------------------------------------------------------------------------
(* The turns                                                               *)

\* A step of one turn leaves the others sound.
LEMMA TurnChanged ==
    ASSUME TurnsOK, NEW q \in Turns, NEW u, Sound(u), turn' = [turn EXCEPT ![q] = u]
    PROVE  TurnsOK'
<1>1. u \in Turn
  BY DEF Sound
<1>2. turn' \in [Turns -> Turn]
  BY <1>1 DEF TurnsOK
<1>3. \A x \in Turns : turn'[x] = IF x = q THEN u ELSE turn[x]
  BY DEF TurnsOK
<1> QED
  BY <1>2, <1>3 DEF TurnsOK

\* The next candidate is one of those left.
LEMMA PreferredLeft ==
    ASSUME NEW t \in Turn, NEW s \in Preferred(t)
    PROVE  s \in t.left /\ s \in Slots
BY DEF Preferred, Turn

\* Each action keeps the turns sound, and the pool if it edits it: the turn begins,
LEMMA BeginOK ==
    ASSUME IInv, NEW q \in Turns, Begin(q)
    PROVE  TurnsOK'
<1> DEFINE t == Snapshot(turn[q])
           r == IF saved = {} THEN "empty" ELSE "rejected"
<1>1. Sound(turn[q]) /\ turn[q] \in Turn /\ turn[q].phase = "idle"
  BY DEF IInv, TurnsOK, Sound, Begin
<1>2. t \in Turn
  BY <1>1 DEF Snapshot, Turn, IInv, PoolOK
<1>3. /\ t.phase = "pick" /\ t.last = NoSlot /\ t.slot = NoSlot /\ t.bodies = {}
      /\ t.left \subseteq Slots
  BY ZenonT(40), <1>1, <1>2 DEF Snapshot, Sound, Connections, Busy, Turn
<1>4. Sound(t)
  BY <1>2, <1>3, ClineRollAssumption DEF Sound, Connections, Busy
<1> HIDE DEF t
<1>5. Sound(Ended(t, NoSlot, r))
  BY <1>2, <1>3, EndedSound, ClineRollAssumption DEF Results
<1>6. turn' = [turn EXCEPT ![q] = IF t.left # {} THEN t ELSE Ended(t, NoSlot, r)]
  BY DEF Begin, t
<1> QED
  BY <1>4, <1>5, <1>6, TurnChanged DEF IInv

\* a candidate is tried,
LEMMA TryOK ==
    ASSUME IInv, NEW q \in Turns, Try(q)
    PROVE  TurnsOK'
<1> DEFINE t == turn[q]
<1>1. Sound(t) /\ t \in Turn /\ t.phase = "pick"
  BY DEF IInv, TurnsOK, Sound, Try
<1>2. PICK s \in Preferred(t) :
         turn' = [turn EXCEPT ![q] = Sent([t EXCEPT !.left = @ \ {s}, !.slot = s], "sent")]
  BY DEF Try
<1>3. s \in t.left /\ s \in Slots
  BY <1>1, PreferredLeft
<1> DEFINE u == [t EXCEPT !.left = @ \ {s}, !.slot = s]
<1>4. /\ u \in Turn /\ u.slot = s /\ u.left = t.left \ {s} /\ u.last = t.last
      /\ u.bodies = t.bodies
  BY <1>1, <1>3 DEF Turn
<1>5. t.last \notin t.left /\ t.bodies = {t.last} \ {NoSlot}
  BY <1>1 DEF Sound, Connections
<1> HIDE DEF u
<1>6. Sound(Sent(u, "sent"))
  BY <1>3, <1>4, <1>5, SentSound
<1> QED
  BY <1>2, <1>6, TurnChanged DEF IInv, u

\* one whose tokens are stale is refreshed first,
LEMMA TryStaleOK ==
    ASSUME IInv, NEW q \in Turns, TryStale(q)
    PROVE  TurnsOK'
<1> DEFINE t == turn[q]
<1>1. Sound(t) /\ t \in Turn /\ t.phase = "pick"
  BY DEF IInv, TurnsOK, Sound, TryStale
<1>2. PICK s \in Preferred(t) :
         turn' = [turn EXCEPT ![q] = [t EXCEPT !.left = @ \ {s}, !.slot = s, !.phase = "refresh"]]
  BY DEF TryStale
<1>3. s \in t.left /\ s \in Slots
  BY <1>1, PreferredLeft
<1> DEFINE u == [t EXCEPT !.left = @ \ {s}, !.slot = s, !.phase = "refresh"]
<1>4. /\ u \in Turn /\ u.slot = s /\ u.left = t.left \ {s} /\ u.last = t.last
      /\ u.bodies = t.bodies /\ u.phase = "refresh"
  BY <1>1, <1>3 DEF Turn
<1>5. t.last \notin t.left /\ t.bodies = {t.last} \ {NoSlot}
  BY <1>1 DEF Sound, Connections
<1> HIDE DEF u
<1>6. Sound(u)
  BY <1>3, <1>4, <1>5, ClineRollAssumption DEF Sound, Connections, Busy
<1> QED
  BY <1>2, <1>6, TurnChanged DEF IInv, u

\* The state of a turn that waits for a refresh or an answer.
LEMMA WaitingTurn ==
    ASSUME IInv, NEW q \in Turns, turn[q].phase \in Busy
    PROVE  /\ Sound(turn[q]) /\ turn[q] \in Turn
           /\ turn[q].slot \in Slots /\ turn[q].slot \notin turn[q].left
           /\ turn[q].last \notin turn[q].left /\ turn[q].last # turn[q].slot
           /\ turn[q].grant[turn[q].slot] \in Logins
<1>1. Sound(turn[q]) /\ turn[q] \in Turn
  BY DEF IInv, TurnsOK, Sound
<1>2. turn[q].slot \in Slots
  BY <1>1, SlotOfBusy
<1> QED
  BY <1>1, <1>2, ClineRollAssumption DEF Sound, Connections, Turn

\* Once the body under way is cancelled only that of the kept response is open.
LEMMA CancelledBodies ==
    ASSUME IInv, NEW q \in Turns, turn[q].phase \in {"refresh", "reauth"}
    PROVE  turn[q].bodies \ {turn[q].slot} = {turn[q].last} \ {NoSlot}
<1>1. turn[q].last # turn[q].slot /\ Sound(turn[q])
  BY WaitingTurn DEF Busy
<1>2. turn[q].bodies \in {{turn[q].last} \ {NoSlot}, {turn[q].last, turn[q].slot} \ {NoSlot}}
  BY <1>1 DEF Sound, Connections
<1> QED
  BY <1>1, <1>2

\* its refresh succeeds,
LEMMA RefreshedOK ==
    ASSUME IInv, NEW q \in Turns, Refreshed(q)
    PROVE  TurnsOK' /\ PoolOK'
<1> DEFINE t == turn[q]
           u == Cancelled(Renewed(t))
           p == IF t.phase = "refresh" THEN "sent" ELSE "resent"
<1>1. t.phase \in Busy /\ t.phase \in {"refresh", "reauth"}
  BY DEF Refreshed, Busy
<1>2. t.bodies \ {t.slot} = {t.last} \ {NoSlot}
  BY <1>1, CancelledBodies
<1> DEFINE v == Renewed(t)
<1>0. t \in Turn
  BY <1>1, WaitingTurn
<1>3. /\ v \in Turn /\ v.slot = t.slot /\ v.left = t.left /\ v.last = t.last
      /\ v.bodies = t.bodies
  BY <1>0 DEF Renewed, Turn
<1> HIDE DEF v
<1>4. /\ u \in Turn /\ u.slot = t.slot /\ u.left = t.left /\ u.last = t.last
      /\ u.bodies = {t.last} \ {NoSlot}
  BY <1>2, <1>3 DEF Cancelled, Turn, v
<1> HIDE DEF u
<1>5. Sound(Sent(u, p))
  BY <1>1, <1>3, <1>4, WaitingTurn, SentSound
<1>6. turn' = [turn EXCEPT ![q] = Sent(u, p)]
  BY DEF Refreshed, u
<1>7. PoolOK'
  BY <1>1, WaitingTurn, RenewOK DEF Refreshed, IInv
<1> QED
  BY <1>5, <1>6, <1>7, TurnChanged DEF IInv

\* or its grant is rejected,
LEMMA GrantRejectedOK ==
    ASSUME IInv, NEW q \in Turns, GrantRejected(q)
    PROVE  TurnsOK' /\ PoolOK'
<1> DEFINE t == turn[q]
           u == Cancelled(t)
<1>1. t.phase \in Busy /\ t.phase \in {"refresh", "reauth"}
  BY DEF GrantRejected, Busy
<1>2. t.bodies \ {t.slot} = {t.last} \ {NoSlot}
  BY <1>1, CancelledBodies
<1>3. u \in Turn /\ u.slot = t.slot /\ u.left = t.left /\ u.last = t.last
  BY <1>1, WaitingTurn DEF Cancelled, Turn
<1>4. u.bodies = {t.last} \ {NoSlot}
  BY <1>1, <1>2, WaitingTurn DEF Cancelled, Turn
<1> HIDE DEF u
<1>5. Sound(Rolled(u, "rejected"))
  BY <1>1, <1>3, <1>4, WaitingTurn, RolledSound DEF Fates, Failures
<1>6. turn' = [turn EXCEPT ![q] = Rolled(u, "rejected")]
  BY DEF GrantRejected, u
<1>7. PoolOK'
  BY <1>1, WaitingTurn, ParkOK DEF GrantRejected, IInv
<1> QED
  BY <1>5, <1>6, <1>7, TurnChanged DEF IInv

\* or Cline is not reached,
LEMMA RefreshFailsOK ==
    ASSUME IInv, NEW q \in Turns, RefreshFails(q)
    PROVE  TurnsOK' /\ PoolOK'
<1> DEFINE t == turn[q]
<1>1. t.phase \in Busy /\ t.phase \in {"refresh", "reauth"}
  BY DEF RefreshFails, Busy
<1>2. PoolOK'
  BY SamePoolOK DEF RefreshFails, IInv
<1>3. CASE t.phase = "refresh"
  <2>1. t.bodies = {t.last} \ {NoSlot}
    BY <1>1, <1>3, WaitingTurn DEF Sound, Connections
  <2>2. Sound(Sent(t, "sent"))
    BY <1>1, <2>1, WaitingTurn, SentSound
  <2> QED
    BY <1>2, <1>3, <2>2, TurnChanged DEF RefreshFails, IInv
<1>4. CASE t.phase = "reauth"
  <2>1. Sound(Rolled(Stashed(t), "refused"))
    BY <1>1, <1>4, WaitingTurn, StashedSound DEF Fates, Failures
  <2>2. turn' = [turn EXCEPT ![q] = Rolled(Stashed(t), "refused")]
    BY <1>4 DEF RefreshFails
  <2> QED
    BY <1>2, <2>1, <2>2, TurnChanged DEF IInv
<1> QED
  BY <1>1, <1>3, <1>4

\* a request fails on the way,
LEMMA SendFailsOK ==
    ASSUME IInv, NEW q \in Turns, SendFails(q)
    PROVE  TurnsOK' /\ PoolOK'
<1> DEFINE t == turn[q]
<1>1. t.phase \in Busy /\ t.phase \in {"sent", "resent"}
  BY DEF SendFails, Busy
<1>2. t.bodies = {t.last} \ {NoSlot}
  BY <1>1, WaitingTurn DEF Sound, Connections
<1>3. Sound(Rolled(t, "fault"))
  BY <1>1, <1>2, WaitingTurn, RolledSound DEF Fates, Failures
<1>4. PoolOK'
  BY SamePoolOK DEF SendFails, IInv
<1> QED
  BY <1>3, <1>4, TurnChanged DEF SendFails, IInv

\* or is answered,
LEMMA AnswerOK ==
    ASSUME IInv, NEW q \in Turns, Answer(q)
    PROVE  TurnsOK' /\ PoolOK'
<1> DEFINE t == turn[q]
<1>1. t.phase \in Busy /\ t.phase \in {"sent", "resent"}
  BY DEF Answer, Succeeds, ClientError, Unauthorized, Refused, MaskedCap, Capped, Busy
<1>2. /\ Sound(t) /\ t \in Turn /\ t.slot \in Slots /\ t.slot \notin t.left
      /\ t.last \notin t.left /\ t.last # t.slot
  BY <1>1, WaitingTurn
<1>3. ASSUME NEW f \in {"served", "masked"} PROVE Sound(ServedBy(t, f))
  BY <1>1, <1>2, ServedSound DEF Fates
<1>4. ASSUME NEW f \in Failures PROVE Sound(Rolled(Stashed(Received(t)), f))
  BY <1>1, <1>2, StashedSound DEF Fates
<1>5. Sound([Received(t) EXCEPT !.phase = "reauth"])
  <2> DEFINE u == [Received(t) EXCEPT !.phase = "reauth"]
  <2>1. /\ u \in Turn /\ u.phase = "reauth" /\ u.slot = t.slot /\ u.left = t.left
        /\ u.last = t.last /\ u.bodies = t.bodies \cup {t.slot}
    BY <1>2 DEF Received, Turn
  <2>2. u.bodies = {u.last, u.slot} \ {NoSlot}
    BY <1>1, <1>2, <2>1, ClineRollAssumption DEF Sound, Connections
  <2> HIDE DEF u
  <2>3. Sound(u)
    BY <1>2, <2>1, <2>2, ClineRollAssumption DEF Sound, Connections, Busy
  <2> QED
    BY <2>3 DEF u
<1>6. CASE Succeeds(q)
  BY <1>2, <1>3, <1>6, RecordServedOK, TurnChanged DEF Succeeds, IInv
<1>7. CASE ClientError(q)
  BY <1>3, <1>7, SamePoolOK, TurnChanged DEF ClientError, IInv
<1>8. CASE Unauthorized(q)
  <2>1. PoolOK'
    BY <1>8, SamePoolOK DEF Unauthorized, IInv
  <2>2. CASE MayRefresh(t)
    BY <1>5, <1>8, <2>1, <2>2, TurnChanged DEF Unauthorized, IInv
  <2>3. CASE ~MayRefresh(t)
    BY <1>4, <1>8, <2>1, <2>3, TurnChanged DEF Unauthorized, IInv, Failures
  <2> QED
    BY <2>2, <2>3
<1>9. CASE Refused(q)
  BY <1>4, <1>9, SamePoolOK, TurnChanged DEF Refused, IInv, Failures
<1>10. CASE MaskedCap(q)
  BY <1>2, <1>3, <1>10, RecordServedOK, TurnChanged DEF MaskedCap, IInv
<1>11. CASE \E reset \in 0..MaxReset : Capped(q, reset)
  BY <1>2, <1>4, <1>11, RecordCapOK, TurnChanged DEF Capped, IInv, Failures
<1> QED
  BY <1>6, <1>7, <1>8, <1>9, <1>10, <1>11 DEF Answer

\* no candidate is left,
LEMMA ExhaustedOK ==
    ASSUME IInv, NEW q \in Turns, Exhausted(q)
    PROVE  TurnsOK'
<1> DEFINE t == turn[q]
           all == AllLeft(t, "capped")
           r == IF AllLeft(t, "rejected") THEN "rejected" ELSE "unreachable"
<1>1. /\ Sound(t) /\ t \in Turn /\ t.last \notin t.left /\ t.bodies = {t.last} \ {NoSlot}
      /\ t.last \in Slots \cup {NoSlot}
  BY DEF IInv, TurnsOK, Sound, Exhausted, Connections, Turn
<1>2. CASE t.last # NoSlot
  <2> DEFINE e == Ended(t, t.last, "failed")
             u == [e EXCEPT !.limitOnly = all]
  <2>1. Sound(e)
    BY <1>1, EndedSound DEF Results
  <2>2. all \in BOOLEAN
    BY DEF AllLeft
  <2>3. turn' = [turn EXCEPT ![q] = u]
    BY <1>2 DEF Exhausted
  <2> HIDE DEF e, all
  <2>4. u \in Turn
    BY <2>1, <2>2 DEF Sound, Turn
  <2>5. /\ u.phase = e.phase /\ u.slot = e.slot /\ u.left = e.left /\ u.last = e.last
        /\ u.bodies = e.bodies /\ u.gone = e.gone /\ u.from = e.from
    BY <2>1 DEF Sound, Turn
  <2>6. Sound(u)
    BY <2>1, <2>4, <2>5 DEF Sound, Connections
  <2> QED
    BY <2>3, <2>6, TurnChanged DEF IInv
<1>3. CASE t.last = NoSlot
  <2>1. Sound(Ended(t, NoSlot, r))
    BY <1>1, <1>3, EndedSound DEF Results
  <2>2. turn' = [turn EXCEPT ![q] = Ended(t, NoSlot, r)]
    BY <1>3 DEF Exhausted
  <2> QED
    BY <2>1, <2>2, TurnChanged DEF IInv
<1> QED
  BY <1>2, <1>3

\* and the caller gives up.
LEMMA CallerGoneOK ==
    ASSUME IInv, NEW q \in Turns, CallerGone(q)
    PROVE  TurnsOK'
<1> DEFINE t == turn[q]
           u == [t EXCEPT !.gone = TRUE]
<1>1. Sound(t) /\ t \in Turn /\ t.phase # "done"
  BY DEF IInv, TurnsOK, Sound, CallerGone
<1>2. u \in Turn /\ u.phase = t.phase /\ u.slot = t.slot /\ u.left = t.left /\ u.last = t.last
      /\ u.bodies = t.bodies
  BY <1>1 DEF Turn
<1>3. Sound(u)
  BY <1>1, <1>2 DEF Sound, Connections
<1> QED
  BY <1>3, TurnChanged DEF CallerGone, IInv

-----------------------------------------------------------------------------
(* The keep-alive                                                          *)

\* The keep-alive keeps itself and the pool in order.
LEMMA KeepOK ==
    ASSUME IInv, Keep
    PROVE  KeeperOK' /\ PoolOK'
<1>1. KeeperOK /\ keeper \in Keeper /\ PoolOK
  BY DEF IInv, KeeperOK
<1>2. Asleep.grant \in [Slots -> Logins]
  BY ClineRollAssumption DEF Asleep, Logins
<1>3. KeeperDone \in Keeper /\ KeeperDone.phase # "refresh"
  BY <1>1, <1>2 DEF KeeperDone, Keeper
<1>4. keeper.phase = "refresh" => keeper.slot \in Slots /\ keeper.grant[keeper.slot] \in Logins
  BY <1>1 DEF KeeperOK, Keeper
<1>5. CASE KeeperStarts
  BY <1>1, <1>5, SamePoolOK DEF KeeperStarts, KeeperOK, Keeper, PoolOK
<1>6. CASE KeeperRefreshed
  BY <1>1, <1>3, <1>4, <1>6, RenewOK DEF KeeperRefreshed, KeeperOK
<1>7. CASE KeeperRejected \/ KeeperFails
  BY <1>1, <1>3, <1>4, <1>7, ParkOK DEF KeeperRejected, KeeperFails, KeeperOK
<1>8. ASSUME NEW s \in Slots, KeeperPasses(s) PROVE KeeperOK' /\ PoolOK'
  <2>1. PoolOK'
    BY <1>1, <1>8, SamePoolOK DEF KeeperPasses
  <2>2. keeper' \in Keeper /\ keeper'.phase # "refresh"
    BY <1>1, <1>2, <1>8 DEF KeeperPasses, Keeper
  <2> QED
    BY <2>1, <2>2 DEF KeeperOK
<1>9. ASSUME NEW s \in Slots, KeeperRefreshes(s) PROVE KeeperOK' /\ PoolOK'
  <2>1. PoolOK'
    BY <1>1, <1>9, SamePoolOK DEF KeeperRefreshes
  <2>2. keeper' \in Keeper /\ keeper'.slot = s
    BY <1>1, <1>9 DEF KeeperRefreshes, Keeper
  <2> QED
    BY <1>9, <2>1, <2>2 DEF KeeperOK
<1> QED
  BY <1>5, <1>6, <1>7, <1>8, <1>9 DEF Keep

-----------------------------------------------------------------------------
(* The invariant                                                           *)

\* The invariant holds at the start, with any logins in the pool.
LEMMA InitIInv == Init => IInv
<1> SUFFICES ASSUME Init PROVE IInv
  OBVIOUS
<1>1. IsFiniteSet(saved) /\ Cardinality(saved) \in Nat
  BY ClineRollAssumption, FS_Subset, FS_CardinalityType DEF Init
<1>2. logins \in Logins
  BY <1>1, ClineRollAssumption DEF Init, Logins
<1>3. PICK device \in SUBSET saved, number \in [saved -> 1..Cardinality(saved)] :
         /\ bearer = [s \in Slots |-> IF s \in saved THEN number[s] ELSE 0]
         /\ grant = [s \in Slots |-> IF s \in device THEN number[s] ELSE 0]
  BY DEF Init
<1>4. \A s \in saved : number[s] \in Logins
  BY <1>1, <1>2, <1>3, ClineRollAssumption DEF Init, Logins
<1>5. /\ bearer \in [Slots -> Logins] /\ grant \in [Slots -> Logins]
      /\ \A s \in Slots \ saved : bearer[s] = 0 /\ grant[s] = 0
  BY <1>3, <1>4, ClineRollAssumption DEF Logins
<1>6. PoolOK
  BY <1>5, ClineRollAssumption DEF Init, PoolOK, MarksHaveLogin
<1>7. TurnsOK
  BY IdleSound DEF Init, TurnsOK, Sound
<1>8. KeeperOK
  BY ClineRollAssumption DEF Init, KeeperOK, Keeper, Asleep, Logins
<1> QED
  BY <1>2, <1>6, <1>7, <1>8 DEF IInv

\* Every step keeps it.
LEMMA NextIInv == IInv /\ [Next]_vars => IInv'
<1> SUFFICES ASSUME IInv, [Next]_vars PROVE IInv'
  OBVIOUS
<1>1. ASSUME NEW q \in Turns, Step(q) PROVE IInv'
  <2>1. UNCHANGED <<logins, keeper>>
    BY <1>1 DEF Step, Begin, Try, TryStale, Refreshed, GrantRejected, RefreshFails, SendFails,
                Answer, Succeeds, ClientError, Unauthorized, Refused, MaskedCap, Capped, Exhausted
  <2>2. CASE Begin(q) \/ Try(q) \/ TryStale(q) \/ Exhausted(q)
    <3>1. PoolOK'
      BY <2>2, SamePoolOK DEF IInv, Begin, Try, TryStale, Exhausted
    <3> QED
      BY <2>1, <2>2, <3>1, BeginOK, TryOK, TryStaleOK, ExhaustedOK DEF IInv, KeeperOK
  <2>3. CASE \/ Refreshed(q) \/ GrantRejected(q) \/ RefreshFails(q) \/ SendFails(q)
             \/ Answer(q)
    BY <2>1, <2>3, RefreshedOK, GrantRejectedOK, RefreshFailsOK, SendFailsOK, AnswerOK
       DEF IInv, KeeperOK
  <2> QED
    BY <1>1, <2>2, <2>3 DEF Step
<1>2. ASSUME NEW q \in Turns, CallerGone(q) PROVE IInv'
  <2>1. PoolOK'
    BY <1>2, SamePoolOK DEF CallerGone, IInv
  <2> QED
    BY <1>2, <2>1, CallerGoneOK DEF CallerGone, IInv, KeeperOK
<1>3. CASE Keep
  <2>1. UNCHANGED <<logins, turn>>
    BY <1>3 DEF Keep, KeeperStarts, KeeperRefreshed, KeeperRejected, KeeperFails, KeeperPasses,
                KeeperRefreshes
  <2> QED
    BY <1>3, <2>1, KeepOK DEF IInv, TurnsOK
<1>4. ASSUME NEW s \in Slots, NEW device \in BOOLEAN, Login(s, device) PROVE IInv'
  BY <1>4, LoginOK DEF Login, IInv, TurnsOK, KeeperOK
<1>5. ASSUME NEW s \in Slots, Logout(s) PROVE IInv'
  BY <1>5, LogoutOK DEF Logout, IInv, TurnsOK, KeeperOK
<1>6. ASSUME NEW s \in Slots, ParkEnds(s) PROVE IInv'
  BY <1>6, ParkEndsOK DEF ParkEnds, IInv, TurnsOK, KeeperOK
<1>7. ASSUME NEW s \in Slots, CapEnds(s) PROVE IInv'
  BY <1>7, CapEndsOK DEF CapEnds, IInv, TurnsOK, KeeperOK
<1>8. CASE UNCHANGED vars
  <2>1. PoolOK'
    BY <1>8, SamePoolOK DEF vars, IInv
  <2> QED
    BY <1>8, <2>1 DEF vars, IInv, TurnsOK, KeeperOK
<1> QED
  BY <1>1, <1>2, <1>3, <1>4, <1>5, <1>6, <1>7, <1>8 DEF Next

\* It holds of every reachable state.
LEMMA Invariant == Spec => []IInv
BY InitIInv, NextIInv, PTL DEF Spec

\* Every value keeps its type (the state of the pool file, the turns of
\* src/cline-roll.ts and the keep-alive of src/cline-accounts.ts).
THEOREM TypeCorrect == Spec => []TypeOK
<1>1. IInv => TypeOK
  BY DEF IInv, PoolOK, TurnsOK, KeeperOK, TypeOK
<1> QED
  BY <1>1, Invariant, PTL

\* No cap, park, count or credential outlives the login it belongs to, however
\* many turns record what they learnt after a logout (src/cline-pool.ts).
THEOREM MarksSafe == Spec => []MarksHaveLogin
<1>1. IInv => MarksHaveLogin
  BY DEF IInv, PoolOK
<1> QED
  BY <1>1, Invariant, PTL

\* A turn that is over leaves no connection open but that of the response it
\* returns to a caller who is still there (src/cline-roll.ts, rollChat).
THEOREM BodiesSafe == Spec => []BodiesReleased
<1>1. IInv => BodiesReleased
  BY DEF IInv, TurnsOK, Sound, Connections, BodiesReleased
<1> QED
  BY <1>1, Invariant, PTL

\* A login that was removed only comes back by a login (src/cline-pool.ts).
THEOREM LogoutSafe == Spec => LogoutHolds
<1>1. IInv /\ [Next]_vars => [saved' \subseteq saved \/ logins' > logins]_vars
  <2> SUFFICES ASSUME IInv, Next PROVE saved' \subseteq saved \/ logins' > logins
    BY DEF vars, pool
  <2>1. ASSUME NEW q \in Turns, Step(q) \/ CallerGone(q) PROVE UNCHANGED saved
    BY <2>1 DEF Step, Begin, Try, TryStale, Refreshed, GrantRejected, RefreshFails, SendFails,
                Answer, Succeeds, ClientError, Unauthorized, Refused, MaskedCap, Capped, Exhausted,
                CallerGone, Renew, Park, RecordCap, RecordServed, pool
  <2>2. CASE Keep
    BY <2>2 DEF Keep, KeeperStarts, KeeperRefreshed, KeeperRejected, KeeperFails, KeeperPasses,
                KeeperRefreshes, Renew, Park, pool
  <2>3. ASSUME NEW s \in Slots, NEW device \in BOOLEAN, Login(s, device) PROVE logins' > logins
    BY <2>3, ClineRollAssumption DEF Login, IInv, Logins
  <2>4. ASSUME NEW s \in Slots, Logout(s) \/ ParkEnds(s) \/ CapEnds(s)
        PROVE  saved' \subseteq saved
    BY <2>4 DEF Logout, ParkEnds, CapEnds
  <2> QED
    BY <2>1, <2>2, <2>3, <2>4 DEF Next
<1> QED
  BY <1>1, Invariant, PTL DEF Spec, LogoutHolds

-----------------------------------------------------------------------------
(* How far a turn has come                                                 *)

\* RollComplete, of one turn.
Complete(t) ==
    /\ t.result \in {"failed", "rejected", "unreachable"} =>
           \A s \in t.candidates : t.fate[s] \in Failures
    /\ t.result = "served" => t.fate[t.from] \in {"served", "masked"}
    /\ \A s \in Slots : t.sent[s] <= 2

\* What a turn has left behind has failed, and what it has yet to try was sent nothing.
Tried(t) ==
    /\ t.left \subseteq t.candidates
    /\ \A s \in t.left : t.sent[s] = 0
    /\ \A s \in Slots : t.sent[s] <= 2
    /\ \A s \in t.candidates \ (t.left \cup {t.slot}) : t.fate[s] \in Failures
    /\ t.result = "none"

\* The candidate under way is sent the request a second time only once it was refreshed.
Rolling(t) ==
    /\ t.phase = "idle" => t.result = "none" /\ \A s \in Slots : t.sent[s] = 0
    /\ t.phase \notin {"idle", "done"} => Tried(t)
    /\ t.phase = "refresh" => t.sent[t.slot] = 0
    /\ t.phase \in {"sent", "reauth"} => t.sent[t.slot] <= 1
    /\ t.phase = "resent" => t.refreshed
    /\ Complete(t)

\* A turn with the same candidates, which have come as far.
Alike(t, u) ==
    /\ u \in Turn
    /\ u.slot = t.slot /\ u.left = t.left /\ u.candidates = t.candidates /\ u.sent = t.sent
    /\ u.fate = t.fate /\ u.result = t.result

\* What becomes of bodies is not about the candidates.
LEMMA AlikeFacts ==
    ASSUME NEW t \in Turn, t.slot \in Slots
    PROVE  /\ Alike(t, Received(t)) /\ Received(t).refreshed = t.refreshed
           /\ Alike(t, Cancelled(t)) /\ Cancelled(t).refreshed = t.refreshed
           /\ Alike(t, LastCancelled(t)) /\ Alike(t, Stashed(t))
           /\ Alike(t, Renewed(t)) /\ Renewed(t).refreshed = TRUE
<1>1. Alike(t, Received(t)) /\ Received(t).refreshed = t.refreshed
  BY DEF Alike, Received, Turn
<1>2. Alike(t, Cancelled(t)) /\ Cancelled(t).refreshed = t.refreshed
  BY DEF Alike, Cancelled, Turn
<1>3. Alike(t, LastCancelled(t))
  BY DEF Alike, LastCancelled, Turn
<1>4. Alike(t, Stashed(t))
  <2>1. LastCancelled(t) \in Turn
    BY <1>3 DEF Alike
  <2>2. [LastCancelled(t) EXCEPT !.last = t.slot] \in Turn
    BY <2>1 DEF Turn
  <2> QED
    BY <1>3, <2>1, <2>2 DEF Alike, Stashed, Turn
<1>5. Alike(t, Renewed(t)) /\ Renewed(t).refreshed = TRUE
  BY DEF Alike, Renewed, Turn
<1> QED
  BY <1>1, <1>2, <1>3, <1>4, <1>5

\* So it has no bearing on what was tried, nor has one likeness after another.
LEMMA AlikeTried ==
    ASSUME NEW t, NEW u, Alike(t, u), Tried(t)
    PROVE  Tried(u)
BY DEF Alike, Tried

\* What is alike twice is alike.
LEMMA AlikeTwice ==
    ASSUME NEW t, NEW u, NEW v, Alike(t, u), Alike(u, v)
    PROVE  Alike(t, v)
BY DEF Alike

\* A turn that rolls on has one more failure behind it.
LEMMA RolledRolling ==
    ASSUME NEW t \in Turn, t.slot \in Slots, t.slot \notin t.left, Tried(t), NEW f \in Failures
    PROVE  Rolling(Rolled(t, f))
<1> DEFINE u == Rolled(t, f)
<1>1. /\ u.phase = "pick" /\ u.slot = NoSlot /\ u.left = t.left /\ u.candidates = t.candidates
      /\ u.sent = t.sent /\ u.result = t.result
      /\ u.fate = [t.fate EXCEPT ![t.slot] = f]
  BY DEF Rolled, Turn
<1>2. \A s \in Slots : u.fate[s] = IF s = t.slot THEN f ELSE t.fate[s]
  BY <1>1 DEF Turn
<1>3. t.candidates \subseteq Slots
  BY DEF Turn
<1> HIDE DEF u
<1>4. Tried(u)
  BY <1>1, <1>2, <1>3 DEF Tried
<1> QED
  BY <1>1, <1>4 DEF Rolling, Complete, Tried, u

\* A request is sent at first, or again after a refresh.
LEMMA SentRolling ==
    ASSUME NEW t \in Turn, t.slot \in Slots, t.slot \notin t.left, Tried(t),
           NEW p \in {"sent", "resent"}, t.sent[t.slot] <= IF p = "sent" THEN 0 ELSE 1,
           p = "resent" => t.refreshed
    PROVE  Rolling(Sent(t, p))
<1>1. CASE t.gone
  BY <1>1, RolledRolling DEF Sent, Failures
<1>2. CASE ~t.gone
  <2> DEFINE n == [t.sent EXCEPT ![t.slot] = @ + 1]
             u == [t EXCEPT !.phase = p, !.sent[t.slot] = @ + 1]
  <2>1. \A s \in Slots : t.sent[s] \in Nat
    BY DEF Turn
  <2>2. \A s \in Slots : n[s] = IF s = t.slot THEN t.sent[s] + 1 ELSE t.sent[s]
    BY DEF Turn
  <2>3. /\ u.phase = p /\ u.slot = t.slot /\ u.left = t.left /\ u.candidates = t.candidates
        /\ u.sent = n /\ u.result = t.result /\ u.fate = t.fate /\ u.refreshed = t.refreshed
    BY DEF Turn
  <2>4. t.candidates \subseteq Slots /\ t.left \subseteq Slots
    BY DEF Turn
  <2> HIDE DEF n, u
  <2>5. n[t.slot] <= IF p = "sent" THEN 1 ELSE 2
    BY <2>1, <2>2
  <2>6. \A s \in Slots : n[s] <= 2
    BY <2>1, <2>2, <2>5 DEF Tried
  <2>7. \A s \in t.left : n[s] = 0
    BY <2>2, <2>4 DEF Tried
  <2>8. Tried(u)
    BY <2>3, <2>6, <2>7 DEF Tried
  <2>9. Complete(u)
    BY <2>3, <2>6 DEF Complete, Tried
  <2>10. Rolling(u)
    BY <2>3, <2>5, <2>8, <2>9 DEF Rolling
  <2> QED
    BY <1>2, <2>10 DEF Sent, u
<1> QED
  BY <1>1, <1>2

\* A turn that ends does so without further requests.
LEMMA EndedRolling ==
    ASSUME NEW t \in Turn, NEW from, NEW r, \A s \in Slots : t.sent[s] <= 2,
           r \in {"failed", "rejected", "unreachable"} =>
              \A s \in t.candidates : t.fate[s] \in Failures,
           r = "served" => t.fate[from] \in {"served", "masked"}
    PROVE  Rolling(Ended(t, from, r))
<1> DEFINE e == Ended(t, from, r)
<1>1. /\ e.phase = "done" /\ e.result = r /\ e.from = from /\ e.candidates = t.candidates
      /\ e.fate = t.fate /\ e.sent = t.sent
  BY DEF Ended, Turn
<1> QED
  BY <1>1 DEF Rolling, Complete

\* A turn that is served was served by a login that failed nothing.
LEMMA ServedRolling ==
    ASSUME NEW t \in Turn, t.slot \in Slots, Tried(t), NEW f \in {"served", "masked"}
    PROVE  Rolling(ServedBy(t, f))
<1> DEFINE l == LastCancelled(Received(t))
           v == [l EXCEPT !.fate[t.slot] = f]
<1>1. Alike(t, Received(t))
  BY AlikeFacts
<1>2. Alike(Received(t), l)
  BY <1>1, AlikeFacts DEF Alike
<1>3. Alike(t, l) /\ f \in Fates
  BY <1>1, <1>2, AlikeTwice DEF Fates
<1> HIDE DEF l
<1>4. v \in Turn /\ v.sent = t.sent /\ v.fate[t.slot] = f
  BY <1>3 DEF Alike, Turn
<1> HIDE DEF v
<1>5. Rolling(Ended(v, t.slot, "served"))
  BY <1>4, EndedRolling DEF Tried
<1> QED
  BY <1>5 DEF ServedBy, v, l

TurnsRoll == \A q \in Turns : Rolling(turn[q])

\* One turn at a time.
LEMMA RollChanged ==
    ASSUME IInv, TurnsRoll, NEW q \in Turns, NEW u, Rolling(u), turn' = [turn EXCEPT ![q] = u]
    PROVE  TurnsRoll'
<1>1. \A x \in Turns : turn'[x] = IF x = q THEN u ELSE turn[x]
  BY DEF IInv, TurnsOK
<1> QED
  BY <1>1 DEF TurnsRoll

\* A turn begins with all of its candidates untried.
LEMMA BeginRolls ==
    ASSUME IInv, TurnsRoll, NEW q \in Turns, Begin(q)
    PROVE  TurnsRoll'
<1> DEFINE t == Snapshot(turn[q])
           r == IF saved = {} THEN "empty" ELSE "rejected"
<1>1. turn[q] \in Turn /\ turn[q].phase = "idle" /\ Rolling(turn[q]) /\ turn[q].slot = NoSlot
  BY DEF IInv, TurnsOK, TurnsRoll, Begin, Sound, Connections, Busy
<1>2. t \in Turn
  <2>1. saved \subseteq Slots /\ grant \in [Slots -> Logins] /\ active \in Slots \cup {NoSlot}
    BY DEF IInv, PoolOK
  <2>2. /\ saved \ parked \in SUBSET Slots
        /\ {s \in saved \ parked : cap[s] > 0} \in SUBSET Slots
    BY <2>1
  <2>3. ASSUME NEW C \in SUBSET Slots, NEW D \in SUBSET Slots,
               NEW lead \in Slots \cup {NoSlot}, NEW g \in [Slots -> Logins],
               NEW v \in Turn
        PROVE  [v EXCEPT !.phase = "pick", !.candidates = C, !.left = C, !.capped = D,
                         !.lead = lead, !.grant = g] \in Turn
    BY ZenonT(40) DEF Turn
  <2> QED
    BY <1>1, <2>1, <2>2, <2>3 DEF Snapshot
<1>3. /\ t.phase = "pick" /\ t.candidates = t.left /\ t.sent = turn[q].sent
      /\ t.result = turn[q].result /\ t.left \subseteq Slots
  BY <1>1, <1>2 DEF Snapshot, Turn
<1> HIDE DEF t
<1>4. Rolling(t)
  BY <1>1, <1>3 DEF Rolling, Tried, Complete
<1>5. t.left = {} => Rolling(Ended(t, NoSlot, r))
  <2>1. (\A s \in Slots : t.sent[s] <= 2) /\ r # "served"
    BY <1>4 DEF Rolling, Complete
  <2> QED
    BY <1>2, <1>3, <2>1, EndedRolling
<1>6. turn' = [turn EXCEPT ![q] = IF t.left # {} THEN t ELSE Ended(t, NoSlot, r)]
  BY DEF Begin, t
<1> QED
  BY <1>4, <1>5, <1>6, RollChanged

\* Of a candidate that is tried, and of no other, the fate is open.
LEMMA TryRolls ==
    ASSUME IInv, TurnsRoll, NEW q \in Turns, Try(q) \/ TryStale(q)
    PROVE  TurnsRoll'
<1> DEFINE t == turn[q]
<1>1. t \in Turn /\ t.phase = "pick" /\ Rolling(t) /\ t.slot = NoSlot
  BY DEF IInv, TurnsOK, TurnsRoll, Try, TryStale, Sound, Connections, Busy
<1>2. PICK s \in Preferred(t) :
         turn' \in {[turn EXCEPT ![q] = Sent([t EXCEPT !.left = @ \ {s}, !.slot = s], "sent")],
                    [turn EXCEPT ![q] = [t EXCEPT !.left = @ \ {s}, !.slot = s, !.phase = "refresh"]]}
  BY DEF Try, TryStale
<1>3. s \in t.left /\ s \in Slots
  BY <1>1, PreferredLeft
<1> DEFINE u == [t EXCEPT !.left = @ \ {s}, !.slot = s]
           v == [t EXCEPT !.left = @ \ {s}, !.slot = s, !.phase = "refresh"]
<1>4. /\ u \in Turn /\ u.slot = s /\ u.left = t.left \ {s} /\ u.candidates = t.candidates
      /\ u.sent = t.sent /\ u.fate = t.fate /\ u.result = t.result
  BY ZenonT(40), <1>1, <1>3 DEF Turn
<1>5. /\ v.slot = s /\ v.left = t.left \ {s} /\ v.candidates = t.candidates
      /\ v.sent = t.sent /\ v.fate = t.fate /\ v.result = t.result /\ v.phase = "refresh"
  BY <1>1 DEF Turn
<1>6. Tried(t) /\ t.candidates \subseteq Slots
  BY <1>1 DEF Rolling, Turn
<1> HIDE DEF u, v
<1>7. Tried(u) /\ Tried(v) /\ t.sent[s] = 0
  BY <1>1, <1>3, <1>4, <1>5, <1>6, ClineRollAssumption DEF Tried
<1>8. Rolling(Sent(u, "sent"))
  BY <1>3, <1>4, <1>7, SentRolling
<1>9. Rolling(v)
  BY <1>3, <1>5, <1>7 DEF Rolling, Complete, Tried
<1> QED
  BY <1>2, <1>8, <1>9, RollChanged DEF u, v

\* A candidate under way.
LEMMA UnderWay ==
    ASSUME IInv, TurnsRoll, NEW q \in Turns, turn[q].phase \in Busy
    PROVE  /\ turn[q] \in Turn /\ turn[q].slot \in Slots /\ turn[q].slot \notin turn[q].left
           /\ Tried(turn[q]) /\ Rolling(turn[q])
BY WaitingTurn DEF TurnsRoll, Rolling, Busy

\* ... is refreshed, and sent the request, or left.
LEMMA RefreshRolls ==
    ASSUME IInv, TurnsRoll, NEW q \in Turns, Refreshed(q) \/ GrantRejected(q) \/ RefreshFails(q)
    PROVE  TurnsRoll'
<1> DEFINE t == turn[q]
           r == Renewed(t)
           u == Cancelled(r)
           c == Cancelled(t)
           s == Stashed(t)
<1>1. t.phase \in {"refresh", "reauth"}
  BY DEF Refreshed, GrantRejected, RefreshFails
<1>2. t \in Turn /\ t.slot \in Slots /\ t.slot \notin t.left /\ Tried(t) /\ Rolling(t)
  BY <1>1, UnderWay DEF Busy
<1>3. Alike(t, r) /\ r.refreshed = TRUE /\ Alike(t, c) /\ Alike(t, s)
  BY <1>2, AlikeFacts
<1>4. Alike(t, u) /\ u.refreshed = TRUE
  <2>1. r \in Turn /\ r.slot \in Slots
    BY <1>2, <1>3 DEF Alike
  <2> HIDE DEF r
  <2>2. Alike(r, u) /\ u.refreshed = r.refreshed
    BY <2>1, AlikeFacts
  <2> QED
    BY <1>3, <2>2, AlikeTwice
<1>5. t.sent[t.slot] <= IF t.phase = "refresh" THEN 0 ELSE 1
  BY <1>1, <1>2 DEF Rolling
<1> HIDE DEF u, c, s
<1>6. CASE Refreshed(q)
  <2> DEFINE p == IF t.phase = "refresh" THEN "sent" ELSE "resent"
  <2>1. Rolling(Sent(u, p))
    <3>1. u \in Turn /\ u.slot \in Slots /\ u.slot \notin u.left /\ Tried(u)
          /\ u.sent[u.slot] = t.sent[t.slot]
      BY <1>2, <1>4, AlikeTried DEF Alike
    <3>2. CASE t.phase = "refresh"
      BY <1>5, <3>1, <3>2, SentRolling
    <3>3. CASE t.phase = "reauth"
      BY <1>4, <1>5, <3>1, <3>3, SentRolling
    <3> QED
      BY <1>1, <3>2, <3>3
  <2>2. turn' = [turn EXCEPT ![q] = Sent(u, p)]
    BY <1>6 DEF Refreshed, u
  <2> QED
    BY <2>1, <2>2, RollChanged
<1>7. CASE GrantRejected(q)
  <2>1. Rolling(Rolled(c, "rejected"))
    BY <1>2, <1>3, AlikeTried, RolledRolling DEF Alike, Failures
  <2>2. turn' = [turn EXCEPT ![q] = Rolled(c, "rejected")]
    BY <1>7 DEF GrantRejected, c
  <2> QED
    BY <2>1, <2>2, RollChanged
<1>8. CASE RefreshFails(q)
  <2>1. CASE t.phase = "refresh"
    <3>1. Rolling(Sent(t, "sent"))
      BY <1>2, <1>5, <2>1, SentRolling
    <3>2. turn' = [turn EXCEPT ![q] = Sent(t, "sent")]
      BY <1>8, <2>1 DEF RefreshFails
    <3> QED
      BY <3>1, <3>2, RollChanged
  <2>2. CASE t.phase # "refresh"
    <3>1. Rolling(Rolled(s, "refused"))
      BY <1>2, <1>3, AlikeTried, RolledRolling DEF Alike, Failures
    <3>2. turn' = [turn EXCEPT ![q] = Rolled(s, "refused")]
      BY <1>8, <2>2 DEF RefreshFails, s
    <3> QED
      BY <3>1, <3>2, RollChanged
  <2> QED
    BY <2>1, <2>2
<1> QED
  BY <1>6, <1>7, <1>8

\* ... answers, and is left, refreshed once, or the one that served.
LEMMA AnswerRolls ==
    ASSUME IInv, TurnsRoll, NEW q \in Turns, Answer(q) \/ SendFails(q)
    PROVE  TurnsRoll'
<1> DEFINE t == turn[q]
           r == Received(t)
           s == Stashed(r)
           a == [r EXCEPT !.phase = "reauth"]
<1>1. t.phase \in {"sent", "resent"}
  BY DEF Answer, SendFails, Succeeds, ClientError, Unauthorized, Refused, MaskedCap, Capped
<1>2. t \in Turn /\ t.slot \in Slots /\ t.slot \notin t.left /\ Tried(t) /\ Rolling(t)
  BY <1>1, UnderWay DEF Busy
<1>3. Alike(t, r)
  BY <1>2, AlikeFacts
<1>4. Alike(t, s)
  <2>1. r \in Turn /\ r.slot \in Slots
    BY <1>2, <1>3 DEF Alike
  <2> HIDE DEF r
  <2>2. Alike(r, s)
    BY <2>1, AlikeFacts
  <2> QED
    BY <1>3, <2>2, AlikeTwice
<1> HIDE DEF r
<1>5. MayRefresh(t) => Rolling(a)
  <2>1. Alike(t, a) /\ a.phase = "reauth"
    BY <1>3 DEF Alike, Turn
  <2>2. MayRefresh(t) => t.sent[t.slot] <= 1
    BY <1>1, <1>2 DEF Rolling, MayRefresh
  <2> QED
    BY <1>2, <2>1, <2>2, AlikeTried DEF Alike, Rolling, Complete, Tried
<1> HIDE DEF s, a
<1>6. ASSUME NEW f \in Failures PROVE Rolling(Rolled(s, f))
  BY <1>2, <1>4, AlikeTried, RolledRolling DEF Alike
<1>7. Rolling(Rolled(t, "fault"))
  BY <1>2, RolledRolling DEF Failures
<1>8. ASSUME NEW f \in {"served", "masked"} PROVE Rolling(ServedBy(t, f))
  BY <1>2, ServedRolling
<1>9. \/ MayRefresh(t) /\ turn' = [turn EXCEPT ![q] = a]
      \/ \E f \in Failures : turn' = [turn EXCEPT ![q] = Rolled(s, f)]
      \/ turn' = [turn EXCEPT ![q] = Rolled(t, "fault")]
      \/ \E f \in {"served", "masked"} : turn' = [turn EXCEPT ![q] = ServedBy(t, f)]
  BY DEF Answer, SendFails, Succeeds, ClientError, Unauthorized, Refused, MaskedCap, Capped,
         Failures, a, s, r
<1> QED
  BY <1>5, <1>6, <1>7, <1>8, <1>9, RollChanged

\* Nothing is left to try.
LEMMA ExhaustedRolls ==
    ASSUME IInv, TurnsRoll, NEW q \in Turns, Exhausted(q)
    PROVE  TurnsRoll'
<1> DEFINE t == turn[q]
           all == AllLeft(t, "capped")
           r == IF AllLeft(t, "rejected") THEN "rejected" ELSE "unreachable"
           e == Ended(t, t.last, "failed")
           u == [e EXCEPT !.limitOnly = all]
<1>1. /\ t \in Turn /\ t.phase = "pick" /\ t.left = {} /\ t.slot = NoSlot /\ Rolling(t)
      /\ t.last \in Slots \cup {NoSlot} /\ t.candidates \subseteq Slots
  BY DEF IInv, TurnsOK, TurnsRoll, Exhausted, Sound, Connections, Busy, Turn
<1>2. /\ \A s \in t.candidates : t.fate[s] \in Failures
      /\ \A s \in Slots : t.sent[s] <= 2
  BY <1>1, ClineRollAssumption DEF Rolling, Tried
<1>3. Rolling(Ended(t, NoSlot, r)) /\ Rolling(e)
  BY <1>1, <1>2, EndedRolling
<1>4. /\ u.phase = "done" /\ u.result = "failed" /\ u.candidates = t.candidates
      /\ u.fate = t.fate /\ u.sent = t.sent
  BY <1>1 DEF Ended, Turn
<1> HIDE DEF e, u
<1>5. Rolling(u)
  BY <1>2, <1>4 DEF Rolling, Complete
<1>6. turn' \in {[turn EXCEPT ![q] = u], [turn EXCEPT ![q] = Ended(t, NoSlot, r)]}
  BY DEF Exhausted, u, e
<1> QED
  BY <1>3, <1>5, <1>6, RollChanged

\* A caller who is gone has no bearing on what was tried.
LEMMA CallerGoneRolls ==
    ASSUME IInv, TurnsRoll, NEW q \in Turns, CallerGone(q)
    PROVE  TurnsRoll'
<1> DEFINE t == turn[q]
           u == [t EXCEPT !.gone = TRUE]
<1>1. t \in Turn /\ Rolling(t)
  BY DEF IInv, TurnsOK, TurnsRoll
<1>2. Alike(t, u) /\ u.phase = t.phase /\ u.refreshed = t.refreshed /\ u.from = t.from
  BY <1>1 DEF Alike, Turn
<1> HIDE DEF u
<1>3. Rolling(u)
  BY <1>1, <1>2, AlikeTried DEF Alike, Rolling, Complete
<1>4. turn' = [turn EXCEPT ![q] = u]
  BY DEF CallerGone, u
<1> QED
  BY <1>3, <1>4, RollChanged

\* Of every turn: what it left has failed, and nobody was asked too often.
LEMMA Rolls == Spec => []TurnsRoll
<1>1. Init => TurnsRoll
  BY DEF Init, TurnsRoll, Rolling, Complete, Idle
<1>2. IInv /\ TurnsRoll /\ [Next]_vars => TurnsRoll'
  <2> SUFFICES ASSUME IInv, TurnsRoll, [Next]_vars PROVE TurnsRoll'
    OBVIOUS
  <2>1. ASSUME NEW q \in Turns, Step(q) \/ CallerGone(q) PROVE TurnsRoll'
    BY <2>1, BeginRolls, TryRolls, RefreshRolls, AnswerRolls, ExhaustedRolls, CallerGoneRolls
       DEF Step
  <2>2. CASE UNCHANGED turn
    BY <2>2 DEF TurnsRoll
  <2> QED
    BY <2>1, <2>2
    DEF Next, vars, Keep, KeeperStarts, KeeperRefreshed, KeeperRejected, KeeperFails,
        KeeperPasses, KeeperRefreshes, Login, Logout, ParkEnds, CapEnds
<1> QED
  BY <1>1, <1>2, Invariant, PTL DEF Spec

\* A turn that fails has tried every login that was saved and not parked when it began, one
\* that does not has an answer of a login that failed nothing, and none is sent the request
\* more than twice (src/cline-roll.ts, rollChat).
THEOREM RollSafe == Spec => []RollComplete
<1>1. TurnsRoll => RollComplete
  BY DEF TurnsRoll, Rolling, Complete, RollComplete
<1> QED
  BY <1>1, Rolls, PTL
-----------------------------------------------------------------------------
(* Parks                                                                   *)

\* Only a login that has a grant is refreshed.
Holds(t) == t.phase \in {"refresh", "reauth"} => t.grant[t.slot] # 0
GrantsHeld ==
    /\ \A q \in Turns : Holds(turn[q])
    /\ keeper.phase = "refresh" => keeper.grant[keeper.slot] # 0

\* What is remembered of a slot is a login, or 0.
DoomedOK == doomed \in [Slots -> Logins]

\* A turn is a record, whatever its fields hold.
TurnFields ==
    {"phase", "candidates", "left", "capped", "lead", "slot", "grant", "refreshed", "sent",
     "fate", "bodies", "last", "from", "gone", "limitOnly", "result"}
IsTurn(t) == t = [f \in TurnFields |-> t[f]]

\* A typed turn has the fields of one.
LEMMA TurnIsTurn == ASSUME NEW t \in Turn PROVE IsTurn(t)
BY DEF IsTurn, TurnFields, Turn

\* Where the end of an attempt leaves a turn.
LEMMA RolledPhase ==
    ASSUME NEW t, IsTurn(t), NEW fate
    PROVE  Rolled(t, fate).phase = "pick"
BY DEF IsTurn, TurnFields, Rolled

\* A request that is withdrawn is not sent.
LEMMA SentPhase ==
    ASSUME NEW t, IsTurn(t), NEW phase
    PROVE  Sent(t, phase).phase \in {"pick", phase}
<1>1. CASE t.gone
  BY <1>1, RolledPhase DEF Sent
<1>2. CASE ~t.gone
  <2>1. Sent(t, phase) = [t EXCEPT !.phase = phase, !.sent[t.slot] = @ + 1]
    BY <1>2 DEF Sent
  <2> QED
    BY <2>1 DEF IsTurn, TurnFields
<1> QED
  BY <1>1, <1>2

\* A turn that has ended waits for nothing.
LEMMA EndedPhase ==
    ASSUME NEW t, IsTurn(t), NEW from, NEW result
    PROVE  Ended(t, from, result).phase = "done"
BY DEF IsTurn, TurnFields, Ended

\* Bodies have no part in which login is under way.
LEMMA BodiesAside ==
    ASSUME NEW t, IsTurn(t)
    PROVE  /\ IsTurn(Received(t)) /\ IsTurn(Cancelled(t)) /\ IsTurn(Renewed(t))
           /\ IsTurn(LastCancelled(t)) /\ IsTurn(Stashed(t))
           /\ Received(t).slot = t.slot /\ Received(t).grant = t.grant
<1>1. /\ IsTurn(Received(t)) /\ IsTurn(Cancelled(t)) /\ IsTurn(Renewed(t))
      /\ IsTurn(LastCancelled(t)) /\ Received(t).slot = t.slot /\ Received(t).grant = t.grant
  BY DEF IsTurn, TurnFields, Received, Cancelled, Renewed, LastCancelled
<1>2. IsTurn(Stashed(t))
  <2> DEFINE u == LastCancelled(t)
  <2>1. IsTurn(u) /\ Stashed(t) = [u EXCEPT !.last = t.slot]
    BY <1>1 DEF Stashed
  <2> HIDE DEF u
  <2> QED
    BY <2>1 DEF IsTurn, TurnFields
<1> QED
  BY <1>1, <1>2

\* Nor does one that has returned an answer.
LEMMA ServedPhase ==
    ASSUME NEW t, IsTurn(t), NEW fate
    PROVE  ServedBy(t, fate).phase = "done"
<1> DEFINE r == LastCancelled(Received(t))
           u == [r EXCEPT !.fate[t.slot] = fate]
<1>1. IsTurn(r)
  BY BodiesAside
<1> HIDE DEF r
<1>2. IsTurn(u)
  BY <1>1 DEF IsTurn, TurnFields
<1> HIDE DEF u
<1>3. Ended(u, t.slot, "served").phase = "done"
  BY <1>2, EndedPhase
<1> QED
  BY <1>3 DEF ServedBy, u, r

\* A step of one turn leaves the grants of the others alone.
LEMMA HoldsChanged ==
    ASSUME IInv, GrantsHeld, keeper' = keeper, NEW q \in Turns, NEW u, Holds(u),
           turn' = [turn EXCEPT ![q] = u]
    PROVE  GrantsHeld'
BY DEF GrantsHeld, IInv, TurnsOK

\* A turn that refreshes nothing needs no grant.
LEMMA SettledHolds ==
    ASSUME NEW u, u.phase \in {"pick", "sent", "resent", "done"}
    PROVE  Holds(u)
BY DEF Holds

\* A turn picks, sends and ends as it may, and refreshes only a login with a grant.
LEMMA TurnHolds ==
    ASSUME IInv, GrantsHeld, NEW q \in Turns, Step(q) \/ CallerGone(q)
    PROVE  GrantsHeld'
<1> DEFINE t == turn[q]
<1>1. t \in Turn /\ IsTurn(t) /\ Holds(t)
  BY TurnIsTurn DEF IInv, TurnsOK, GrantsHeld
<1>2. keeper' = keeper
  BY DEF Step, Begin, Try, TryStale, Refreshed, GrantRejected, RefreshFails, SendFails, Answer,
         Succeeds, ClientError, Unauthorized, Refused, MaskedCap, Capped, Exhausted, CallerGone
<1>3. CASE Begin(q)
  <2> DEFINE s == Snapshot(t)
             r == IF saved = {} THEN "empty" ELSE "rejected"
  <2>1. IsTurn(s) /\ s.phase = "pick"
    BY <1>1 DEF Snapshot, IsTurn, TurnFields
  <2>2. turn' = [turn EXCEPT ![q] = IF s.left # {} THEN s ELSE Ended(s, NoSlot, r)]
    BY <1>3 DEF Begin
  <2> HIDE DEF s, r
  <2>3. Holds(s) /\ Holds(Ended(s, NoSlot, r))
    BY <2>1, EndedPhase, SettledHolds
  <2> QED
    BY <1>2, <2>2, <2>3, HoldsChanged
<1>4. CASE Try(q)
  <2>1. PICK s \in Preferred(t) :
           turn' = [turn EXCEPT ![q] = Sent([t EXCEPT !.left = @ \ {s}, !.slot = s], "sent")]
    BY <1>4 DEF Try
  <2> DEFINE u == [t EXCEPT !.left = @ \ {s}, !.slot = s]
  <2>2. IsTurn(u)
    BY <1>1 DEF IsTurn, TurnFields
  <2> HIDE DEF u
  <2>3. Holds(Sent(u, "sent"))
    BY <2>2, SentPhase, SettledHolds
  <2> QED
    BY <1>2, <2>1, <2>3, HoldsChanged DEF u
<1>5. CASE TryStale(q)
  <2>1. PICK s \in Preferred(t) :
           /\ t.grant[s] # 0
           /\ turn' = [turn EXCEPT ![q] = [t EXCEPT !.left = @ \ {s}, !.slot = s, !.phase = "refresh"]]
    BY <1>5 DEF TryStale
  <2> DEFINE u == [t EXCEPT !.left = @ \ {s}, !.slot = s, !.phase = "refresh"]
  <2>2. u.slot = s /\ u.grant = t.grant
    BY <1>1 DEF IsTurn, TurnFields
  <2> HIDE DEF u
  <2>3. Holds(u)
    BY <2>1, <2>2 DEF Holds
  <2> QED
    BY <1>2, <2>1, <2>3, HoldsChanged DEF u
<1>6. CASE Refreshed(q)
  <2> DEFINE u == Cancelled(Renewed(t))
             label == IF t.phase = "refresh" THEN "sent" ELSE "resent"
  <2>1. IsTurn(u) /\ label \in {"sent", "resent"}
    BY <1>1, BodiesAside
  <2>2. turn' = [turn EXCEPT ![q] = Sent(u, label)]
    BY <1>6 DEF Refreshed
  <2> HIDE DEF u, label
  <2>3. Holds(Sent(u, label))
    BY <2>1, SentPhase, SettledHolds
  <2> QED
    BY <1>2, <2>2, <2>3, HoldsChanged
<1>7. CASE GrantRejected(q)
  <2>1. Holds(Rolled(Cancelled(t), "rejected"))
    BY <1>1, BodiesAside, RolledPhase, SettledHolds
  <2> QED
    BY <1>2, <1>7, <2>1, HoldsChanged DEF GrantRejected
<1>8. CASE RefreshFails(q)
  <2>1. Holds(Rolled(Stashed(t), "refused")) /\ Holds(Sent(t, "sent"))
    BY <1>1, BodiesAside, RolledPhase, SentPhase, SettledHolds
  <2> QED
    BY <1>2, <1>8, <2>1, HoldsChanged DEF RefreshFails
<1>9. CASE SendFails(q)
  <2>1. Holds(Rolled(t, "fault"))
    BY <1>1, RolledPhase, SettledHolds
  <2> QED
    BY <1>2, <1>9, <2>1, HoldsChanged DEF SendFails
<1>10. CASE Succeeds(q) \/ ClientError(q) \/ MaskedCap(q)
  <2>1. \A fate : Holds(ServedBy(t, fate))
    BY <1>1, ServedPhase, SettledHolds
  <2>2. PICK fate : turn' = [turn EXCEPT ![q] = ServedBy(t, fate)]
    BY <1>10 DEF Succeeds, ClientError, MaskedCap
  <2> QED
    BY <1>2, <2>1, <2>2, HoldsChanged
<1>11. CASE Refused(q) \/ \E reset \in 0..MaxReset : Capped(q, reset)
  <2>1. \A fate : Holds(Rolled(Stashed(Received(t)), fate))
    BY <1>1, BodiesAside, RolledPhase, SettledHolds
  <2>2. PICK fate : turn' = [turn EXCEPT ![q] = Rolled(Stashed(Received(t)), fate)]
    BY <1>11 DEF Refused, Capped
  <2> QED
    BY <1>2, <2>1, <2>2, HoldsChanged
<1>12. CASE Unauthorized(q)
  <2>1. Holds(Rolled(Stashed(Received(t)), "refused"))
    BY <1>1, BodiesAside, RolledPhase, SettledHolds
  <2> DEFINE r == Received(t)
             u == [r EXCEPT !.phase = "reauth"]
  <2>2. IsTurn(r) /\ r.slot = t.slot /\ r.grant = t.grant
    BY <1>1, BodiesAside
  <2>3. turn' = [turn EXCEPT ![q] = IF MayRefresh(t) THEN u ELSE Rolled(Stashed(r), "refused")]
    BY <1>12 DEF Unauthorized
  <2>4. MayRefresh(t) => Holds(u)
    <3> HIDE DEF r
    <3>1. u.slot = t.slot /\ u.grant = t.grant
      BY <2>2 DEF IsTurn, TurnFields
    <3> HIDE DEF u
    <3> QED
      BY <3>1 DEF Holds, MayRefresh
  <2> HIDE DEF u
  <2> QED
    BY <1>2, <2>1, <2>3, <2>4, HoldsChanged
<1>13. CASE Exhausted(q)
  <2> DEFINE e == Ended(t, t.last, "failed")
             u == [e EXCEPT !.limitOnly = AllLeft(t, "capped")]
             r == IF AllLeft(t, "rejected") THEN "rejected" ELSE "unreachable"
  <2>1. turn' = [turn EXCEPT ![q] = IF t.last # NoSlot THEN u ELSE Ended(t, NoSlot, r)]
    BY <1>13 DEF Exhausted
  <2>2. u.phase = e.phase
    BY DEF Ended
  <2>3. e.phase = "done"
    BY <1>1, EndedPhase
  <2> HIDE DEF u, r, e
  <2>4. Holds(u) /\ Holds(Ended(t, NoSlot, r))
    BY <1>1, <2>2, <2>3, EndedPhase, SettledHolds
  <2> QED
    BY <1>2, <2>1, <2>4, HoldsChanged
<1>14. CASE CallerGone(q)
  <2> DEFINE u == [t EXCEPT !.gone = TRUE]
  <2>1. turn' = [turn EXCEPT ![q] = u]
    BY <1>14 DEF CallerGone
  <2>2. u.phase = t.phase /\ u.slot = t.slot /\ u.grant = t.grant
    BY <1>1 DEF IsTurn, TurnFields
  <2> HIDE DEF u
  <2>3. Holds(u)
    BY <1>1, <2>2 DEF Holds
  <2> QED
    BY <1>2, <2>1, <2>3, HoldsChanged
<1> QED
  BY <1>3, <1>4, <1>5, <1>6, <1>7, <1>8, <1>9, <1>10, <1>11, <1>12, <1>13, <1>14
     DEF Step, Answer

\* Every step keeps the grants of the refreshes under way.
LEMMA GrantsHeldStep ==
    ASSUME IInv, GrantsHeld, [Next]_vars
    PROVE  GrantsHeld'
<1>1. CASE Keep
  <2>1. turn' = turn
    BY <1>1 DEF Keep, KeeperStarts, KeeperRefreshed, KeeperRejected, KeeperFails, KeeperPasses,
                KeeperRefreshes
  <2>2. keeper \in Keeper
    BY DEF IInv, KeeperOK
  <2>3. KeeperDone.phase # "refresh"
    BY <2>2 DEF KeeperDone, Keeper
  <2>4. keeper'.phase = "refresh" => keeper'.grant[keeper'.slot] # 0
    <3>1. CASE KeeperStarts
      BY <2>2, <3>1 DEF KeeperStarts, Keeper
    <3>2. CASE KeeperRefreshed \/ KeeperRejected \/ KeeperFails
      BY <2>3, <3>2 DEF KeeperRefreshed, KeeperRejected, KeeperFails
    <3>3. ASSUME NEW s \in Slots, KeeperPasses(s) PROVE keeper'.phase # "refresh"
      BY <2>2, <3>3 DEF KeeperPasses, Keeper
    <3>4. ASSUME NEW s \in Slots, KeeperRefreshes(s) PROVE keeper'.grant[keeper'.slot] # 0
      BY <2>2, <3>4 DEF KeeperRefreshes, Keeper
    <3> QED
      BY <1>1, <3>1, <3>2, <3>3, <3>4 DEF Keep
  <2> QED
    BY <2>1, <2>4 DEF GrantsHeld
<1>2. CASE UNCHANGED <<turn, keeper>>
  BY <1>2 DEF GrantsHeld
<1> QED
  BY <1>1, <1>2, TurnHolds DEF Next, vars, Login, Logout, ParkEnds, CapEnds

\* Cline rejects a grant there is, and only the slot it was for is parked.
LEMMA RejectsJustify ==
    ASSUME DoomedOK, ParkJustified, NEW s \in Slots, NEW g \in Logins, g # 0,
           parked' \subseteq Slots, parked' \subseteq parked \cup {s}, Rejects(s, g)
    PROVE  DoomedOK' /\ ParkJustified'
<1> DEFINE d == [doomed EXCEPT ![s] = g]
<1>1. d \in [Slots -> Logins] /\ d[s] = g /\ \A x \in Slots \ {s} : d[x] = doomed[x]
  BY DEF DoomedOK
<1>2. 0 \in Logins
  BY ClineRollAssumption DEF Logins
<1>3. doomed' = [x \in Slots |-> IF x \in parked' THEN d[x] ELSE 0]
  BY DEF Rejects, Unparked
<1>4. misjudged' = misjudged \cap parked'
  BY DEF Rejects
<1> HIDE DEF d
<1> QED
  BY <1>1, <1>2, <1>3, <1>4 DEF DoomedOK, ParkJustified

\* Nothing else parks a slot, but for those the keep-alive could not ask for.
LEMMA LearnsJustifies ==
    ASSUME DoomedOK, ParkJustified, NEW S \in SUBSET Slots,
           parked' \subseteq Slots, parked' \subseteq parked \cup S, Learns(S)
    PROVE  DoomedOK' /\ ParkJustified'
<1>1. 0 \in Logins
  BY ClineRollAssumption DEF Logins
<1> QED
  BY <1>1 DEF Learns, Unparked, DoomedOK, ParkJustified

\* Every step parks only slots that are doomed or misjudged.
LEMMA JustifiedStep ==
    ASSUME IInv, IInv', GrantsHeld, DoomedOK, ParkJustified, [HistNext]_<<vars, hist>>
    PROVE  DoomedOK' /\ ParkJustified'
<1>1. parked' \subseteq Slots
  BY DEF IInv, PoolOK
<1>2. ASSUME NEW q \in Turns, GrantRejected(q), Rejects(turn[q].slot, turn[q].grant[turn[q].slot])
      PROVE  DoomedOK' /\ ParkJustified'
  <2> DEFINE t == turn[q]
  <2>1. t.phase \in {"refresh", "reauth"} /\ Park(t.slot)
    BY <1>2 DEF GrantRejected
  <2>2. t.slot \in Slots /\ t.grant[t.slot] \in Logins
    BY <2>1, WaitingTurn DEF Busy, Turn
  <2>3. t.grant[t.slot] # 0
    BY <2>1 DEF GrantsHeld, Holds
  <2>4. parked' \subseteq parked \cup {t.slot}
    BY <2>1 DEF Park
  <2> QED
    BY <1>1, <1>2, <2>2, <2>3, <2>4, RejectsJustify
<1>3. ASSUME Learns({}), parked' \subseteq parked
      PROVE  DoomedOK' /\ ParkJustified'
  <2>1. parked' \subseteq parked \cup {}
    BY <1>3
  <2> QED
    BY <1>1, <1>3, <2>1, LearnsJustifies
<1>4. ASSUME NEW q \in Turns,
             \/ Begin(q) \/ Try(q) \/ TryStale(q) \/ Refreshed(q) \/ RefreshFails(q)
             \/ SendFails(q) \/ Answer(q) \/ Exhausted(q) \/ CallerGone(q)
      PROVE  parked' \subseteq parked
  BY <1>4 DEF Begin, Try, TryStale, Refreshed, RefreshFails, SendFails, Answer, Succeeds,
              ClientError, Unauthorized, Refused, MaskedCap, Capped, Exhausted, CallerGone,
              Renew, RecordCap, RecordServed, pool
<1>5. keeper.phase = "refresh" =>
         /\ keeper.slot \in Slots
         /\ keeper.grant[keeper.slot] \in Logins
         /\ keeper.grant[keeper.slot] # 0
  BY DEF IInv, KeeperOK, Keeper, GrantsHeld
<1>6. CASE KeeperRejected /\ Rejects(keeper.slot, keeper.grant[keeper.slot])
  <2>1. keeper.phase = "refresh" /\ parked' \subseteq parked \cup {keeper.slot}
    BY <1>6 DEF KeeperRejected, Park
  <2> QED
    BY <1>1, <1>5, <1>6, <2>1, RejectsJustify
<1>7. CASE KeeperFails /\ Learns({keeper.slot})
  <2>1. keeper.phase = "refresh" /\ parked' \subseteq parked \cup {keeper.slot}
    BY <1>7 DEF KeeperFails, Park
  <2> QED
    BY <1>1, <1>5, <1>7, <2>1, LearnsJustifies
<1>8. ASSUME \/ KeeperStarts \/ KeeperRefreshed
             \/ \E s \in Slots :
                   \/ KeeperPasses(s) \/ KeeperRefreshes(s)
                   \/ Logout(s) \/ ParkEnds(s) \/ CapEnds(s)
                   \/ Login(s, TRUE) \/ Login(s, FALSE)
      PROVE  parked' \subseteq parked
  BY <1>8 DEF KeeperStarts, KeeperRefreshed, KeeperPasses, KeeperRefreshes, Logout, ParkEnds,
              CapEnds, Login, Renew, pool
<1>9. CASE UNCHANGED <<vars, hist>>
  BY <1>9 DEF vars, pool, hist, DoomedOK, ParkJustified
<1> QED
  BY <1>2, <1>3, <1>4, <1>6, <1>7, <1>8, <1>9 DEF HistNext

\* A login is only parked once Cline has rejected a grant of its slot, but for those the
\* keep-alive could not reach Cline for (src/cline-roll.ts, refreshAccountInPlace).
THEOREM ParksJustified == HistSpec => []ParkJustified
<1>1. HistInit => IInv /\ GrantsHeld /\ DoomedOK /\ ParkJustified
  <2> SUFFICES ASSUME HistInit PROVE IInv /\ GrantsHeld /\ DoomedOK /\ ParkJustified
    OBVIOUS
  <2>1. Init /\ 0 \in Logins
    BY ClineRollAssumption DEF HistInit, Logins
  <2>2. GrantsHeld
    BY <2>1 DEF Init, GrantsHeld, Holds, Idle, Asleep
  <2>3. DoomedOK /\ ParkJustified
    BY <2>1 DEF HistInit, Init, DoomedOK, ParkJustified
  <2> QED
    BY <2>1, <2>2, <2>3, InitIInv
<1>2. [HistNext]_<<vars, hist>> => [Next]_vars
  BY DEF HistNext, Next, Step, Keep
<1>3. /\ IInv /\ GrantsHeld /\ DoomedOK /\ ParkJustified
      /\ [HistNext]_<<vars, hist>>
      => IInv' /\ GrantsHeld' /\ DoomedOK' /\ ParkJustified'
  BY <1>2, NextIInv, GrantsHeldStep, JustifiedStep
<1> QED
  BY <1>1, <1>3, PTL DEF HistSpec
=============================================================================
