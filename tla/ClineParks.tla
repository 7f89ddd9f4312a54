----------------------------- MODULE ClineParks -----------------------------
(***************************************************************************)
(* ClineRoll with the history of what Cline said of the grants of the      *)
(* logins that are parked.                                                 *)
(***************************************************************************)
EXTENDS ClineRoll

VARIABLES
    doomed,     \* for a parked slot, the login whose grant Cline rejected
    misjudged   \* parked slots the keep-alive failed to reach Cline for

hist == <<doomed, misjudged>>

HistInit == Init /\ doomed = [s \in Slots |-> 0] /\ misjudged = {}

Unparked(d) == [s \in Slots |-> IF s \in parked' THEN d[s] ELSE 0]

\* A grant of slot s is rejected; a park that ends is forgotten.
Rejects(s, g) ==
    /\ doomed' = Unparked([doomed EXCEPT ![s] = g])
    /\ misjudged' = misjudged \cap parked'

Learns(S) ==
    /\ doomed' = Unparked(doomed)
    /\ misjudged' = (misjudged \cup S) \cap parked'

HistNext ==
    \/ \E q \in Turns :
          \/ GrantRejected(q) /\ Rejects(turn[q].slot, turn[q].grant[turn[q].slot])
          \/ /\ \/ Begin(q) \/ Try(q) \/ TryStale(q) \/ Refreshed(q) \/ RefreshFails(q)
                \/ SendFails(q) \/ Answer(q) \/ Exhausted(q) \/ CallerGone(q)
             /\ Learns({})
    \/ KeeperRejected /\ Rejects(keeper.slot, keeper.grant[keeper.slot])
    \/ KeeperFails /\ Learns({keeper.slot})
    \/ /\ \/ KeeperStarts \/ KeeperRefreshed
          \/ \E s \in Slots :
                \/ KeeperPasses(s) \/ KeeperRefreshes(s)
                \/ Logout(s) \/ ParkEnds(s) \/ CapEnds(s) \/ Login(s, TRUE) \/ Login(s, FALSE)
       /\ Learns({})

HistSpec == HistInit /\ [][HistNext]_<<vars, hist>>

\* A login is only parked on Cline's word, or by a keep-alive that could not
\* reach Cline: a turn whose refresh fails on the way keeps the login
\* (src/cline-roll.ts, refreshAccountInPlace).
ParkJustified == \A s \in parked \ misjudged : doomed[s] # 0
=============================================================================
