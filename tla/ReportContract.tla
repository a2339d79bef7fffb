---------------------------- MODULE ReportContract ----------------------------
(***************************************************************************)
(* What the path from the phone to the connector's tables and live feed    *)
(* promises, without queue, worker, requests and channels: each report is  *)
(* made once, concluded at most once, kept a bounded number of times and   *)
(* an event shown to a client at most once. The connector may go on        *)
(* keeping and showing a report that the phone has given up or lost.       *)
(***************************************************************************)
EXTENDS Naturals, Sequences

CONSTANTS
  Events, Snapshots, Streams,
  Refused,       \* reports no handler ever keeps
  MostSnapshots  \* how often one snapshot may be kept

VARIABLES
  fate,   \* fate[i]: what the phone knows of report i
  kept,   \* kept[i]: its rows in the connector's tables
  shown   \* shown[s]: the events the client of stream s was sent

Items == Events \cup Snapshots
Most(i) == IF i \in Events THEN 1 ELSE MostSnapshots

Init ==
  /\ fate = [i \in Items |-> "unreported"]
  /\ kept = [i \in Items |-> 0]
  /\ shown = [s \in Streams |-> <<>>]

\* The phone makes a report; a full queue may cost another one that no request
\* has carried yet.
Make(i) ==
  /\ fate[i] = "unreported"
  /\ \/ fate' = [fate EXCEPT ![i] = "pending"]
     \/ \E j \in Items :
          /\ fate[j] = "pending" /\ kept[j] = 0
          /\ fate' = [fate EXCEPT ![i] = "pending", ![j] = "evicted"]
  /\ UNCHANGED <<kept, shown>>

\* The phone is done with a report. It says accepted only of one that is kept,
\* and refused only of one that never will be.
Conclude(i, f) ==
  /\ fate[i] = "pending"
  /\ f \in {"accepted", "refused", "abandoned"}
  /\ f = "accepted" => kept[i] > 0
  /\ f = "refused" => i \in Refused
  /\ fate' = [fate EXCEPT ![i] = f]
  /\ UNCHANGED <<kept, shown>>

\* The process dies with what it held.
Lose ==
  /\ \E i \in Items : fate[i] = "pending"
  /\ fate' = [i \in Items |-> IF fate[i] = "pending" THEN "lost" ELSE fate[i]]
  /\ UNCHANGED <<kept, shown>>

\* A copy reaches the tables, however late: of no report that was never made,
\* that was dropped from the queue, or that is refused.
Keep(i) ==
  /\ fate[i] \notin {"unreported", "evicted"} /\ i \notin Refused
  /\ kept[i] < Most(i)
  /\ kept' = [kept EXCEPT ![i] = @ + 1]
  /\ UNCHANGED <<fate, shown>>

\* A client sees an event that is kept, and that it has not seen.
Show(s, e) ==
  /\ kept[e] > 0 /\ \A n \in DOMAIN shown[s] : shown[s][n] # e
  /\ shown' = [shown EXCEPT ![s] = Append(@, e)]
  /\ UNCHANGED <<fate, kept>>

Next ==
  \/ \E i \in Items :
       \/ Make(i) \/ Keep(i)
       \/ \E f \in {"accepted", "refused", "abandoned"} : Conclude(i, f)
  \/ Lose
  \/ \E s \in Streams, e \in Events : Show(s, e)

Spec == Init /\ [][Next]_<<fate, kept, shown>>
=============================================================================
