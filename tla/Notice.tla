-------------------------------- MODULE Notice --------------------------------
(***************************************************************************)
(* What a notification promises, and nothing about queues, devices or      *)
(* processes: it is owed until it is settled once and for all, it reaches  *)
(* its user only while it is owed, and the record is true as far as the    *)
(* server can know.  Abstract specification; NotificationOutbox implements *)
(* it.                                                                     *)
(***************************************************************************)
CONSTANT Events

VARIABLES
    fate,       \* none, owed, delivered, given_up
    reached,    \* the notifications that showed up on some device
    unsure      \* those of which the server cannot know whether they did

noticeVars == <<fate, reached, unsure>>

NoticeInit ==
    /\ fate = [e \in Events |-> "none"]
    /\ reached = {}
    /\ unsure = {}

Owed == {e \in Events : fate[e] = "owed"}

Owe(e) ==
    /\ fate[e] = "none"
    /\ fate' = [fate EXCEPT ![e] = "owed"]
    /\ UNCHANGED <<reached, unsure>>

(* The notification shows up; the answer that says so may be lost. *)
Reach(e) ==
    /\ e \in Owed
    /\ reached' = reached \cup {e}
    /\ unsure' \in {unsure, unsure \cup {e}}
    /\ UNCHANGED fate

(* Whoever was delivering some of what is owed dies before it is recorded. *)
Forget ==
    /\ \E lost \in SUBSET Owed : unsure' = unsure \cup lost
    /\ UNCHANGED <<fate, reached>>

(* Any number of notifications that are owed are settled at once, each as  *)
(* what it is.                                                             *)
Settle ==
    /\ fate' \in [Events -> {"none", "owed", "delivered", "given_up"}]
    /\ \A e \in Events : fate'[e] # fate[e] =>
          /\ e \in Owed
          /\ \/ fate'[e] = "delivered" /\ e \in reached
             \/ fate'[e] = "given_up" /\ (e \in reached => e \in unsure)
    /\ UNCHANGED <<reached, unsure>>

NoticeNext == (\E e \in Events : Owe(e) \/ Reach(e)) \/ Forget \/ Settle

NoticeSpec == NoticeInit /\ [][NoticeNext]_noticeVars
===============================================================================
