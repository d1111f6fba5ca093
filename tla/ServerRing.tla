---------------------------- MODULE ServerRing ----------------------------
(***************************************************************************)
(* What Multithreading/q2.c promises: a ring of servers in which a server  *)
(* works only while neither neighbour does, and each does MAX_TASKS tasks. *)
(* Nothing is said about channels or semaphores; Channels.tla, the         *)
(* translation of q2.c, implements this specification.                     *)
(***************************************************************************)
EXTENDS Naturals

CONSTANTS TOTAL_SERVERS, MAX_TASKS

VARIABLES busy,   \* the servers that are processing
          served  \* tasks each server has finished

vars == <<busy, served>>

Server == 0 .. TOTAL_SERVERS - 1

\* The two servers next to s share a channel with it.
Adjacent(s, t) == s # t /\ (t = (s + 1) % TOTAL_SERVERS \/ s = (t + 1) % TOTAL_SERVERS)

Init == busy = {} /\ served = [s \in Server |-> 0]

Start(s) ==
  /\ s \notin busy
  /\ served[s] < MAX_TASKS
  /\ \A t \in busy : ~ Adjacent(s, t)
  /\ busy' = busy \cup {s}
  /\ UNCHANGED served

Finish(s) ==
  /\ s \in busy
  /\ busy' = busy \ {s}
  /\ served' = [served EXCEPT ![s] = @ + 1]

Next == \E s \in Server : Start(s) \/ Finish(s)

Spec == Init /\ [][Next]_vars
============================================================================
