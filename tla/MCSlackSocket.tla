--------------------------- MODULE MCSlackSocket ---------------------------
(* Small instances of SlackSocket. *)
EXTENDS SlackSocket, TLC

CONSTANTS d1, t1, t2, also, stranger, crash, drop, fault, deaf

OnePeriod == [d \in Days |-> 1]
TheKey == [period |-> 1, type |-> "commute"]

Bounds == [h \in Hazards |->
  CASE h = "also" -> also [] h = "stranger" -> stranger [] h = "crash" -> crash
    [] h = "drop" -> drop [] h = "fault" -> fault [] h = "deaf" -> deaf]

\* The worker threads are interchangeable; used where only safety is checked.
Alike == Permutations(Threads)

=============================================================================
