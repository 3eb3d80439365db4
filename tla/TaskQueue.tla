----------------------------- MODULE TaskQueue -----------------------------
(***************************************************************************)
(* What a task server promises: tasks are numbered in the order in which   *)
(* they are handed over, and run one at a time, each once, in that order.  *)
(***************************************************************************)
EXTENDS Naturals, Sequences

VARIABLES added,      \* how many tasks were handed over
          executed    \* the tasks that ran, in the order they ran

Init == added = 0 /\ executed = <<>>

Add == added' = added + 1 /\ UNCHANGED executed

Execute ==
    /\ Len(executed) < added
    /\ executed' = Append(executed, Len(executed) + 1)
    /\ UNCHANGED added

Next == Add \/ Execute

Spec == Init /\ [][Next]_<<added, executed>>
=============================================================================
