------------------------- MODULE MCVariableControl -------------------------
(* TLC instances of VariableControl: the tasks of two views.                 *)
EXTENDS VariableControl

CONSTANTS v1, v2, v3, v4

MCPage == [v \in {v1, v2, v3, v4} |->
              CASE v = v1 -> [space |-> "Basic", numbers |-> <<>>]
                [] v = v2 -> [space |-> "Susi", numbers |-> <<1>>]
                [] v = v3 -> [space |-> "Susi", numbers |-> <<2>>]
                [] v = v4 -> [space |-> "Extended", numbers |-> <<0, 255>>]]

\* "Read all" with its retries, a task that collects, one that aborts: on
\* variables of two SUSI banks and a basic one.
SusiTasks     == {"list", "bulk", "abort"}
SusiVariables == [list |-> <<v2, v3, v1>>, bulk |-> <<v3, v1>>, abort |-> <<v2, v1>>]
SusiPolicy    == [list |-> "retry", bulk |-> "collect", abort |-> "first"]

\* "Read" of one RailCom variable.
ExtendedTasks     == {"single"}
ExtendedVariables == [single |-> <<v4>>]
ExtendedPolicy    == [single |-> "retry"]
=============================================================================
