-------------------------- MODULE MCZ21Programming --------------------------
(* TLC instances of Z21Programming.                                          *)
EXTENDS Z21Programming

CONSTANTS cv1, cv2, x, y

\* A variable is read while it is written and checked.
WriteTasks    == {"read", "write"}
WriteAccess == [read |-> cv1, write |-> cv1]
WriteWritten  == [read |-> NoValue, write |-> y]
WriteValues   == {x, y}

\* Two variables are read at the same time.
ReadTasks    == {"first", "second"}
ReadAccess == [first |-> cv1, second |-> cv2]
ReadWritten  == [first |-> NoValue, second |-> NoValue]
ReadValues   == {x}
=============================================================================
