------------------------------ MODULE FifoLock ------------------------------
(***************************************************************************)
(* What packages/rest/src/ratelimit/AsyncQueue.ts promises: "Serialises    *)
(* access to a resource, in the order callers arrived."  A caller is       *)
(* granted the resource when everyone who was ahead of it has left, and    *)
(* leaves by releasing it or by giving up the wait.                        *)
(***************************************************************************)
CONSTANT Callers

VARIABLES
  inLine,   \* those who wait for the resource or hold it
  granted,  \* those who hold it
  ahead     \* for each of them, who was in line when it arrived and still is

Init == inLine = {} /\ granted = {} /\ ahead = [c \in Callers |-> {}]

Without(c) == [d \in Callers |-> IF d = c THEN {} ELSE ahead[d] \ {c}]

Join(c) ==
  /\ c \notin inLine
  /\ inLine' = inLine \cup {c}
  /\ ahead' = [ahead EXCEPT ![c] = inLine]
  /\ UNCHANGED granted

Grant(c) ==
  /\ c \in inLine \ granted /\ ahead[c] = {}
  /\ granted' = granted \cup {c}
  /\ UNCHANGED <<inLine, ahead>>

Leave(c) ==
  /\ c \in inLine
  /\ inLine' = inLine \ {c} /\ granted' = granted \ {c}
  /\ ahead' = Without(c)

Next == \E c \in Callers : Join(c) \/ Grant(c) \/ Leave(c)

Spec == Init /\ [][Next]_<<inLine, granted, ahead>>
=============================================================================
