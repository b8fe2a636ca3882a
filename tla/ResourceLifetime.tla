--------------------------- MODULE ResourceLifetime ---------------------------
(***************************************************************************)
(* What the execution context promises to its callers, without fences,     *)
(* command lists or reference counts: the CPU creates and destroys objects *)
(* and schedules GPU work that uses them, the GPU finishes work at its own *)
(* pace, and no object is destroyed while unfinished work uses it.         *)
(***************************************************************************)
CONSTANT Objects

VARIABLES
  alive,    \* objects that exist
  pending   \* objects used by work that is scheduled and not finished

vars == <<alive, pending>>

TypeOK == alive \subseteq Objects /\ pending \subseteq alive

Init == alive = {} /\ pending = {}

\* The CPU creates objects, schedules work and destroys objects, none of them in
\* use.  It never takes back work that was scheduled.
CpuStep ==
  /\ alive' \in SUBSET Objects
  /\ pending' \in SUBSET alive'
  /\ pending \subseteq pending'

\* The GPU finishes work; it destroys nothing.
GpuStep ==
  /\ pending' \in SUBSET pending
  /\ UNCHANGED alive

\* Shutdown drains the GPU, discards the work that never reached it and
\* destroys objects.
Shutdown ==
  /\ pending' = {}
  /\ alive' \in SUBSET alive

Next == CpuStep \/ GpuStep \/ Shutdown

Spec == Init /\ [][Next]_vars
=============================================================================
