--------------------------- MODULE LimiterContract --------------------------
(***************************************************************************)
(* What src/internal/app/cpu_limiter.go promises the processes of the      *)
(* machine: only a process with a duty cycle is ever stopped, and a duty   *)
(* cycle does not end while a process that no other cycle covers is still  *)
(* stopped, unless the process refused its last SIGCONT.  CPULimiter       *)
(* implements it.                                                          *)
(***************************************************************************)
CONSTANTS Procs,    \* processes
          Workers   \* identities of duty cycles

VARIABLES cycle,    \* cycle[w]: the processes w stops and resumes, or {}
          stopped,  \* the processes held by SIGSTOP
          refused   \* those of them whose last SIGCONT failed

contractVars == <<cycle, stopped, refused>>

Covered(c) == UNION {c[w] : w \in Workers}

Init == /\ cycle = [w \in Workers |-> {}]
        /\ stopped = {}
        /\ refused = {}

(* A duty cycle begins.                                                    *)
Open(w, S) == /\ cycle[w] = {}
              /\ cycle' = [cycle EXCEPT ![w] = S]
              /\ UNCHANGED <<stopped, refused>>

(* The cycle of w stops one of its processes.                              *)
Stop(w, p) == /\ p \in cycle[w]
              /\ stopped' = stopped \cup {p}
              /\ refused' = refused \ {p}
              /\ UNCHANGED cycle

(* A process runs again, or exits.                                         *)
Release(p) == /\ stopped' = stopped \ {p}
              /\ refused' = refused \ {p}

(* A process stays as it is, although SIGCONT was due to it.               *)
Refuse(p) == /\ refused' = refused \cup ({p} \cap stopped)
             /\ UNCHANGED stopped

(* The cycle of w sends SIGCONT to one of its processes.                   *)
Continue(w, p) == /\ p \in cycle[w]
                  /\ Release(p) \/ Refuse(p)
                  /\ UNCHANGED cycle

Exit(p) == Release(p) /\ UNCHANGED cycle

(* A duty cycle ends with its last SIGCONT, and leaves stopped only what   *)
(* another cycle covers or what refused.                                   *)
Close(w) == /\ \E p \in cycle[w] : Release(p) \/ Refuse(p)
            /\ cycle' = [cycle EXCEPT ![w] = {}]
            /\ stopped' \subseteq Covered(cycle') \cup refused'

Next == \/ \E w \in Workers : \/ \E S \in SUBSET Procs : Open(w, S)
                              \/ \E p \in Procs : Stop(w, p) \/ Continue(w, p)
                              \/ Close(w)
        \/ \E p \in Procs : Exit(p)

Spec == Init /\ [][Next]_contractVars

=============================================================================
