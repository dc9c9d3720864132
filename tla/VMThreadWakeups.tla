--------------------------- MODULE VMThreadWakeups ----------------------------
(***************************************************************************)
(* VMThread where pthread_cond_wait may return although nobody signalled,  *)
(* as POSIX allows.  No wait of a vmkt rechecks a condition.               *)
(***************************************************************************)
EXTENDS MCVMThread

\* The wait on cond1 (for a release) or on cond_extra1 (of a blocker) returns.
WakeThread(v) == /\ \/ tpc[v] = "waiting" /\ Run(v, "released")
                    \/ tpc[v] = "block" /\ Run(v, "awake")
                 /\ UNCHANGED <<petVars, ended, released, workVars>>

\* The wait on cond0 in vmkt_catch returns; mut0 is taken while a child sends.
WakeCatch(p) == /\ MoreOwn(p) /\ (MpiMultiple \/ tpc[This(p)] # "sending")
                /\ \/ pc[p] = "catch" /\ Goto(p, "caught")
                   \/ pc[p] = "joinCatch" /\ Goto(p, "joinCaught")
                /\ UNCHANGED <<at, round, hello, vmktVars, workVars>>

WakeupNext == \/ Next
              \/ \E v \in Thread : WakeThread(v)
              \/ \E p \in PET : WakeCatch(p)

WakeupSpec == Init /\ [][WakeupNext]_vars
==============================================================================
