------------------------- MODULE GitOpsConvergence -------------------------
(***************************************************************************)
(* What the control loop achieves in the end.  The observer applied holds  *)
(* the revision each stack was last brought to: a reconciliation that ends *)
(* (or is cut off by a crash) has applied its revision or has failed.      *)
(***************************************************************************)
EXTENDS GitOpsController

VARIABLE applied

convVars == <<vars, applied>>

\* Stacks whose reconciliation ends in this step.
Ending == {s \in DOMAIN running \ DOMAIN running' : running[s].kind = "reconcile"}

Effect(ok) ==
    applied' = [s \in Stacks |-> IF ok /\ s \in Ending THEN running[s].rev ELSE applied[s]]

ConvInit == Init /\ applied = [s \in Stacks |-> NoRevision]

ConvNext == ControlNext /\ \E ok \in BOOLEAN : Effect(ok)

Step(A) == A /\ \E ok \in BOOLEAN : Effect(ok)

(***************************************************************************)
(* The controller goroutine keeps going, Go's select takes each ready case *)
(* again and again, tickers keep firing, workers are scheduled, and an     *)
(* operation ends (its deployment has a deadline).  The queue is open for  *)
(* a sync interval between two runs, so an awake worker does not find it   *)
(* paused every time it looks.                                             *)
(***************************************************************************)
Fairness ==
    /\ WF_convVars(Step(Boot \/ BootCancelled \/ StopStacks \/ Release
                        \/ PauseStacks \/ DispatchStacks \/ ResumeStacks
                        \/ CleanupStack \/ \E ok \in BOOLEAN : RunStep(ok)))
    /\ SF_convVars(Step(TakeTask))
    /\ SF_convVars(Step(IntervalTick))
    /\ SF_convVars(Step(PollTick(TRUE)))
    /\ \A w \in Workers :
          /\ WF_convVars(Step(Admission(w) \/ FinishOperation(w)))
          /\ SF_convVars(Step(Take(w) /\ UNCHANGED ctlVars))

FairSpec == ConvInit /\ [][ConvNext]_convVars /\ Fairness

\* A stage of a sync run before dispatch or a stack operation fails.
Failure ==
    \/ ResolveGit(FALSE) \/ Reload(FALSE) \/ Networks(FALSE)
    \/ Ending # {} /\ ~Effect(TRUE)

\* From some point on nothing fails any more.
OutageEnds == <>[][~Failure]_convVars

(***************************************************************************)
(* Once nothing fails any more, and unless the controller is shut down,    *)
(* the stacks configured at the last pushed revision are all applied at it *)
(* in the end and stay so: whatever the failures before, the triggers that *)
(* found the slot full, the runs superseded and the crashes lost is made   *)
(* up for by the runs that follow.                                         *)
(***************************************************************************)
LastPushIsApplied ==
    OutageEnds =>
        \/ <>shutdown
        \/ <>[](\A s \in Image(ConfigOf[remote]) : applied[s] = remote)

(***************************************************************************)
(* No waiting stack is starved by the periodic runs that queue the other   *)
(* stacks again and again, even when operations take longer than the       *)
(* interval: its waiting work always leaves the queue.                     *)
(***************************************************************************)
NoStarvation == \A s \in Stacks : []<>(s \notin DOMAIN pending)

(***************************************************************************)
(* A graceful shutdown ends with ownership released, whatever the run and  *)
(* the workers were doing when it was requested.                           *)
(***************************************************************************)
ShutdownEnds == shutdown ~> (pc \in {"released", "down"})
=============================================================================
