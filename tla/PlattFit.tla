------------------------------- MODULE PlattFit ------------------------------
(***************************************************************************)
(* The control of PlattCalibrator::fit: Newton iterations with a line      *)
(* search, the fallback for a skewed calibration set, and the online steps *)
(* that may follow.  What the floating-point arithmetic makes of the       *)
(* gradient, the Hessian and a trial step is left open at every turn.      *)
(***************************************************************************)
EXTENDS Naturals

CONSTANTS
  MaxIters,       \* config.max_iters, at least one
  MinSteps,       \* values of config.min_step: the halvings of a step of one
                  \* that bring it below min_step (0: min_step is above one)
  Subnormal,      \* halvings that make a step of one subnormal
  SkewThreshold,  \* DEFAULT_SKEW_THRESHOLD
  Epochs,         \* DEFAULT_SKEW_SGD_EPOCHS
  MaxClass,       \* bound on the alerts of one class
  MaxOnline       \* bound on update_online calls after the fit

VARIABLES
  fit_pc,        \* "start", "newton", "search", "done"
  min_step,      \* config.min_step, by its halvings
  positives, negatives,
  iters, converged, high_skew,
  halved,        \* how often the line search has halved its step
  moves,         \* history: steps accepted
  ended          \* history: why the fit returned

vars == <<fit_pc, min_step, positives, negatives, iters, converged, high_skew,
          halved, moves, ended>>

Init ==
  /\ fit_pc = "start" /\ min_step \in MinSteps
  /\ positives \in 0..MaxClass /\ negatives \in 0..MaxClass
  /\ iters = 0 /\ converged = FALSE /\ high_skew = FALSE
  /\ halved = 0 /\ moves = 0 /\ ended = "not"

End(why) == fit_pc' = "done" /\ ended' = why

Skewed ==
  \/ positives = 0 \/ negatives = 0
  \/ positives > SkewThreshold * negatives
  \/ negatives > SkewThreshold * positives

\* An empty set is refused; a skewed one takes Epochs passes of online steps.
Begin ==
  /\ fit_pc = "start"
  /\ \/ positives + negatives = 0 /\ End("refused") /\ UNCHANGED <<iters, converged, high_skew>>
     \/ /\ positives + negatives > 0 /\ Skewed
        /\ iters' = Epochs * (positives + negatives)
        /\ converged' = TRUE /\ high_skew' = TRUE
        /\ End("epochs")
     \/ ~Skewed /\ fit_pc' = "newton" /\ UNCHANGED <<ended, iters, converged, high_skew>>
  /\ UNCHANGED <<min_step, positives, negatives, halved, moves>>

\* One turn of the Newton loop, up to its line search.
Iterate ==
  /\ fit_pc = "newton" /\ iters < MaxIters
  /\ iters' = iters + 1
  /\ \/ converged' = TRUE /\ End("gradient") /\ UNCHANGED halved
     \/ End("degenerate") /\ UNCHANGED <<converged, halved>>
     \/ fit_pc' = "search" /\ halved' = 0 /\ UNCHANGED <<converged, ended>>
  /\ UNCHANGED <<min_step, positives, negatives, high_skew, moves>>

OutOfIterations ==
  /\ fit_pc = "newton" /\ iters = MaxIters
  /\ End("iterations")
  /\ UNCHANGED <<min_step, positives, negatives, iters, converged, high_skew, halved, moves>>

\* An accepted step ends the fit only where min_step lies above it.
Accept ==
  /\ fit_pc = "search"
  /\ moves' = moves + 1
  /\ \/ halved < min_step /\ fit_pc' = "newton" /\ UNCHANGED ended
     \/ halved >= min_step /\ End("step")
  /\ UNCHANGED <<min_step, positives, negatives, iters, converged, high_skew, halved>>

\* Mutant: a trial step is halved without a limit.
HalveForever ==
  /\ fit_pc = "search"
  /\ halved' = (halved + 1) % Subnormal
  /\ UNCHANGED <<fit_pc, min_step, positives, negatives, iters, converged,
                 high_skew, moves, ended>>

\* The trial step is too long.  Once it is too short the search is abandoned,
\* and the fit with it; but where min_step is subnormal itself a subnormal step
\* is not below it, and the Newton loop goes on.
Halve ==
  /\ fit_pc = "search"
  /\ halved' = halved + 1
  /\ \/ /\ halved' < min_step /\ halved' < Subnormal
        /\ UNCHANGED <<converged, fit_pc, ended>>
     \/ /\ halved' < min_step /\ halved' >= Subnormal
        /\ converged' = TRUE /\ fit_pc' = "newton" /\ UNCHANGED ended
     \/ halved' >= min_step /\ converged' = TRUE /\ End("search")
  /\ UNCHANGED <<min_step, positives, negatives, iters, high_skew, moves>>

\* update_online with a finite score.
UpdateOnline ==
  /\ fit_pc = "done" /\ ended # "refused"
  /\ iters < MaxIters + Epochs * 2 * MaxClass + MaxOnline
  /\ iters' = iters + 1 /\ converged' = FALSE
  /\ UNCHANGED <<fit_pc, min_step, positives, negatives, high_skew, halved, moves,
                 ended>>

Next == Begin \/ Iterate \/ OutOfIterations \/ Accept \/ Halve \/ UpdateOnline

Spec == Init /\ [][Next]_vars

\* fit runs in one thread, which is not stopped.
Fairness == WF_vars(Begin \/ Iterate \/ OutOfIterations \/ Accept \/ Halve)

FairSpec == Spec /\ Fairness

------------------------------------------------------------------------------
(* Properties.                                                              *)

\* fit returns whatever the arithmetic does, within its limit of iterations.
FitReturns == <>(fit_pc = "done")

\* The comment on converged(), at calibrator.rs:423, has it false after an
\* iteration limit or an abandoned line search.
GivingUpIsNotConverging == ended \in {"iterations", "search"} => ~converged
=============================================================================
