----------------------------- MODULE RunControl -----------------------------
(***************************************************************************)
(* How a run decides to dispatch, to skip and to stop                        *)
(* (internal/runner/runner.go): the two dispatch loops with their upload     *)
(* semaphore and round-robin over users that are not disabled, the disable   *)
(* policy, the speed-floor sampler, Stop, the deadline, and the drain that   *)
(* ends in the sealed stop reason.                                           *)
(*                                                                         *)
(* Loops and sampler only notice a cancelled context in their select, where  *)
(* a tick that is due as well may be taken instead; the sampler lives on the *)
(* outer context, until the drain is over.                                   *)
(***************************************************************************)
EXTENDS Integers, FiniteSets

CONSTANTS
    NormalUsers, LargeUsers,  \* cfg.NormalUsers, cfg.LargeFileUsers
    Streams,                  \* capacity of the semaphore
    Threshold,                \* MaxConsecutiveFailures; 0 never disables
    RequiredTicks,            \* sampler ticks below the floor; 0 without a floor
    MaxDispatched,            \* bound: uploads started
    Unset                     \* a nil stop reason

ASSUME ControlAssumption ==
    /\ Streams \in Nat \ {0} /\ Threshold \in Nat /\ RequiredTicks \in Nat
    /\ MaxDispatched \in Nat /\ NormalUsers # {} /\ IsFiniteSet(NormalUsers)
    /\ Unset \notin {"user", "duration", "speed-floor", "max-failures"}

LoadUsers == NormalUsers \cup LargeUsers
Kinds == {"normal", "large"}

VARIABLES
    dispatchOn,     \* dispatchCtx is live
    loops,          \* dispatch loops that have not returned
    reason,         \* stopReason, Unset while nil
    cause,          \* what cancelled dispatchCtx first, Unset while live
    sem,            \* tokens taken from the semaphore
    flights,        \* per kind and user: uploads in flight
    skips, dispatched,
    consecutive,    \* per user: account-level failures in a row
    retired,        \* users the policy disabled
    streak,         \* sampler ticks below the floor in a row
    samplerOn,      \* the sampler goroutine runs
    stage,          \* the closing goroutine: run, drain, cancelled, sealed
    sealedReason    \* RunMeta.StopReason

controlVars == <<dispatchOn, loops, reason, cause, sem, flights, skips, dispatched,
                 consecutive, retired, streak, samplerOn, stage, sealedReason>>

ControlInit ==
    /\ dispatchOn = TRUE
    /\ loops = {"normal"} \cup (IF LargeUsers = {} THEN {} ELSE {"large"})
    /\ reason = Unset /\ cause = Unset
    /\ sem = 0 /\ flights = [k \in Kinds |-> [u \in LoadUsers |-> 0]]
    /\ skips = 0 /\ dispatched = 0
    /\ consecutive = [u \in LoadUsers |-> 0] /\ retired = {}
    /\ streak = 0 /\ samplerOn = TRUE
    /\ stage = "run" /\ sealedReason = Unset

\* cancelDispatch: the first one ends the dispatch.
Cancel(why) ==
    /\ dispatchOn' = FALSE
    /\ cause' = IF cause = Unset THEN why ELSE cause

\* stopReason.CompareAndSwap(nil, why): the first reason wins.
Claim(why) == reason' = IF reason = Unset THEN why ELSE reason

\* stopWithReason cancels only if its reason was the first.
StopWithReason(why) ==
    /\ Claim(why)
    /\ IF reason = Unset THEN Cancel(why) ELSE UNCHANGED <<dispatchOn, cause>>

-----------------------------------------------------------------------------
(* The dispatch loops.                                                      *)

InFlight(k) == {u \in LoadUsers : flights[k][u] > 0}

\* pickActiveUser when it tries one user only.
PickFirst(users) == IF users \cap retired = {} THEN users ELSE {}

\* pickActiveUser: some user that is not disabled; where the cursor stands is
\* left open, every minute resets it.
PickActiveUser(users) == users \ retired

\* runNormal's tick: a token or a skip.
DispatchNormal ==
    /\ "normal" \in loops /\ dispatched < MaxDispatched /\ dispatched' = dispatched + 1
    /\ \E u \in PickActiveUser(NormalUsers) :
         IF sem < Streams
         THEN sem' = sem + 1 /\ flights' = [flights EXCEPT !["normal"][u] = @ + 1] /\ UNCHANGED skips
         ELSE skips' = skips + 1 /\ UNCHANGED <<sem, flights>>
    /\ UNCHANGED <<dispatchOn, loops, reason, cause, consecutive, retired, streak, samplerOn, stage, sealedReason>>

\* Every user is disabled: the loop stops the run and returns.
NormalGivesUp ==
    /\ "normal" \in loops /\ PickActiveUser(NormalUsers) = {}
    /\ StopWithReason("max-failures")
    /\ loops' = loops \ {"normal"}
    /\ UNCHANGED <<sem, flights, skips, dispatched, consecutive, retired, streak, samplerOn, stage, sealedReason>>

\* runLargeFile fires without a semaphore, ...
DispatchLarge ==
    /\ "large" \in loops /\ dispatched < MaxDispatched /\ dispatched' = dispatched + 1
    /\ \E u \in PickActiveUser(LargeUsers) : flights' = [flights EXCEPT !["large"][u] = @ + 1]
    /\ UNCHANGED <<dispatchOn, loops, reason, cause, sem, skips, consecutive, retired, streak, samplerOn, stage, sealedReason>>

\* ... and cancels the dispatch without a reason when all are disabled.
LargeGivesUp ==
    /\ "large" \in loops /\ PickActiveUser(LargeUsers) = {}
    /\ Cancel("max-failures")
    /\ loops' = loops \ {"large"}
    /\ UNCHANGED <<reason, sem, flights, skips, dispatched, consecutive, retired, streak, samplerOn, stage, sealedReason>>

LoopReturns(k) ==
    /\ k \in loops /\ ~dispatchOn
    /\ loops' = loops \ {k}
    /\ UNCHANGED <<dispatchOn, reason, cause, sem, flights, skips, dispatched, consecutive, retired, streak, samplerOn, stage, sealedReason>>

-----------------------------------------------------------------------------
(* Uploads and the disable policy.                                          *)

\* The upload's goroutine ends: the deferred token release.
Lands(k, u) ==
    /\ flights[k][u] > 0
    /\ flights' = [flights EXCEPT ![k][u] = @ - 1]
    /\ sem' = IF k = "normal" THEN sem - 1 ELSE sem
    /\ UNCHANGED <<dispatchOn, loops, reason, cause, skips, dispatched, streak, samplerOn, stage, sealedReason>>

\* onSuccess resets the counter.
UploadOk(k, u) ==
    /\ Lands(k, u)
    /\ consecutive' = [consecutive EXCEPT ![u] = 0]
    /\ UNCHANGED retired

\* A failure branch that keeps its token.
FailureKeepsToken(k, u) ==
    /\ flights[k][u] > 0
    /\ flights' = [flights EXCEPT ![k][u] = @ - 1]
    /\ UNCHANGED <<dispatchOn, loops, reason, cause, sem, skips, dispatched, consecutive, retired, streak, samplerOn, stage, sealedReason>>

\* onFailureFor: only POOL_EMPTY and PANIC count towards the threshold;
\* what the server answered (CREATE, WRITE, ...) is a measurement.
UploadFails(k, u) ==
    /\ Lands(k, u)
    /\ \E account \in BOOLEAN :
         LET n == IF account THEN consecutive[u] + 1 ELSE consecutive[u]
         IN /\ consecutive' = [consecutive EXCEPT ![u] = n]
            /\ retired' = IF account /\ Threshold > 0 /\ n >= Threshold
                          THEN retired \cup {u} ELSE retired

-----------------------------------------------------------------------------
(* Stopping.                                                                *)

\* Run.Stop, at any time the run is still registered.
UserStops ==
    /\ stage # "sealed"
    /\ Claim("user")
    /\ Cancel("user")
    /\ UNCHANGED <<loops, sem, flights, skips, dispatched, consecutive, retired, streak, samplerOn, stage, sealedReason>>

\* The deadline timer, or a loop's own deadline check.
DeadlinePasses ==
    /\ dispatchOn
    /\ Cancel("duration")
    /\ UNCHANGED <<loops, reason, sem, flights, skips, dispatched, consecutive, retired, streak, samplerOn, stage, sealedReason>>

\* A sampler tick after warm-up: the latest minute's rate against the peak.
SamplerTick ==
    /\ samplerOn /\ RequiredTicks > 0
    /\ \E low \in BOOLEAN :
         /\ streak' = IF low THEN streak + 1 ELSE 0
         /\ IF streak' >= RequiredTicks
            THEN StopWithReason("speed-floor") /\ samplerOn' = FALSE
            ELSE UNCHANGED <<reason, dispatchOn, cause, samplerOn>>
    /\ UNCHANGED <<loops, sem, flights, skips, dispatched, consecutive, retired, stage, sealedReason>>

\* The closing goroutine: loops and uploads are done, the track-ids drain, ...
DrainBegins ==
    /\ stage = "run" /\ loops = {} /\ \A k \in Kinds : InFlight(k) = {}
    /\ stage' = "drain"
    /\ UNCHANGED <<dispatchOn, loops, reason, cause, sem, flights, skips, dispatched, consecutive, retired, streak, samplerOn, sealedReason>>

\* ... the outer context is cancelled and the sampler returns, ...
OuterCancelled ==
    /\ stage = "drain"
    /\ stage' = "cancelled" /\ samplerOn' = FALSE
    /\ UNCHANGED <<dispatchOn, loops, reason, cause, sem, flights, skips, dispatched, consecutive, retired, streak, sealedReason>>

\* ... and sealAllAndWriteMeta records the reason, "duration" when nil.
SealReason ==
    /\ stage = "cancelled"
    /\ stage' = "sealed"
    /\ sealedReason' = IF reason = Unset THEN "duration" ELSE reason
    /\ UNCHANGED <<dispatchOn, loops, reason, cause, sem, flights, skips, dispatched, consecutive, retired, streak, samplerOn>>

ControlNext ==
    \/ DispatchNormal \/ NormalGivesUp \/ DispatchLarge \/ LargeGivesUp
    \/ \E k \in Kinds : LoopReturns(k) \/ \E u \in LoadUsers : UploadOk(k, u) \/ UploadFails(k, u)
    \/ UserStops \/ DeadlinePasses \/ SamplerTick
    \/ DrainBegins \/ OuterCancelled \/ SealReason

ControlSpec == ControlInit /\ [][ControlNext]_controlVars

-----------------------------------------------------------------------------
(* Properties.                                                              *)

\* Every token of the semaphore belongs to an upload in flight: no failure,
\* panic or late tick leaks a slot or frees one twice (runner.go:2046-2066).
TokensMatchUploads ==
    /\ sem = Cardinality({token \in NormalUsers \X (1..MaxDispatched) : token[2] <= flights["normal"][token[1]]})
    /\ sem <= Streams

\* A run that stopped for "max-failures" has no upload user left to dispatch
\* to, however failures, successes and ticks interleaved (runner.go:2037-2044).
MaxFailuresMeansAll ==
    "max-failures" \in {reason, sealedReason} => NormalUsers \subseteq retired

\* "so the analysis trailer reflects the actual cause, not the cosmetic
\* operator action that followed" (runner.go:1545-1546): the sealed reason is
\* what ended the dispatch.
SealedReasonIsCause == stage = "sealed" => sealedReason = cause
=============================================================================
