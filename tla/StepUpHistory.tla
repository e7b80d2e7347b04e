---------------------------- MODULE StepUpHistory ---------------------------
(***************************************************************************)
(* What a confirmation replaces.  confirm_totp disables the factors it     *)
(* read as active and activates its own; it cannot have read a factor that *)
(* another session of the user activates at the same time, and the table   *)
(* allows several active rows.  The steps are those of StepUp; one         *)
(* variable remembers which confirmations an activation overlapped with.   *)
(***************************************************************************)
EXTENDS StepUp

VARIABLE rivals  \* history: factors being confirmed when a factor was activated

Confirming == {job[q].factor : q \in {r \in Request : pc[r] = "confirm"}}

Activates(f) == factor[f].status # "ACTIVE" /\ factor'[f].status = "ACTIVE"

Remember ==
  rivals' = [f \in FactorId |->
    IF Activates(f) THEN Confirming \ {f}
    ELSE IF factor'[f].status = "ACTIVE" THEN rivals[f] ELSE {}]

HistoryInit == Init /\ rivals = [f \in FactorId |-> {}]
HistoryNext == Next /\ Remember
HistorySpec == HistoryInit /\ [][HistoryNext]_<<vars, rivals>>

-----------------------------------------------------------------------------
(* A confirmed factor replaces the one before it, whatever enrollments,    *)
(* deactivations and other confirmations come between reading and writing: *)
(* two factors of a user are active together only if one was confirmed     *)
(* while the confirmation of the other was under way.                      *)
ConfirmationReplaces ==
  \A f, g \in Having("ACTIVE") : f # g => f \in rivals[g] \/ g \in rivals[f]
=============================================================================
