------------------------- MODULE AuthSessionHistory -------------------------
(***************************************************************************)
(* What a password change or a deactivation leaves behind.  The sessions   *)
(* it revokes are those it selected (repository.py, revoke_all_user_       *)
(* sessions); a login that commits while it waits for the rows is not      *)
(* among them.  The steps are those of AuthSession; one variable remembers *)
(* what each revocation cannot have seen.                                  *)
(***************************************************************************)
EXTENDS AuthSession

VARIABLE missed  \* history: sessions inserted since a revocation selected

(* The sessions to revoke have been read and are not committed yet.        *)
Selected(q) == pc[q] \in {"lock_user", "lock_sessions"}

Inserted == {s \in SessionId : ~Exists(s) /\ Exists(s)'}

Remember ==
  missed' = [q \in Request |->
    IF Selected(q) /\ Selected(q)' THEN missed[q] \cup Inserted ELSE {}]

HistoryInit == Init /\ missed = [q \in Request |-> {}]
HistoryNext == Next /\ Remember
HistorySpec == HistoryInit /\ [][HistoryNext]_<<vars, missed>>

-----------------------------------------------------------------------------
(* A password change or a deactivation that commits leaves no session of   *)
(* the user behind, the one it came through included, whatever was         *)
(* expired, logged out or revoked while it waited for the rows: what is    *)
(* still live was opened by a login that overlapped with it.               *)
RevocationIsComplete ==
  [][\A q \in Request :
       Selected(q) /\ reply'[q] = "done" =>
         \A s \in SessionId :
           Live(s)' /\ session'[s].user = job[q].target => s \in missed[q]]_<<vars, missed>>
=============================================================================
