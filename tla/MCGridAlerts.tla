----------------------------- MODULE MCGridAlerts -----------------------------
(* GridAlerts with two branches, each held for a second, or with none: the *)
(* advice is then that of a critical price.                                *)
EXTENDS GridAlerts

MCHoldFor == "normal" :> 1 @@ "buffer_urgent" :> 1
MCNoBranch == <<>>
=============================================================================
