--------------------------- MODULE MCOrganization ---------------------------
(***************************************************************************)
(* A consultant and two who can lead, registered before day 1, for TLC.    *)
(***************************************************************************)
EXTENDS Organization, TLC

CONSTANTS consultor1, lider1, lider2

Uma(quem, papel) ==
    {[n |-> 0, quem |-> quem, papel |-> papel, de |-> 0, ate |-> UltimoDia + 1]}

MCFuncoesDe ==
    consultor1 :> Uma(consultor1, "CONSULTOR")
        @@ lider1 :> Uma(lider1, "LIDER") @@ lider2 :> Uma(lider2, "LIDER")
=============================================================================
