-------------------------- MODULE PayoutContract ---------------------------
(***************************************************************************)
(* What whoever pays the settlements relies on, without the arithmetic:    *)
(* one account per beneficiary and window.                                 *)
(***************************************************************************)
EXTENDS Integers

CONSTANTS Beneficiaries, Windows

VARIABLES
    phase,      \* "none", "open" or "settled"
    paid,       \* money handed out
    frozen      \* the windows whose calculation is frozen

vars == <<phase, paid, frozen>>

Init ==
    /\ phase = [b \in Beneficiaries |-> [w \in Windows |-> "none"]]
    /\ paid = [b \in Beneficiaries |-> [w \in Windows |-> 0]]
    /\ frozen = [w \in Windows |-> FALSE]

\* A calculation never touches a settled account, opens the others at will, and
\* settles one only when money was handed out on it.
MayBecome(b, w) ==
    CASE phase[b][w] = "none" -> {"none", "open"}
      [] phase[b][w] = "open" ->
            IF paid[b][w] > 0 THEN {"open", "settled"} ELSE {"open"}
      [] OTHER -> {phase[b][w]}

Calculate(w) ==
    /\ ~frozen[w]
    /\ \E new \in [Beneficiaries -> {"none", "open", "settled"}] :
        /\ \A b \in Beneficiaries : new[b] \in MayBecome(b, w)
        /\ phase' = [b \in Beneficiaries |-> [phase[b] EXCEPT ![w] = new[b]]]
    /\ UNCHANGED <<paid, frozen>>

Pay(b, w) ==
    /\ phase[b][w] = "open"
    /\ paid'[b][w] > paid[b][w]
    /\ paid' = [paid EXCEPT ![b][w] = paid'[b][w]]
    /\ \E new \in {"open", "settled"} : phase' = [phase EXCEPT ![b][w] = new]
    /\ UNCHANGED frozen

Freeze(w) ==
    /\ frozen' = [frozen EXCEPT ![w] = ~@]
    /\ UNCHANGED <<phase, paid>>

Next ==
    \/ \E w \in Windows : Calculate(w) \/ Freeze(w)
    \/ \E b \in Beneficiaries, w \in Windows : Pay(b, w)

Spec == Init /\ [][Next]_vars
=============================================================================
