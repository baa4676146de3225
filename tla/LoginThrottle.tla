--------------------------- MODULE LoginThrottle ---------------------------
(***************************************************************************)
(* The limit on log-ins: failures of an e-mail or of an address are        *)
(* counted before a password is looked at, and an attempt is recorded, at  *)
(* the time it began, when it ends.  Attempts run at the same time and     *)
(* nothing is locked.  A refused attempt is a failure too, and a success   *)
(* erases nothing.                                                         *)
(***************************************************************************)
EXTENDS Integers, FiniteSets

CONSTANTS
    Emails, Ips, Clientes,
    MaxTentativas,      \* failures after which an attempt is refused
    Janela,             \* the window they are counted in, in ticks
    MaxRegistros        \* bound: attempts ever begun

\* security.py:30, login_max_attempts is at least one.
ASSUME ThrottleAssumption ==
    IsFiniteSet(Clientes) /\ MaxTentativas \in Nat \ {0} /\ Janela \in Nat

VARIABLES
    tentativas,         \* failures recorded in the window: [id, email, ip, motivo, idade]
    emCurso,            \* attempts between the count and the record
    iniciadas           \* how many began

throttleVars == <<tentativas, emCurso, iniciadas>>

SemTentativa == [motivo |-> ""]

ContarFalhas(email, ip) == Cardinality({t \in tentativas : t.email = email \/ t.ip = ip})

Registro(id, email, ip, motivo) ==
    [id |-> id, email |-> email, ip |-> ip, motivo |-> motivo, idade |-> 0]

\* Mutant: one failure too many.
BloqueadoDepois(falhas) == falhas > MaxTentativas

Bloqueado(falhas) == falhas >= MaxTentativas

\* An attempt that will fail; one that succeeds leaves nothing that is counted.
Tentar(c, email, ip, motivo) ==
    /\ emCurso[c] = SemTentativa /\ iniciadas < MaxRegistros
    /\ motivo = "throttled" <=> Bloqueado(ContarFalhas(email, ip))
    /\ iniciadas' = iniciadas + 1
    /\ emCurso' = [emCurso EXCEPT ![c] = Registro(iniciadas + 1, email, ip, motivo)]
    /\ UNCHANGED tentativas

\* An attempt that outlasted the window is recorded outside of it.
RegistrarFalha(c) ==
    /\ emCurso[c] # SemTentativa
    /\ tentativas' = tentativas \cup (IF emCurso[c].idade <= Janela THEN {emCurso[c]} ELSE {})
    /\ emCurso' = [emCurso EXCEPT ![c] = SemTentativa]
    /\ UNCHANGED iniciadas

Envelhece ==
    /\ tentativas' = {[t EXCEPT !.idade = @ + 1] : t \in {u \in tentativas : u.idade < Janela}}
    /\ emCurso' = [c \in Clientes |->
                      IF emCurso[c] = SemTentativa \/ emCurso[c].idade > Janela THEN emCurso[c]
                      ELSE [emCurso[c] EXCEPT !.idade = @ + 1]]
    /\ UNCHANGED iniciadas

ThrottleInit ==
    tentativas = {} /\ emCurso = [c \in Clientes |-> SemTentativa] /\ iniciadas = 0

ThrottleNext ==
    \/ \E c \in Clientes :
           \/ \E e \in Emails, ip \in Ips, m \in {"throttled", "invalid_credentials"} :
                  Tentar(c, e, ip, m)
           \/ RegistrarFalha(c)
    \/ Envelhece

ThrottleSpec == ThrottleInit /\ [][ThrottleNext]_throttleVars

-----------------------------------------------------------------------------
\* Passwords that are looked at in one window, for one e-mail or from one
\* address, are at most the limit and what runs at the same time
\* (login_throttle_policy.py, contar_falhas).
GuessesPerWindow ==
    LET vistas == {t \in tentativas \cup {emCurso[c] : c \in Clientes} :
                      t.motivo = "invalid_credentials" /\ t.idade <= Janela}
    IN  /\ \A e \in Emails : Cardinality({t \in vistas : t.email = e})
                                  < MaxTentativas + Cardinality(Clientes)
        /\ \A ip \in Ips : Cardinality({t \in vistas : t.ip = ip})
                                < MaxTentativas + Cardinality(Clientes)
=============================================================================
