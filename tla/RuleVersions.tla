---------------------------- MODULE RuleVersions ----------------------------
(***************************************************************************)
(* Versions of the commission rules: rule sets, configurations of a        *)
(* strategy, and the individual policies of a beneficiary.  The three      *)
(* tables never meet; a behaviour is about the one `especie' names.        *)
(*                                                                         *)
(* A rule set or a configuration is a draft until it is activated, and     *)
(* activations run at the same time: Prepare locks the draft, checks it    *)
(* and locks the next active version; Activate reads the earlier ones      *)
(* again, as its locking SELECT does, and commits.  A policy is in force   *)
(* from the commit that creates it.                                        *)
(***************************************************************************)
EXTENDS Integers, FiniteSets

CONSTANTS
    Horizonte,      \* the calendar is 1..Horizonte
    MaxVersoes,     \* bound: versions created
    Processos       \* requests in flight

ASSUME RuleVersionsAssumption == Horizonte \in Nat \ {0} /\ MaxVersoes \in Nat

Calendario == 1..Horizonte

\* An end that is NULL.
SemFim == Horizonte + 1

Especies == {"regras", "estrategia", "excecao"}

Versao == [id : 1..MaxVersoes, status : {"DRAFT", "ACTIVE"}, de : Calendario, ate : 0..SemFim]

VARIABLES
    especie,        \* the table
    dataAtual,      \* the business date
    versoes,        \* its rows
    processos,      \* requests between their reads and their commit
    concorreu       \* one of them was in flight while another committed

regrasVars == <<especie, dataAtual, versoes, processos, concorreu>>

Livre == [op |-> "idle"]

-----------------------------------------------------------------------------
\* The rows a SELECT sees.

Ativas == {v \in versoes : v.status = "ACTIVE"}

VigentesEm(dia) == {v \in Ativas : v.de <= dia /\ dia <= v.ate}

UltimasIniciadas(vs) == {v \in vs : \A w \in vs : w.de <= v.de}

\* Mutant: nothing breaks a tie.
ConjuntoSemDesempate(dia) == UltimasIniciadas(VigentesEm(dia))

\* The rule set, or the configuration, an engine uses on a day.
ConjuntoDeRegras(dia) ==
    LET vs == UltimasIniciadas(VigentesEm(dia))
    IN  {v \in vs : \A w \in vs : w.id <= v.id}

\* The policy of a beneficiary: nothing breaks a tie.
PoliticaDoBeneficiario(dia) == UltimasIniciadas(VigentesEm(dia))

\* What the engines may be given on a day, as the ids of rows.
RegraEm(dia) ==
    {v.id : v \in IF especie = "excecao" THEN PoliticaDoBeneficiario(dia)
                  ELSE ConjuntoDeRegras(dia)}

-----------------------------------------------------------------------------
\* Commands.

Travadas(p) == UNION {processos[q].travas : q \in {r \in Processos \ {p} : processos[r] # Livre}}

NovoId == Cardinality(versoes) + 1

Rascunho(de) == [id |-> NovoId, status |-> "DRAFT", de |-> de, ate |-> SemFim]

\* The version is not taken and the ranges or the parameters are valid.
CreateDraft(de) ==
    /\ especie # "excecao"
    /\ NovoId <= MaxVersoes
    /\ de > dataAtual
    /\ versoes' = versoes \union {Rascunho(de)}
    /\ UNCHANGED <<especie, dataAtual, processos, concorreu>>

\* Mutant: a version may start today.
AntesDoInicioInclusive(v) == v.de >= dataAtual

AntesDoInicio(v) == v.de > dataAtual

Proximas(v) == {w \in Ativas : w.de >= v.de}

Proxima(v) == {w \in Proximas(v) : \A x \in Proximas(v) : w.de <= x.de}

Prepare(p, v) ==
    /\ especie # "excecao"
    /\ processos[p] = Livre
    /\ v.id \notin Travadas(p)
    /\ v.status = "DRAFT"
    /\ AntesDoInicio(v)
    /\ \A w \in Proximas(v) : w.de # v.de
    /\ \A w \in Proxima(v) : w.id \notin Travadas(p)
    /\ processos' = [processos EXCEPT ![p] =
           [op |-> "activate", id |-> v.id, dia |-> dataAtual, proxima |-> Proxima(v),
            travas |-> {v.id} \union {w.id : w \in Proxima(v)}]]
    /\ UNCHANGED <<especie, dataAtual, versoes, concorreu>>

Anteriores(v) == {w \in Ativas : w.de < v.de /\ v.de <= w.ate}

Encerrar(ws, de) == {[w EXCEPT !.ate = de - 1] : w \in ws}

\* Mutant: the new version ends where it does not meet the next one.
FimAntesDaProxima(proxima) ==
    IF proxima = {} THEN SemFim ELSE (CHOOSE w \in proxima : TRUE).de - 2

FimAte(proxima) ==
    IF proxima = {} THEN SemFim ELSE (CHOOSE w \in proxima : TRUE).de - 1

\* Requests in flight when another one commits have raced.
Encerra(p) ==
    /\ processos' = [processos EXCEPT ![p] = Livre]
    /\ concorreu' = (concorreu \/ \E q \in Processos \ {p} : processos[q] # Livre)

Activate(p) ==
    /\ processos[p].op = "activate"
    /\ \E v \in versoes :
        /\ v.id = processos[p].id
        /\ \A w \in Anteriores(v) : w.id \notin Travadas(p)
        /\ versoes' = (versoes \ ({v} \union Anteriores(v)))
               \union Encerrar(Anteriores(v), v.de)
               \union {[v EXCEPT !.status = "ACTIVE", !.ate = FimAte(processos[p].proxima)]}
    /\ Encerra(p)
    /\ UNCHANGED <<especie, dataAtual>>

\* The consultant has the function on that day, and the policy is consistent.
\* The policies in force on it are locked.
PreparePolicy(p, de) ==
    /\ especie = "excecao"
    /\ processos[p] = Livre
    /\ de >= dataAtual
    /\ \A v \in VigentesEm(de) : v.id \notin Travadas(p)
    /\ processos' = [processos EXCEPT ![p] =
           [op |-> "policy", de |-> de, dia |-> dataAtual, anteriores |-> VigentesEm(de),
            travas |-> {v.id : v \in VigentesEm(de)}]]
    /\ UNCHANGED <<especie, dataAtual, versoes, concorreu>>

CreatePolicy(p) ==
    /\ processos[p].op = "policy"
    /\ NovoId <= MaxVersoes
    /\ LET r == processos[p]
       IN  versoes' = (versoes \ r.anteriores)
               \union Encerrar(r.anteriores, r.de)
               \union {[id |-> NovoId, status |-> "ACTIVE", de |-> r.de, ate |-> SemFim]}
    /\ Encerra(p)
    /\ UNCHANGED <<especie, dataAtual>>

\* The process dies, or InnoDB chooses it as the victim of a deadlock.
Abort(p) ==
    /\ processos[p] # Livre
    /\ processos' = [processos EXCEPT ![p] = Livre]
    /\ UNCHANGED <<especie, dataAtual, versoes, concorreu>>

Midnight ==
    /\ dataAtual < Horizonte
    /\ dataAtual' = dataAtual + 1
    /\ UNCHANGED <<especie, versoes, processos, concorreu>>

-----------------------------------------------------------------------------
RulesInit ==
    /\ especie \in Especies
    /\ dataAtual = 1
    /\ versoes = {}
    /\ processos = [p \in Processos |-> Livre]
    /\ concorreu = FALSE

RulesNext ==
    \/ \E de \in Calendario : CreateDraft(de)
    \/ \E p \in Processos :
        \/ \E v \in versoes : Prepare(p, v)
        \/ \E de \in Calendario : PreparePolicy(p, de)
        \/ Activate(p) \/ CreatePolicy(p) \/ Abort(p)
    \/ Midnight

RulesSpec == RulesInit /\ [][RulesNext]_regrasVars

-----------------------------------------------------------------------------
RulesTypeOK ==
    /\ especie \in Especies
    /\ dataAtual \in Calendario
    /\ versoes \subseteq Versao
    /\ concorreu \in BOOLEAN

\* A day that has a rule keeps one: no activation, however many run together,
\* leaves a gap between the version it closes and the next one ("Nao ha regra
\* ativa em" would stop every calculation of the day).
NeverUncovered ==
    [][\A dia \in Calendario : RegraEm(dia) # {} => RegraEm(dia)' # {}]_regrasVars

\* Rules change forwards only: the rule of a day changes at the commit of a
\* request that was checked before that day (for a policy, not after it), so what
\* was calculated with it can be calculated again; a request that waits over
\* midnight included.
PastRulesAreFixed ==
    [][\A dia \in Calendario : RegraEm(dia)' # RegraEm(dia) =>
           \E p \in Processos :
               /\ processos[p] # Livre /\ processos'[p] = Livre
               /\ processos[p].dia < dia \/ (especie = "excecao" /\ processos[p].dia = dia)]_regrasVars

\* A day has one rule, whatever ran together, but for two policies that start on
\* the same day and were created together.
OneRulePerDay ==
    \A dia \in Calendario :
        Cardinality(RegraEm(dia)) <= 1 \/ (especie = "excecao" /\ concorreu)
=============================================================================
