-------------------------- MODULE CommissionRules --------------------------
(***************************************************************************)
(* The arithmetic of the commission strategies (commissions/domain): what  *)
(* a base earns under a configuration.  Amounts are in centavos and        *)
(* percentages in whole per cent, so every quantization of the code is a   *)
(* division rounded half up.                                               *)
(***************************************************************************)
EXTENDS Integers, Sequences, FiniteSetsExt

\* The open end of the last range.
NoLimit == -1

Smaller(x, y) == IF x < y THEN x ELSE y

Larger(x, y) == IF x < y THEN y ELSE x

\* Decimal.quantize(CENTAVO, ROUND_HALF_UP) of the fraction n / d.
Quantize(n, d) == (2 * n + d) \div (2 * d)

Percent(base, percentage) == Quantize(base * percentage, 100)

-----------------------------------------------------------------------------
\* Ranges [min, max).

Contem(faixa, x) == faixa.min <= x /\ (faixa.max = NoLimit \/ x < faixa.max)

\* validar_faixas: from zero, without a gap or an overlap, open at the end.
Continuas(faixas) ==
    /\ faixas # <<>>
    /\ faixas[1].min = 0
    /\ faixas[Len(faixas)].max = NoLimit
    /\ \A i \in 1..(Len(faixas) - 1) :
        faixas[i].max > faixas[i].min /\ faixas[i + 1].min = faixas[i].max

Percentuais(faixas) == \A i \in DOMAIN faixas : faixas[i].percentage \in 0..100

Faixa == [min : Int, max : Int, percentage : 0..100]

ValidStandard(faixas) == faixas \in Seq(Faixa) /\ Continuas(faixas)

FaixaTps == [min : Int, max : Int]

FaixaProducao == [min : Int, max : Int, percentages : Seq(0..100)]

ValidScaled(config) ==
    /\ config.production \in Seq(FaixaProducao) /\ Continuas(config.production)
    /\ config.tps \in Seq(FaixaTps) /\ Continuas(config.tps)
    /\ \A i \in DOMAIN config.production :
        DOMAIN config.production[i].percentages = DOMAIN config.tps

\* The tiers of the general leader end: what is produced above them earns
\* nothing.
ValidTiers(tiers) ==
    /\ tiers # <<>>
    /\ tiers[1].min = 0
    /\ \A i \in 1..(Len(tiers) - 1) : tiers[i + 1].min = tiers[i].max
    /\ \A i \in DOMAIN tiers : tiers[i].max >= 0
    /\ Percentuais(tiers)

ValidShares(config) == config.mei \in 0..100 /\ config.clt \in 0..100

\* validate_strategy_config, with one set of parameters per strategy (and any
\* number of columns of TPS, of which the code wants four).
ValidConfig(config) ==
    /\ ValidStandard(config.standard)
    /\ ValidScaled(config.scaled)
    /\ ValidShares(config.commercial) /\ config.commercial.minTps \in 0..100
    /\ config.general.base \in 0..100 /\ ValidTiers(config.general.tiers)
    /\ config.finalizer.threshold >= 0
    /\ config.finalizer.fixed >= 0
    /\ config.finalizer.excess \in 0..100
    /\ ValidShares(config.finalization)

-----------------------------------------------------------------------------
\* What a base earns.

PercentualPadrao(faixas, tps) ==
    faixas[CHOOSE i \in DOMAIN faixas : Contem(faixas[i], tps)].percentage

\* The part of the production in before..after that falls into a range.
Parcela(faixa, before, after) ==
    Larger(Smaller(after, IF faixa.max = NoLimit THEN after ELSE faixa.max)
               - Larger(before, faixa.min), 0)

\* calcular_consultor_escalonado: each segment is rounded by itself.
ConsultorEscalonado(config, tps, before, production) ==
    LET column == CHOOSE j \in DOMAIN config.tps : Contem(config.tps[j], tps)
    IN  SumFunction([i \in DOMAIN config.production |->
            Percent(Percent(Parcela(config.production[i], before, before + production), tps),
                    config.production[i].percentages[column])])

ShareOf(config, regime) == IF regime = "MEI" THEN config.mei ELSE config.clt

ComissaoLiderComercial(config, regime, tps, base) ==
    Percent(base, IF regime = "MEI" /\ tps < config.minTps THEN 0 ELSE ShareOf(config, regime))

ComissaoProgressiva(config, production) ==
    SumFunction([i \in DOMAIN config.tiers |->
        Percent(Percent(Parcela(config.tiers[i], 0, production), config.base),
                config.tiers[i].percentage)])

ComissaoFinalizador(config, base) ==
    IF base < config.threshold THEN 0
    ELSE Quantize(100 * config.fixed + (base - config.threshold) * config.excess, 100)

ComissaoLiderFinalizacao(config, regime, base) == Percent(base, ShareOf(config, regime))
=============================================================================
