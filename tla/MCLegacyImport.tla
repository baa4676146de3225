---------------------------- MODULE MCLegacyImport ----------------------------
(***************************************************************************)
(* Tables of the former system for TLC: rows that are right and rows that  *)
(* differ from them in one field.                                          *)
(***************************************************************************)
EXTENDS LegacyImport

LinhaConsultor(nome, documento, papel, empresa) ==
    [id |-> TRUE, nome |-> nome, documento |-> documento, papel |-> papel, empresa |-> empresa]

MCConsultants ==
    {LinhaConsultor(n, d, "BKO", Vazio) : n \in {"ana", Vazio}, d \in {1, 2, Ilegivel}}
        \union {LinhaConsultor("ana", 1, Ilegivel, "mei"),
                [LinhaConsultor("ana", 1, "BKO", Vazio) EXCEPT !.id = FALSE]}

Boa == [id |-> TRUE, consultor |-> 7, operacao |-> 4, tps |-> 1, data |-> 1, pago |-> 0,
        comissao |-> 4, status |-> "ABERTA", redmine |-> 1, cliente |-> 5,
        bko |-> "ana", finalizacao |-> Vazio]

MCPropostas ==
    {Boa, [Boa EXCEPT !.id = FALSE], [Boa EXCEPT !.consultor = Vazio],
     [Boa EXCEPT !.data = Ilegivel], [Boa EXCEPT !.tps = Vazio]}
        \union {[Boa EXCEPT !.operacao = v] : v \in {Vazio, Ilegivel, 0}}

MCTabelaProposals ==
    MCPropostas
        \union {[Boa EXCEPT !.pago = v] : v \in {Vazio, Ilegivel, 2, 4}}
        \union {[Boa EXCEPT !.comissao = v] : v \in {Vazio, Ilegivel, 3}}
        \union {[Boa EXCEPT !.redmine = v, !.bko = Vazio] : v \in {Vazio, 1}}
        \union {[Boa EXCEPT !.redmine = 2, !.finalizacao = "rui"],
                [Boa EXCEPT !.status = Vazio], [Boa EXCEPT !.cliente = Ilegivel]}

SemPago(linhas) == {[l EXCEPT !.pago = Vazio] : l \in linhas}

MCLinhas ==
    [consultants |-> MCConsultants, proposals |-> MCTabelaProposals, propostas |-> SemPago(MCPropostas),
     sales |-> SemPago(MCPropostas \union {[Boa EXCEPT !.cliente = Ilegivel]})]
=============================================================================
