--------------------------- MODULE ObjectStorage ---------------------------
(***************************************************************************)
(* Files in the object storage and the rows that point to them: the proofs *)
(* of a proposal (receipts and attachments) and the generated documents.   *)
(*                                                                         *)
(* No transaction covers both.  An upload stores the object first and      *)
(* commits its row afterwards; when the commit raises, it deletes the      *)
(* object, whether the row is there or not.  A removal commits first.  The *)
(* daily retention deletes the documents that expired and the objects no   *)
(* row refers to.  Receipts lock their proposal while they are created;    *)
(* attachments and removals only look at it.                               *)
(***************************************************************************)
EXTENDS Integers, FiniteSets, Functions

CONSTANTS
    Chaves,         \* keys of proofs, numbers here: one upload each
    Documentos,     \* keys of generated documents
    Prefixos,       \* how many prefixes the bucket gives a key: 0 or 1
    Carencia,       \* grace of an object without a row, in ticks
    Pedidos

ASSUME StorageAssumption ==
    /\ Chaves \subseteq Nat /\ Chaves \cap Documentos = {}
    /\ Prefixos \in {0, 1} /\ Carencia \in Nat \ {0}

VARIABLES
    objetos,        \* physical key -> age of the object, up to the grace
    comprovantes,   \* rows of receipts and attachments
    tipo,           \* which of the two a key is for
    documentos,     \* rows of stored_documents
    vencidos,       \* those past their retention
    usadas,         \* keys handed out
    emAnalise,      \* the proposal is waiting for its decision
    emCurso,        \* requests
    limpeza,        \* the retention job
    incertas        \* history: keys whose commit went through and raised

storageVars == <<objetos, comprovantes, tipo, documentos, vencidos, usadas, emAnalise, emCurso,
                 limpeza, incertas>>

SemPedido == [passo |-> "livre"]

\* A key under the prefix of the bucket, and without it.
ChaveComPrefixo(k) == [k EXCEPT !.prefixos = @ + Prefixos]

Relativa(fisica) == [fisica EXCEPT !.prefixos = @ - Prefixos]

Chave(base) == [base |-> base, prefixos |-> 0]

Fisica(base) == ChaveComPrefixo(Chave(base))

\* The worker writes the physical key of a document in its row.
ChaveDoDocumento(d) == Fisica(d)

Guardar(k) == [c \in DOMAIN objetos \cup {k} |-> IF c = k THEN 0 ELSE objetos[c]]

Remover(S) == Restrict(objetos, DOMAIN objetos \ S)

Anda(p, r) == emCurso' = [emCurso EXCEPT ![p] = r]

-----------------------------------------------------------------------------
\* Uploads.

\* Mutant: the proposal is not looked at.
EditavelSempre == TRUE

\* editavel_pelo_cadastrante, aceita_recebimento
Editavel == ~emAnalise

\* A new key is like any other one: the smallest stands for it.
Enviar(p, k, t) ==
    /\ emCurso[p] = SemPedido /\ Editavel
    /\ k \notin usadas /\ \A outra \in Chaves \ usadas : k <= outra
    /\ usadas' = usadas \cup {k} /\ tipo' = [tipo EXCEPT ![k] = t]
    /\ objetos' = Guardar(Fisica(k))
    /\ Anda(p, [passo |-> "enviado", chave |-> k, antes |-> FALSE])
    /\ UNCHANGED <<comprovantes, documentos, vencidos, emAnalise, limpeza, incertas>>

Adicionar(k) == comprovantes' = comprovantes \cup {k}

\* The commit may go through, go through with its answer lost, or fail.
Registrar(p) ==
    /\ emCurso[p].passo = "enviado"
    /\ \/ Adicionar(emCurso[p].chave) /\ Anda(p, SemPedido)
          /\ UNCHANGED incertas
       \/ /\ Adicionar(emCurso[p].chave)
          /\ incertas' = incertas \cup {emCurso[p].chave}
          /\ Anda(p, [emCurso[p] EXCEPT !.passo = "desfazendo"])
       \/ Anda(p, [emCurso[p] EXCEPT !.passo = "desfazendo"])
          /\ UNCHANGED <<comprovantes, incertas>>
    /\ UNCHANGED <<objetos, tipo, documentos, vencidos, usadas, emAnalise, limpeza>>

\* A failure of this deletion is suppressed: see Cair.
DiscardUploaded(p) ==
    /\ emCurso[p].passo = "desfazendo"
    /\ objetos' = Remover({Fisica(emCurso[p].chave)})
    /\ Anda(p, SemPedido)
    /\ UNCHANGED <<comprovantes, tipo, documentos, vencidos, usadas, emAnalise, limpeza, incertas>>

-----------------------------------------------------------------------------
\* Removals.

IniciarRemocao(p, k) ==
    /\ emCurso[p] = SemPedido /\ Editavel /\ k \in comprovantes
    /\ \A q \in Pedidos : emCurso[q] # SemPedido /\ tipo[k] = "recibo" => emCurso[q].chave # k
    /\ Anda(p, [passo |-> "removendo", chave |-> k, antes |-> FALSE])
    /\ UNCHANGED <<objetos, comprovantes, tipo, documentos, vencidos, usadas, emAnalise, limpeza,
                   incertas>>

ConfirmarRemocao(p) ==
    /\ emCurso[p].passo = "removendo"
    /\ comprovantes' = comprovantes \ {emCurso[p].chave}
    /\ Anda(p, [emCurso[p] EXCEPT !.passo = "apagando"])
    /\ UNCHANGED <<objetos, tipo, documentos, vencidos, usadas, emAnalise, limpeza, incertas>>

ApagarObjeto(p) ==
    /\ emCurso[p].passo = "apagando"
    /\ objetos' = Remover({Fisica(emCurso[p].chave)})
    /\ Anda(p, SemPedido)
    /\ UNCHANGED <<comprovantes, tipo, documentos, vencidos, usadas, emAnalise, limpeza, incertas>>

\* A request, or a call of the storage in it, dies: what is committed stays.
Cair(p) ==
    /\ emCurso[p] # SemPedido /\ Anda(p, SemPedido)
    /\ UNCHANGED <<objetos, comprovantes, tipo, documentos, vencidos, usadas, emAnalise, limpeza,
                   incertas>>

\* A submission waits for the receipt whose creation holds the proposal.
Submeter ==
    /\ ~emAnalise
    /\ \A p \in Pedidos : emCurso[p].passo = "enviado" => tipo[emCurso[p].chave] = "anexo"
    /\ emAnalise' = TRUE
    /\ emCurso' = [p \in Pedidos |-> IF emCurso[p] = SemPedido THEN SemPedido
                                     ELSE [emCurso[p] EXCEPT !.antes = TRUE]]
    /\ UNCHANGED <<objetos, comprovantes, tipo, documentos, vencidos, usadas, limpeza, incertas>>

Devolver ==
    /\ emAnalise /\ emAnalise' = FALSE
    /\ UNCHANGED <<objetos, comprovantes, tipo, documentos, vencidos, usadas, emCurso, limpeza,
                   incertas>>

-----------------------------------------------------------------------------
\* Generated documents and the retention job.

GerarDocumento(d) ==
    /\ Fisica(d) \notin DOMAIN objetos /\ d \notin documentos \cup vencidos
    /\ objetos' = Guardar(ChaveDoDocumento(d)) /\ documentos' = documentos \cup {d}
    /\ UNCHANGED <<comprovantes, tipo, vencidos, usadas, emAnalise, emCurso, limpeza, incertas>>

Vencer(d) ==
    /\ d \in documentos \ vencidos /\ vencidos' = vencidos \cup {d}
    /\ UNCHANGED <<objetos, comprovantes, tipo, documentos, usadas, emAnalise, emCurso, limpeza,
                   incertas>>

\* Mutant: no grace.
CorteSemCarencia == DOMAIN objetos

\* Objects older than the grace when the job begins.
Corte == {k \in DOMAIN objetos : objetos[k] >= Carencia}

IniciarLimpeza ==
    /\ limpeza = SemPedido
    /\ limpeza' = [passo |-> "documentos", velhas |-> Corte, docs |-> documentos \cap vencidos,
                   apagados |-> {}]
    /\ UNCHANGED <<objetos, comprovantes, tipo, documentos, vencidos, usadas, emAnalise, emCurso,
                   incertas>>

\* The key of the row is given the prefix once more.  When the storage fails the
\* row is left for another day.
ApagarDocumento(d) ==
    /\ limpeza.passo = "documentos" /\ d \in limpeza.docs
    /\ \/ /\ objetos' = Remover({ChaveComPrefixo(ChaveDoDocumento(d))})
          /\ limpeza' = [limpeza EXCEPT !.docs = @ \ {d}, !.apagados = @ \cup {d}]
       \/ limpeza' = [limpeza EXCEPT !.docs = @ \ {d}] /\ UNCHANGED objetos
    /\ UNCHANGED <<comprovantes, tipo, documentos, vencidos, usadas, emAnalise, emCurso, incertas>>

LerReferencias ==
    /\ limpeza.passo = "documentos" /\ limpeza.docs = {}
    /\ limpeza' = [passo |-> "orfaos", apagados |-> limpeza.apagados,
                   orfas |-> {k \in limpeza.velhas : k.base \in Chaves
                                  /\ Relativa(k) \notin {Chave(c) : c \in comprovantes}}]
    /\ UNCHANGED <<objetos, comprovantes, tipo, documentos, vencidos, usadas, emAnalise, emCurso,
                   incertas>>

ApagarOrfa(k) ==
    /\ limpeza.passo = "orfaos" /\ k \in limpeza.orfas
    /\ objetos' = Remover({k})
    /\ limpeza' = [limpeza EXCEPT !.orfas = @ \ {k}]
    /\ UNCHANGED <<comprovantes, tipo, documentos, vencidos, usadas, emAnalise, emCurso, incertas>>

ConcluirLimpeza ==
    /\ limpeza.passo = "orfaos" /\ limpeza.orfas = {}
    /\ documentos' = documentos \ limpeza.apagados
    /\ limpeza' = SemPedido
    /\ UNCHANGED <<objetos, comprovantes, tipo, vencidos, usadas, emAnalise, emCurso, incertas>>

\* The job dies or the storage fails: its deletions of rows are undone.
FalharLimpeza ==
    /\ limpeza # SemPedido /\ limpeza' = SemPedido
    /\ UNCHANGED <<objetos, comprovantes, tipo, documentos, vencidos, usadas, emAnalise, emCurso,
                   incertas>>

\* A request does not outlast the grace, which is a day.
PassarTempo ==
    /\ \A p \in Pedidos : emCurso[p].passo = "enviado" => objetos[Fisica(emCurso[p].chave)] + 1 < Carencia
    /\ objetos' = [k \in DOMAIN objetos |-> IF objetos[k] < Carencia THEN objetos[k] + 1 ELSE Carencia]
    /\ objetos' # objetos
    /\ UNCHANGED <<comprovantes, tipo, documentos, vencidos, usadas, emAnalise, emCurso, limpeza,
                   incertas>>

StorageInit ==
    /\ objetos = <<>> /\ comprovantes = {} /\ tipo = [k \in Chaves |-> "anexo"]
    /\ documentos = {} /\ vencidos = {} /\ usadas = {} /\ emAnalise = FALSE
    /\ emCurso = [p \in Pedidos |-> SemPedido] /\ limpeza = SemPedido /\ incertas = {}

StorageNext ==
    \/ \E p \in Pedidos :
           \/ \E k \in Chaves, t \in {"recibo", "anexo"} : Enviar(p, k, t)
           \/ \E k \in Chaves : IniciarRemocao(p, k)
           \/ Registrar(p) \/ DiscardUploaded(p)
           \/ ConfirmarRemocao(p) \/ ApagarObjeto(p) \/ Cair(p)
    \/ Submeter \/ Devolver
    \/ \E d \in Documentos : GerarDocumento(d) \/ Vencer(d) \/ ApagarDocumento(d)
    \/ \E k \in DOMAIN objetos : ApagarOrfa(k)
    \/ IniciarLimpeza \/ LerReferencias \/ ConcluirLimpeza \/ FalharLimpeza
    \/ PassarTempo

StorageSpec == StorageInit /\ [][StorageNext]_storageVars

-----------------------------------------------------------------------------
\* Properties.

\* A committed row points to an object that is there, unless the commit of the
\* row went through with its answer lost (receipt_service.py:351, "linha
\* apontando para arquivo inexistente"), or the document has expired.
RowsPointToObjects ==
    /\ \A k \in comprovantes \ incertas : Fisica(k) \in DOMAIN objetos
    /\ \A d \in documentos \ vencidos : ChaveDoDocumento(d) \in DOMAIN objetos

\* What is being analysed changes only by a request that looked at the proposal
\* before it was submitted (add_proposal_attachment.py:3).
AnalysedProofsStay ==
    [][emAnalise /\ comprovantes' # comprovantes
          => \E p \in Pedidos : /\ emCurso[p].passo \in {"enviado", "removendo"}
                                /\ emCurso[p].antes /\ emCurso'[p] # emCurso[p]]_storageVars

\* What the code says of it: no row points to a file that is not there
\* (receipt_service.py:351).
NoRowWithoutFile == \A k \in comprovantes : Fisica(k) \in DOMAIN objetos
=============================================================================
