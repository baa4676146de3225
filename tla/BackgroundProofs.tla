--------------------------- MODULE BackgroundProofs ---------------------------
(***************************************************************************)
(* Proofs about what works behind the requests: ObjectStorage, for any     *)
(* keys, documents, grace and number of requests, Scheduler, for any       *)
(* schedulers, days and retention, Outbox, for any number of events and    *)
(* dispatchers and any limit of a batch, and DocumentJobs, for any number  *)
(* of workers and jobs, with what one worker alone keeps besides.          *)
(***************************************************************************)
EXTENDS ObjectStorage, Scheduler, Outbox, DocumentJobs, TLAPS

-----------------------------------------------------------------------------
\* Keys.

\* The two forms of a key.
LEMMA PhysicalKey ==
    ASSUME StorageAssumption, NEW b
    PROVE  /\ Fisica(b) = [base |-> b, prefixos |-> Prefixos]
           /\ Fisica(b).base = b
           /\ Relativa(Fisica(b)) = Chave(b)
           /\ \A c : Fisica(c) = Fisica(b) => c = b
           /\ \A c : Chave(c) = Chave(b) => c = b
  <1>1. \A c : Fisica(c) = [base |-> c, prefixos |-> Prefixos]
    BY DEF Fisica, ChaveComPrefixo, Chave, StorageAssumption
  <1>2. \A c : Fisica(c).base = c
    BY <1>1
  <1>3. Relativa(Fisica(b)) = Chave(b)
    BY <1>1 DEF Relativa, Chave, StorageAssumption
  <1>4. \A c : Chave(c).base = c
    BY DEF Chave
  <1> QED
    BY <1>1, <1>2, <1>3, <1>4, Zenon

\* The key the retention deletes a document under is its own or nobody's.
LEMMA PrefixedTwice ==
    ASSUME StorageAssumption, NEW d, NEW b, ChaveComPrefixo(ChaveDoDocumento(d)) = Fisica(b)
    PROVE  d = b
  BY PhysicalKey DEF ChaveComPrefixo, ChaveDoDocumento

-----------------------------------------------------------------------------
\* The invariant of the storage.

Curso == [passo : {"enviado", "desfazendo", "removendo", "apagando"}, chave : Chaves,
          antes : BOOLEAN]

Com(p, em) == emCurso[p] # SemPedido /\ emCurso[p].passo = em

\* Keys in use: a key has an object only after it was handed out.
KeysOK ==
    /\ DOMAIN emCurso = Pedidos
    /\ \A p \in Pedidos : emCurso[p] = SemPedido \/ emCurso[p] \in Curso
    /\ \A p \in Pedidos : emCurso[p] # SemPedido => emCurso[p].chave \in usadas
    /\ comprovantes \subseteq usadas /\ usadas \subseteq Chaves
    /\ documentos \subseteq Documentos /\ vencidos \subseteq Documentos
    /\ \A f \in DOMAIN objetos : objetos[f] \in Nat /\ \E b \in usadas \cup Documentos : f = Fisica(b)

\* An upload owns its key, its object is there and is younger than the grace; a
\* request that deletes an object deletes one that no sure row points to.
RequestsOK ==
    \A p \in Pedidos :
        /\ Com(p, "enviado") =>
               /\ Fisica(emCurso[p].chave) \in DOMAIN objetos
               /\ objetos[Fisica(emCurso[p].chave)] < Carencia
               /\ emCurso[p].chave \notin comprovantes
               /\ \A q \in Pedidos \ {p} :
                      emCurso[q] # SemPedido => emCurso[q].chave # emCurso[p].chave
        /\ Com(p, "desfazendo") => emCurso[p].chave \notin comprovantes \ incertas
        /\ Com(p, "apagando") => emCurso[p].chave \notin comprovantes

\* The retention looks at nothing younger than the grace, and deletes nothing that
\* a row points to or is about to.
CleaningOK ==
    \/ limpeza = SemPedido
    \/ /\ limpeza \in [passo : {"documentos"}, velhas : SUBSET {Fisica(b) : b \in usadas \cup Documentos},
                       docs : SUBSET vencidos, apagados : SUBSET vencidos]
       /\ \A p \in Pedidos : Com(p, "enviado") => Fisica(emCurso[p].chave) \notin limpeza.velhas
    \/ /\ limpeza \in [passo : {"orfaos"}, orfas : SUBSET {Fisica(b) : b \in usadas},
                       apagados : SUBSET vencidos]
       /\ \A p \in Pedidos : Com(p, "enviado") => Fisica(emCurso[p].chave) \notin limpeza.orfas
       /\ \A k \in comprovantes : Fisica(k) \notin limpeza.orfas

\* What is in flight while the proposal is analysed began before.
AnalysisOK ==
    emAnalise => \A p \in Pedidos : emCurso[p] # SemPedido => emCurso[p].antes

SInv == KeysOK /\ RequestsOK /\ CleaningOK /\ AnalysisOK /\ RowsPointToObjects

LEMMA SInvInitially ==
    ASSUME StorageAssumption, StorageInit
    PROVE  SInv
  BY DEF StorageInit, SInv, KeysOK, RequestsOK, CleaningOK, AnalysisOK, RowsPointToObjects, Com

\* Nothing is deleted that a sure row or an upload needs.
LEMMA DeletionKeeps ==
    ASSUME StorageAssumption, SInv, NEW b, objetos' = Remover({Fisica(b)}),
           b \in Chaves \/ b \in vencidos,
           b \notin comprovantes \ incertas,
           \A p \in Pedidos : Com(p, "enviado") => emCurso[p].chave # b
    PROVE  /\ \A f \in DOMAIN objetos' :
                  f \in DOMAIN objetos /\ objetos'[f] = objetos[f]
           /\ \A k \in comprovantes \ incertas : Fisica(k) \in DOMAIN objetos'
           /\ \A d \in documentos \ vencidos : ChaveDoDocumento(d) \in DOMAIN objetos'
           /\ \A p \in Pedidos : Com(p, "enviado") =>
                  /\ Fisica(emCurso[p].chave) \in DOMAIN objetos'
                  /\ objetos'[Fisica(emCurso[p].chave)] = objetos[Fisica(emCurso[p].chave)]
  <1>1. objetos' = [f \in DOMAIN objetos \ {Fisica(b)} |-> objetos[f]]
    BY DEF Remover, Restrict
  <1>2. \A c : c # b => Fisica(c) # Fisica(b)
    BY PhysicalKey, Zenon
  <1>3. \A k \in comprovantes \ incertas : Fisica(k) \in DOMAIN objetos'
    BY <1>1, <1>2 DEF SInv, RowsPointToObjects
  <1>4. \A d \in documentos \ vencidos : ChaveDoDocumento(d) \in DOMAIN objetos'
    <2>1. \A d \in documentos \ vencidos : d # b
      BY DEF SInv, KeysOK, StorageAssumption
    <2> QED
      BY <1>1, <1>2, <2>1 DEF SInv, RowsPointToObjects, ChaveDoDocumento
  <1> QED
    BY <1>1, <1>2, <1>3, <1>4 DEF SInv, RequestsOK

-----------------------------------------------------------------------------
\* The steps of a request.

LEMMA UploadKeeps ==
    ASSUME StorageAssumption, SInv, NEW p \in Pedidos, NEW k \in Chaves, NEW t, Enviar(p, k, t)
    PROVE  SInv'
  <1> DEFINE r == [passo |-> "enviado", chave |-> k, antes |-> FALSE]
  <1>1. /\ emCurso' = [emCurso EXCEPT ![p] = r] /\ emCurso[p] = SemPedido
        /\ usadas' = usadas \cup {k} /\ k \notin usadas
        /\ ~emAnalise /\ objetos' = Guardar(Fisica(k))
        /\ UNCHANGED <<comprovantes, documentos, vencidos, emAnalise, limpeza, incertas>>
    BY DEF Enviar, Anda, Editavel
  <1>2. /\ DOMAIN objetos' = DOMAIN objetos \cup {Fisica(k)} /\ objetos'[Fisica(k)] = 0
        /\ \A f \in DOMAIN objetos \ {Fisica(k)} : objetos'[f] = objetos[f]
    BY <1>1 DEF Guardar
  <1>3. /\ emCurso'[p] = r /\ \A q \in Pedidos \ {p} : emCurso'[q] = emCurso[q]
        /\ r \in Curso /\ r # SemPedido
    BY <1>1 DEF SInv, KeysOK, Curso, SemPedido
  <1>4. \A b : Fisica(b) = Fisica(k) => b = k
    BY PhysicalKey, Zenon
  <1>5. KeysOK'
    <2>1. \A f \in DOMAIN objetos' :
              objetos'[f] \in Nat /\ \E b \in usadas' \cup Documentos : f = Fisica(b)
      BY <1>1, <1>2 DEF SInv, KeysOK
    <2>2. \A q \in Pedidos :
              /\ emCurso'[q] = SemPedido \/ emCurso'[q] \in Curso
              /\ emCurso'[q] # SemPedido => emCurso'[q].chave \in usadas'
      BY <1>1, <1>3 DEF SInv, KeysOK
    <2> QED
      BY <1>1, <2>1, <2>2 DEF SInv, KeysOK
  <1>6. RequestsOK'
    <2>1. k \notin comprovantes /\ \A q \in Pedidos : emCurso[q] # SemPedido => emCurso[q].chave # k
      BY <1>1 DEF SInv, KeysOK
    <2>2. Com(p, "enviado")' /\ ~Com(p, "desfazendo")' /\ ~Com(p, "apagando")'
      BY <1>3 DEF Com
    <2>3. ASSUME NEW q \in Pedidos \ {p}, NEW em
          PROVE  Com(q, em)' <=> Com(q, em)
      BY <1>3 DEF Com
    <2>4. ASSUME NEW q \in Pedidos \ {p}, Com(q, "enviado")
          PROVE  /\ Fisica(emCurso[q].chave) \in DOMAIN objetos'
                 /\ objetos'[Fisica(emCurso[q].chave)] < Carencia
      BY <1>2, <1>4, <2>1, <2>4 DEF SInv, RequestsOK, Com
    <2>5. ASSUME NEW q \in Pedidos, Com(q, "enviado")'
          PROVE  /\ Fisica(emCurso'[q].chave) \in DOMAIN objetos'
                 /\ objetos'[Fisica(emCurso'[q].chave)] < Carencia
                 /\ emCurso'[q].chave \notin comprovantes'
                 /\ \A o \in Pedidos \ {q} :
                        emCurso'[o] # SemPedido => emCurso'[o].chave # emCurso'[q].chave
      <3>1. CASE q = p
        BY <1>1, <1>2, <1>3, <2>1, <3>1 DEF StorageAssumption
      <3>2. CASE q # p
        <4>1. Com(q, "enviado") /\ emCurso'[q] = emCurso[q]
          BY <1>3, <2>3, <2>5, <3>2
        <4>2. emCurso[q].chave # k
          BY <2>1, <4>1 DEF Com
        <4> QED
          BY <1>1, <1>3, <2>4, <4>1, <4>2, <3>2 DEF SInv, RequestsOK
      <3> QED
        BY <3>1, <3>2
    <2>6. ASSUME NEW q \in Pedidos
          PROVE  /\ Com(q, "desfazendo")' => emCurso'[q].chave \notin comprovantes' \ incertas'
                 /\ Com(q, "apagando")' => emCurso'[q].chave \notin comprovantes'
      BY <1>1, <1>3, <2>2, <2>3 DEF SInv, RequestsOK
    <2> QED
      BY <2>5, <2>6 DEF RequestsOK
  <1>7. CleaningOK'
    <2>1. /\ \A b \in usadas : Fisica(b) # Fisica(k)
          /\ \A b \in Documentos : Fisica(b) # Fisica(k)
      BY <1>1, <1>4 DEF StorageAssumption
    <2>2. ASSUME NEW q \in Pedidos, Com(q, "enviado")'
          PROVE  q = p \/ Com(q, "enviado")
      BY <1>3, <2>2 DEF Com
    <2>3. CASE limpeza.passo = "documentos"
      BY <1>1, <1>3, <2>1, <2>2, <2>3 DEF SInv, CleaningOK, SemPedido
    <2>4. CASE limpeza.passo = "orfaos"
      BY <1>1, <1>3, <2>1, <2>2, <2>4 DEF SInv, CleaningOK, SemPedido
    <2>5. CASE limpeza = SemPedido
      BY <1>1, <2>5 DEF CleaningOK
    <2> QED
      BY <2>3, <2>4, <2>5 DEF SInv, CleaningOK
  <1>8. AnalysisOK'
    BY <1>1 DEF AnalysisOK
  <1>9. RowsPointToObjects'
    BY <1>1, <1>2 DEF SInv, RowsPointToObjects
  <1> QED
    BY <1>5, <1>6, <1>7, <1>8, <1>9 DEF SInv

\* A step of a request under way, or its removal: it adds at most the row of its
\* own upload, and deletes no object of another upload.
LEMMA RequestMoves ==
    ASSUME StorageAssumption, SInv, NEW p \in Pedidos, NEW r,
           emCurso' = [emCurso EXCEPT ![p] = r],
           r = SemPedido \/ (r \in Curso /\ r.chave \in usadas /\ r.passo # "enviado"),
           emAnalise /\ r # SemPedido => r.antes,
           UNCHANGED <<documentos, vencidos, usadas, emAnalise, limpeza>>,
           \A k \in comprovantes' \ comprovantes : Com(p, "enviado") /\ k = emCurso[p].chave,
           incertas \subseteq incertas',
           \A f \in DOMAIN objetos' : f \in DOMAIN objetos /\ objetos'[f] = objetos[f],
           \A q \in Pedidos \ {p} : Com(q, "enviado") =>
               Fisica(emCurso[q].chave) \in DOMAIN objetos' /\ (r # SemPedido => r.chave # emCurso[q].chave),
           r.passo = "desfazendo" => r.chave \notin comprovantes' \ incertas',
           r.passo = "apagando" => r.chave \notin comprovantes'
    PROVE  KeysOK' /\ RequestsOK' /\ CleaningOK' /\ AnalysisOK'
  <1>1. /\ emCurso'[p] = r /\ \A q \in Pedidos \ {p} : emCurso'[q] = emCurso[q]
        /\ DOMAIN emCurso' = Pedidos
    BY DEF SInv, KeysOK
  <1>2. ASSUME NEW q \in Pedidos, Com(q, "enviado")'
        PROVE  q # p /\ Com(q, "enviado") /\ emCurso'[q] = emCurso[q]
    BY <1>1, <1>2 DEF Com, Curso
  <1>3. ASSUME Com(p, "enviado")
        PROVE  /\ emCurso[p].chave \in usadas
               /\ \A q \in Pedidos \ {p} : emCurso[q] # SemPedido => emCurso[q].chave # emCurso[p].chave
    BY <1>3 DEF SInv, KeysOK, RequestsOK, Com
  <1>4. KeysOK'
    <2>1. comprovantes' \subseteq usadas
      BY <1>3 DEF SInv, KeysOK
    <2>2. \A q \in Pedidos :
              /\ emCurso'[q] = SemPedido \/ emCurso'[q] \in Curso
              /\ emCurso'[q] # SemPedido => emCurso'[q].chave \in usadas
      BY <1>1 DEF SInv, KeysOK
    <2> QED
      BY <1>1, <2>1, <2>2 DEF SInv, KeysOK
  <1>5. RequestsOK'
    <2>1. ASSUME NEW q \in Pedidos, Com(q, "enviado")'
          PROVE  /\ Fisica(emCurso'[q].chave) \in DOMAIN objetos'
                 /\ objetos'[Fisica(emCurso'[q].chave)] < Carencia
                 /\ emCurso'[q].chave \notin comprovantes'
                 /\ \A o \in Pedidos \ {q} :
                        emCurso'[o] # SemPedido => emCurso'[o].chave # emCurso'[q].chave
      <3>1. q # p /\ Com(q, "enviado") /\ emCurso'[q] = emCurso[q]
        BY <1>2, <2>1
      <3>2. Fisica(emCurso[q].chave) \in DOMAIN objetos' /\ objetos'[Fisica(emCurso[q].chave)] < Carencia
        BY <3>1 DEF SInv, RequestsOK
      <3>3. emCurso[q].chave \notin comprovantes'
        BY <1>3, <3>1 DEF SInv, RequestsOK, Com
      <3>4. \A o \in Pedidos \ {q} : emCurso'[o] # SemPedido => emCurso'[o].chave # emCurso[q].chave
        BY <1>1, <3>1 DEF SInv, RequestsOK
      <3> QED
        BY <3>1, <3>2, <3>3, <3>4
    <2>2. ASSUME NEW q \in Pedidos
          PROVE  /\ Com(q, "desfazendo")' => emCurso'[q].chave \notin comprovantes' \ incertas'
                 /\ Com(q, "apagando")' => emCurso'[q].chave \notin comprovantes'
      <3>1. CASE q = p
        BY <1>1, <3>1 DEF Com
      <3>2. CASE q # p
        BY <1>1, <1>3, <3>2 DEF SInv, RequestsOK, Com
      <3> QED
        BY <3>1, <3>2
    <2> QED
      BY <2>1, <2>2 DEF RequestsOK
  <1>6. CleaningOK'
    <2>1. CASE limpeza = SemPedido
      BY <2>1 DEF CleaningOK
    <2>2. CASE limpeza.passo = "documentos" /\ limpeza # SemPedido
      BY <1>2, <2>2 DEF SInv, CleaningOK
    <2>3. CASE limpeza.passo = "orfaos" /\ limpeza # SemPedido
      <3>1. \A k \in comprovantes' : Fisica(k) \notin limpeza.orfas
        BY <2>3 DEF SInv, CleaningOK
      <3> QED
        BY <1>2, <2>3, <3>1 DEF SInv, CleaningOK
    <2> QED
      BY <2>1, <2>2, <2>3 DEF SInv, CleaningOK
  <1>7. AnalysisOK'
    BY <1>1 DEF SInv, AnalysisOK
  <1> QED
    BY <1>4, <1>5, <1>6, <1>7

LEMMA RegistrationKeeps ==
    ASSUME StorageAssumption, SInv, NEW p \in Pedidos, Registrar(p)
    PROVE  SInv'
  <1> DEFINE k == emCurso[p].chave
             r == [emCurso[p] EXCEPT !.passo = "desfazendo"]
  <1>1. Com(p, "enviado") /\ emCurso[p] \in Curso /\ k \in usadas
    BY DEF Registrar, Com, SInv, KeysOK, SemPedido
  <1>2. r \in Curso /\ r.chave = k /\ r.antes = emCurso[p].antes /\ r.passo = "desfazendo"
    BY <1>1 DEF Curso
  <1>3. /\ Fisica(k) \in DOMAIN objetos /\ k \notin comprovantes
        /\ \A q \in Pedidos \ {p} : Com(q, "enviado") => emCurso[q].chave # k
    BY <1>1 DEF SInv, RequestsOK, Com
  <1>4. /\ UNCHANGED <<objetos, documentos, vencidos, usadas, emAnalise, limpeza>>
        /\ \/ /\ comprovantes' = comprovantes \cup {k} /\ incertas' = incertas
              /\ emCurso' = [emCurso EXCEPT ![p] = SemPedido]
           \/ /\ comprovantes' = comprovantes \cup {k} /\ incertas' = incertas \cup {k}
              /\ emCurso' = [emCurso EXCEPT ![p] = r]
           \/ /\ comprovantes' = comprovantes /\ incertas' = incertas
              /\ emCurso' = [emCurso EXCEPT ![p] = r]
    BY DEF Registrar, Adicionar, Anda
  <1>5. SemPedido.passo = "livre"
    BY DEF SemPedido
  <1>6. KeysOK' /\ RequestsOK' /\ CleaningOK' /\ AnalysisOK'
    <2> HIDE DEF r, k
    <2>1. \A q \in Pedidos \ {p} : Com(q, "enviado") => Fisica(emCurso[q].chave) \in DOMAIN objetos'
      BY <1>4 DEF SInv, RequestsOK
    <2>2. emAnalise => r.antes
      BY <1>1, <1>2 DEF SInv, AnalysisOK, Com
    <2>3. ASSUME emCurso' = [emCurso EXCEPT ![p] = SemPedido] PROVE RequestsOK' /\ KeysOK' /\ CleaningOK' /\ AnalysisOK'
      BY <1>1, <1>4, <1>5, <2>1, <2>3, RequestMoves DEF k
    <2>4. ASSUME emCurso' = [emCurso EXCEPT ![p] = r], k \notin comprovantes' \ incertas'
          PROVE  RequestsOK' /\ KeysOK' /\ CleaningOK' /\ AnalysisOK'
      <3>1. \A q \in Pedidos \ {p} : Com(q, "enviado") => r.chave # emCurso[q].chave
        BY <1>2, <1>3
      <3>2. \A o \in comprovantes' \ comprovantes : Com(p, "enviado") /\ o = emCurso[p].chave
        BY <1>1, <1>4 DEF k
      <3>3. /\ UNCHANGED <<documentos, vencidos, usadas, emAnalise, limpeza>>
            /\ incertas \subseteq incertas'
            /\ \A f \in DOMAIN objetos' : f \in DOMAIN objetos /\ objetos'[f] = objetos[f]
        BY <1>4
      <3>4. /\ r \in Curso /\ r.chave \in usadas /\ r.passo # "enviado"
            /\ r.chave \notin comprovantes' \ incertas' /\ r.passo # "apagando"
        BY <1>1, <1>2, <2>4
      <3> QED
        BY <2>1, <2>2, <2>4, <3>1, <3>2, <3>3, <3>4, RequestMoves
    <2> QED
      BY <1>3, <1>4, <2>3, <2>4
  <1>7. RowsPointToObjects'
    BY <1>3, <1>4 DEF SInv, RowsPointToObjects
  <1> QED
    BY <1>6, <1>7 DEF SInv

\* A request that ends, having deleted an object or nothing.
LEMMA EndingKeeps ==
    ASSUME StorageAssumption, SInv, NEW p \in Pedidos,
           DiscardUploaded(p) \/ ApagarObjeto(p) \/ Cair(p)
    PROVE  SInv'
  <1>1. /\ emCurso' = [emCurso EXCEPT ![p] = SemPedido] /\ emCurso[p] # SemPedido
        /\ UNCHANGED <<comprovantes, documentos, vencidos, usadas, emAnalise, limpeza, incertas>>
    BY DEF DiscardUploaded, ApagarObjeto, Cair, Anda, SemPedido
  <1>2. /\ \A f \in DOMAIN objetos' : f \in DOMAIN objetos /\ objetos'[f] = objetos[f]
        /\ \A k \in comprovantes \ incertas : Fisica(k) \in DOMAIN objetos'
        /\ \A d \in documentos \ vencidos : ChaveDoDocumento(d) \in DOMAIN objetos'
        /\ \A q \in Pedidos \ {p} : Com(q, "enviado") =>
               Fisica(emCurso[q].chave) \in DOMAIN objetos'
    <2>1. CASE Cair(p)
      BY <2>1 DEF Cair, SInv, RequestsOK, RowsPointToObjects
    <2>2. CASE DiscardUploaded(p) \/ ApagarObjeto(p)
      <3> DEFINE b == emCurso[p].chave
      <3>1. b \in Chaves /\ b \notin comprovantes \ incertas
        BY <1>1, <2>2 DEF DiscardUploaded, ApagarObjeto, SInv, KeysOK, RequestsOK, Com
      <3>2. \A q \in Pedidos : Com(q, "enviado") => emCurso[q].chave # b
        <4>1. ~Com(p, "enviado")
          BY <2>2 DEF DiscardUploaded, ApagarObjeto, Com
        <4> QED
          BY <1>1, <4>1 DEF SInv, RequestsOK
      <3>3. objetos' = Remover({Fisica(b)})
        BY <2>2 DEF DiscardUploaded, ApagarObjeto
      <3> HIDE DEF b
      <3> QED
        BY <3>1, <3>2, <3>3, DeletionKeeps
    <2> QED
      BY <2>1, <2>2
  <1>3. SemPedido.passo = "livre"
    BY DEF SemPedido
  <1>4. KeysOK' /\ RequestsOK' /\ CleaningOK' /\ AnalysisOK'
    BY <1>1, <1>2, <1>3, RequestMoves
  <1>5. RowsPointToObjects'
    BY <1>1, <1>2 DEF RowsPointToObjects, ChaveDoDocumento
  <1> QED
    BY <1>4, <1>5 DEF SInv

\* What a removal does with its request and with the rows.
Removal(p, r) ==
    /\ emCurso' = [emCurso EXCEPT ![p] = r] /\ r.chave \in usadas
    /\ r.passo \in {"removendo", "apagando"} /\ (emAnalise => r.antes)
    /\ comprovantes' \subseteq comprovantes
    /\ r.passo = "apagando" => r.chave \notin comprovantes'
    /\ \A q \in Pedidos \ {p} : Com(q, "enviado") => r.chave # emCurso[q].chave

LEMMA RemovalKeeps ==
    ASSUME StorageAssumption, SInv, NEW p \in Pedidos,
           ConfirmarRemocao(p) \/ \E k \in Chaves : IniciarRemocao(p, k)
    PROVE  SInv'
  <1>1. ASSUME NEW k \in Chaves, IniciarRemocao(p, k)
        PROVE  \E r \in Curso : Removal(p, r)
    <2> DEFINE r == [passo |-> "removendo", chave |-> k, antes |-> FALSE]
    <2>1. r \in Curso
      BY DEF Curso
    <2>2. Removal(p, r)
      BY <1>1 DEF IniciarRemocao, Anda, Editavel, Removal, SInv, KeysOK, RequestsOK
    <2> QED
      BY <2>1, <2>2
  <1>2. ASSUME ConfirmarRemocao(p)
        PROVE  \E r \in Curso : Removal(p, r)
    <2> DEFINE r == [emCurso[p] EXCEPT !.passo = "apagando"]
    <2>1. emCurso[p] # SemPedido
      BY <1>2 DEF ConfirmarRemocao, SemPedido
    <2>2. emCurso[p] \in Curso /\ emCurso[p].chave \in usadas /\ (emAnalise => emCurso[p].antes)
      BY <2>1 DEF SInv, KeysOK, AnalysisOK
    <2>3. \A q \in Pedidos \ {p} : Com(q, "enviado") => emCurso[p].chave # emCurso[q].chave
      BY <2>1 DEF SInv, RequestsOK
    <2>4. /\ r \in Curso /\ r.chave = emCurso[p].chave /\ r.antes = emCurso[p].antes
          /\ r.passo = "apagando"
      BY <2>2 DEF Curso
    <2>5. emCurso' = [emCurso EXCEPT ![p] = r] /\ comprovantes' = comprovantes \ {emCurso[p].chave}
      BY <1>2 DEF ConfirmarRemocao, Anda
    <2> HIDE DEF r
    <2> QED
      BY <2>2, <2>3, <2>4, <2>5 DEF Removal
  <1>3. PICK r \in Curso : Removal(p, r)
    BY <1>1, <1>2
  <1>4. UNCHANGED <<objetos, documentos, vencidos, usadas, emAnalise, limpeza, incertas>>
    BY DEF ConfirmarRemocao, IniciarRemocao
  <1>5. /\ emCurso' = [emCurso EXCEPT ![p] = r] /\ r.chave \in usadas
        /\ r.passo # "enviado" /\ r.passo # "desfazendo" /\ (emAnalise => r.antes)
        /\ r.passo = "apagando" => r.chave \notin comprovantes'
        /\ \A k \in comprovantes' \ comprovantes : Com(p, "enviado") /\ k = emCurso[p].chave
    BY <1>3 DEF Removal
  <1>6. /\ incertas \subseteq incertas'
        /\ \A f \in DOMAIN objetos' : f \in DOMAIN objetos /\ objetos'[f] = objetos[f]
    BY <1>4
  <1>7. \A q \in Pedidos \ {p} : Com(q, "enviado") =>
           /\ Fisica(emCurso[q].chave) \in DOMAIN objetos'
           /\ r # SemPedido => r.chave # emCurso[q].chave
    BY <1>3, <1>4 DEF SInv, RequestsOK, Removal
  <1>8. KeysOK' /\ RequestsOK' /\ CleaningOK' /\ AnalysisOK'
    BY <1>4, <1>5, <1>6, <1>7, RequestMoves
  <1>9. RowsPointToObjects'
    BY <1>3, <1>4 DEF SInv, RowsPointToObjects, Removal
  <1> QED
    BY <1>8, <1>9 DEF SInv

\* A submission marks what is under way; a return changes no request.
LEMMA AnalysisKeeps ==
    ASSUME StorageAssumption, SInv, Submeter \/ Devolver
    PROVE  SInv'
  <1>1. CASE Submeter
    <2>1. UNCHANGED <<objetos, comprovantes, documentos, vencidos, usadas, limpeza, incertas>>
      BY <1>1 DEF Submeter
    <2>2. ASSUME NEW p \in Pedidos
          PROVE  \/ emCurso[p] = SemPedido /\ emCurso'[p] = SemPedido
                 \/ /\ emCurso[p] # SemPedido /\ emCurso'[p] # SemPedido
                    /\ emCurso[p] \in Curso /\ emCurso'[p] \in Curso /\ emCurso'[p].antes
                    /\ emCurso'[p].passo = emCurso[p].passo /\ emCurso'[p].chave = emCurso[p].chave
      <3>1. emCurso'[p] = IF emCurso[p] = SemPedido THEN SemPedido
                          ELSE [emCurso[p] EXCEPT !.antes = TRUE]
        BY <1>1 DEF Submeter
      <3>2. CASE emCurso[p] = SemPedido
        BY <3>1, <3>2
      <3>3. CASE emCurso[p] # SemPedido
        <4>1. emCurso[p] \in Curso
          BY <3>3 DEF SInv, KeysOK
        <4>2. emCurso'[p] \in Curso /\ emCurso'[p].antes /\ emCurso'[p].chave = emCurso[p].chave
              /\ emCurso'[p].passo = emCurso[p].passo
          BY <3>1, <3>3, <4>1 DEF Curso
        <4>3. emCurso'[p] # SemPedido
          BY <4>1, <4>2 DEF Curso, SemPedido
        <4> QED
          BY <3>3, <4>1, <4>2, <4>3
      <3> QED
        BY <3>2, <3>3
    <2>3. DOMAIN emCurso' = Pedidos
      BY <1>1 DEF Submeter
    <2>4. \A p \in Pedidos : \A em : Com(p, em)' <=> Com(p, em)
      BY <2>2 DEF Com
    <2>5. KeysOK'
      BY <2>1, <2>2, <2>3 DEF SInv, KeysOK
    <2>6. RequestsOK'
      <3>1. ASSUME NEW p \in Pedidos
            PROVE  /\ Com(p, "enviado")' =>
                          /\ Fisica(emCurso'[p].chave) \in DOMAIN objetos
                          /\ objetos[Fisica(emCurso'[p].chave)] < Carencia
                          /\ emCurso'[p].chave \notin comprovantes
                   /\ Com(p, "desfazendo")' => emCurso'[p].chave \notin comprovantes \ incertas
                   /\ Com(p, "apagando")' => emCurso'[p].chave \notin comprovantes
        BY <2>2, <2>4 DEF SInv, RequestsOK, Com
      <3>2. ASSUME NEW p \in Pedidos, Com(p, "enviado")', NEW q \in Pedidos \ {p},
                   emCurso'[q] # SemPedido
            PROVE  emCurso'[q].chave # emCurso'[p].chave
        BY <2>2, <2>4, <3>2 DEF SInv, RequestsOK, Com
      <3> QED
        BY <2>1, <3>1, <3>2 DEF RequestsOK
    <2>7. CleaningOK'
      <3>1. \A p \in Pedidos : Com(p, "enviado")' => Com(p, "enviado") /\ emCurso'[p].chave = emCurso[p].chave
        BY <2>2, <2>4 DEF Com
      <3> QED
        BY <2>1, <3>1 DEF SInv, CleaningOK
    <2>8. AnalysisOK'
      BY <2>2 DEF AnalysisOK
    <2>9. RowsPointToObjects'
      BY <2>1 DEF SInv, RowsPointToObjects
    <2> QED
      BY <2>5, <2>6, <2>7, <2>8, <2>9 DEF SInv
  <1>2. CASE Devolver
    <2>1. /\ UNCHANGED <<objetos, comprovantes, documentos, vencidos, usadas, emCurso, limpeza, incertas>>
          /\ ~emAnalise'
      BY <1>2 DEF Devolver
    <2> QED
      BY <2>1 DEF SInv, KeysOK, RequestsOK, CleaningOK, AnalysisOK, RowsPointToObjects, Com
  <1> QED
    BY <1>1, <1>2

-----------------------------------------------------------------------------
\* Documents, the retention and the time.

LEMMA DocumentsKeep ==
    ASSUME StorageAssumption, SInv, NEW d \in Documentos, GerarDocumento(d) \/ Vencer(d)
    PROVE  SInv'
  <1>1. UNCHANGED <<comprovantes, usadas, emAnalise, emCurso, limpeza, incertas>>
    BY DEF GerarDocumento, Vencer
  <1>2. /\ documentos' \subseteq Documentos /\ vencidos' \subseteq Documentos
        /\ vencidos \subseteq vencidos'
    BY DEF GerarDocumento, Vencer, SInv, KeysOK
  <1>3. \A p \in Pedidos : \A em : Com(p, em)' <=> Com(p, em)
    BY <1>1 DEF Com
  <1>4. /\ \A f \in DOMAIN objetos : f \in DOMAIN objetos' /\ objetos'[f] = objetos[f]
        /\ \A f \in DOMAIN objetos' \ DOMAIN objetos : f = Fisica(d) /\ objetos'[f] = 0
        /\ \A e \in documentos' \ vencidos' : ChaveDoDocumento(e) \in DOMAIN objetos'
    BY DEF GerarDocumento, Vencer, Guardar, ChaveDoDocumento, SInv, RowsPointToObjects
  <1>5. KeysOK'
    <2>1. ASSUME NEW f \in DOMAIN objetos'
          PROVE  objetos'[f] \in Nat /\ \E b \in usadas' \cup Documentos : f = Fisica(b)
      <3>1. CASE f \in DOMAIN objetos
        BY <1>1, <1>4, <3>1 DEF SInv, KeysOK
      <3>2. CASE f \notin DOMAIN objetos
        BY <1>4, <2>1, <3>2
      <3> QED
        BY <3>1, <3>2
    <2> QED
      BY <1>1, <1>2, <2>1 DEF SInv, KeysOK
  <1>6. RequestsOK'
    BY <1>1, <1>3, <1>4 DEF SInv, RequestsOK
  <1>7. CleaningOK'
    BY <1>1, <1>2, <1>3 DEF SInv, CleaningOK
  <1>8. AnalysisOK'
    BY <1>1 DEF SInv, AnalysisOK
  <1>9. RowsPointToObjects'
    BY <1>1, <1>4 DEF SInv, RowsPointToObjects
  <1> QED
    BY <1>5, <1>6, <1>7, <1>8, <1>9 DEF SInv

\* A step of the retention deletes nothing that is needed.
LEMMA CleaningMoves ==
    ASSUME StorageAssumption, SInv,
           UNCHANGED <<comprovantes, vencidos, usadas, emAnalise, emCurso, incertas>>,
           documentos' \subseteq documentos,
           \/ DOMAIN objetos' = DOMAIN objetos /\ \A f \in DOMAIN objetos : objetos'[f] = objetos[f]
           \/ \E b : /\ objetos' = Remover({Fisica(b)}) /\ b \in Chaves \cup vencidos
                     /\ b \notin comprovantes \ incertas
                     /\ \A p \in Pedidos : Com(p, "enviado") => emCurso[p].chave # b,
           CleaningOK'
    PROVE  SInv'
  <1>1. /\ \A f \in DOMAIN objetos' : f \in DOMAIN objetos /\ objetos'[f] = objetos[f]
        /\ \A k \in comprovantes \ incertas : Fisica(k) \in DOMAIN objetos'
        /\ \A d \in documentos \ vencidos : ChaveDoDocumento(d) \in DOMAIN objetos'
        /\ \A p \in Pedidos : Com(p, "enviado") =>
               /\ Fisica(emCurso[p].chave) \in DOMAIN objetos'
               /\ objetos'[Fisica(emCurso[p].chave)] = objetos[Fisica(emCurso[p].chave)]
    <2> DEFINE same == DOMAIN objetos' = DOMAIN objetos
                       /\ \A f \in DOMAIN objetos : objetos'[f] = objetos[f]
    <2>1. CASE same
      BY <2>1 DEF SInv, RequestsOK, RowsPointToObjects
    <2>2. CASE ~same
      <3>1. PICK b : /\ objetos' = Remover({Fisica(b)}) /\ b \in Chaves \cup vencidos
                     /\ b \notin comprovantes \ incertas
                     /\ \A p \in Pedidos : Com(p, "enviado") => emCurso[p].chave # b
        BY <2>2
      <3> QED
        BY <3>1, DeletionKeeps
    <2> QED
      BY <2>1, <2>2
  <1>2. \A p \in Pedidos : \A em : Com(p, em)' <=> Com(p, em)
    BY DEF Com
  <1>3. KeysOK'
    BY <1>1 DEF SInv, KeysOK
  <1>4. RequestsOK'
    BY <1>1, <1>2 DEF SInv, RequestsOK
  <1>5. AnalysisOK'
    BY DEF SInv, AnalysisOK
  <1>6. RowsPointToObjects'
    BY <1>1 DEF RowsPointToObjects, ChaveDoDocumento
  <1> QED
    BY <1>3, <1>4, <1>5, <1>6 DEF SInv

LEMMA CleaningKeeps ==
    ASSUME StorageAssumption, SInv,
           \/ IniciarLimpeza \/ LerReferencias \/ ConcluirLimpeza \/ FalharLimpeza
           \/ \E d \in Documentos : ApagarDocumento(d)
           \/ \E k \in DOMAIN objetos : ApagarOrfa(k)
    PROVE  SInv'
  <1> USE DEF Com
  <1>1. CASE IniciarLimpeza
    <2> DEFINE l == [passo |-> "documentos", velhas |-> Corte, docs |-> documentos \cap vencidos,
                     apagados |-> {}]
    <2>1. limpeza' = l /\ UNCHANGED <<objetos, comprovantes, documentos, vencidos, usadas, emAnalise,
                                      emCurso, incertas>>
      BY <1>1 DEF IniciarLimpeza
    <2>2. Corte \subseteq {Fisica(b) : b \in usadas \cup Documentos}
      BY DEF Corte, SInv, KeysOK
    <2>3. \A p \in Pedidos : Com(p, "enviado") => Fisica(emCurso[p].chave) \notin Corte
      <3>1. ASSUME NEW f \in Corte PROVE ~(objetos[f] < Carencia)
        BY DEF Corte, SInv, KeysOK, StorageAssumption
      <3> QED
        BY <3>1 DEF SInv, RequestsOK
    <2>4. CleaningOK'
      BY <2>1, <2>2, <2>3 DEF CleaningOK
    <2> QED
      BY <2>1, <2>4, CleaningMoves
  <1>2. CASE LerReferencias
    <2> DEFINE orfas == {k \in limpeza.velhas : k.base \in Chaves
                           /\ Relativa(k) \notin {Chave(c) : c \in comprovantes}}
    <2>1. /\ limpeza' = [passo |-> "orfaos", apagados |-> limpeza.apagados, orfas |-> orfas]
          /\ limpeza.passo = "documentos"
          /\ UNCHANGED <<objetos, comprovantes, documentos, vencidos, usadas, emAnalise, emCurso, incertas>>
      BY <1>2 DEF LerReferencias
    <2>2. /\ limpeza.velhas \subseteq {Fisica(b) : b \in usadas \cup Documentos}
          /\ limpeza.apagados \subseteq vencidos
          /\ \A p \in Pedidos : Com(p, "enviado") => Fisica(emCurso[p].chave) \notin limpeza.velhas
      BY <2>1 DEF SInv, CleaningOK, SemPedido
    <2>3. ASSUME NEW k \in orfas PROVE \E b \in usadas : k = Fisica(b) /\ b \notin comprovantes
      <3>1. PICK b \in usadas \cup Documentos : k = Fisica(b)
        BY <2>2
      <3>2. k.base = b /\ Relativa(k) = Chave(b)
        BY <3>1, PhysicalKey
      <3>3. b \in usadas
        BY <3>1, <3>2 DEF StorageAssumption
      <3>4. b \notin comprovantes
        BY <3>2
      <3> QED
        BY <3>1, <3>3, <3>4
    <2>4. \A k \in comprovantes : Fisica(k) \notin orfas
      BY <2>3, PhysicalKey
    <2>5. orfas \subseteq limpeza.velhas
      OBVIOUS
    <2> HIDE DEF orfas
    <2>6. CleaningOK'
      BY <2>1, <2>2, <2>3, <2>4, <2>5 DEF CleaningOK
    <2> QED
      BY <2>1, <2>6, CleaningMoves
  <1>3. CASE ConcluirLimpeza \/ FalharLimpeza
    BY <1>3, CleaningMoves DEF ConcluirLimpeza, FalharLimpeza, CleaningOK
  <1>4. ASSUME NEW d \in Documentos, ApagarDocumento(d) PROVE SInv'
    <2> DEFINE x == ChaveComPrefixo(ChaveDoDocumento(d))
    <2>1. /\ UNCHANGED <<comprovantes, documentos, vencidos, usadas, emAnalise, emCurso, incertas>>
          /\ limpeza.passo = "documentos" /\ d \in limpeza.docs
          /\ \/ /\ objetos' = Remover({x})
                /\ limpeza' = [limpeza EXCEPT !.docs = @ \ {d}, !.apagados = @ \cup {d}]
             \/ objetos' = objetos /\ limpeza' = [limpeza EXCEPT !.docs = @ \ {d}]
      BY <1>4 DEF ApagarDocumento
    <2>2. /\ limpeza \in [passo : {"documentos"}, velhas : SUBSET {Fisica(b) : b \in usadas \cup Documentos},
                           docs : SUBSET vencidos, apagados : SUBSET vencidos]
          /\ \A p \in Pedidos : Com(p, "enviado") => Fisica(emCurso[p].chave) \notin limpeza.velhas
      BY <2>1 DEF SInv, CleaningOK, SemPedido
    <2>3. d \in vencidos /\ d \notin Chaves
      BY <2>1, <2>2 DEF StorageAssumption
    <2>4. /\ d \notin comprovantes
          /\ \A p \in Pedidos : Com(p, "enviado") => emCurso[p].chave # d
      BY <2>3 DEF SInv, KeysOK
    <2>5. x = Fisica(d) \/ \A b : x # Fisica(b)
      BY PrefixedTwice
    <2> HIDE DEF x
    <2>6. \/ DOMAIN objetos' = DOMAIN objetos /\ \A f \in DOMAIN objetos : objetos'[f] = objetos[f]
          \/ objetos' = Remover({Fisica(d)})
      <3>1. ASSUME \A b : x # Fisica(b), objetos' = Remover({x})
            PROVE  DOMAIN objetos' = DOMAIN objetos /\ \A f \in DOMAIN objetos : objetos'[f] = objetos[f]
        <4>1. x \notin DOMAIN objetos
          BY <3>1 DEF SInv, KeysOK
        <4> QED
          BY <3>1, <4>1 DEF Remover, Restrict
      <3> QED
        BY <2>1, <2>5, <3>1
    <2>7. /\ limpeza' \in [passo : {"documentos"}, velhas : SUBSET {Fisica(b) : b \in usadas \cup Documentos},
                            docs : SUBSET vencidos, apagados : SUBSET vencidos]
          /\ limpeza'.velhas = limpeza.velhas
      <3>1. CASE limpeza' = [limpeza EXCEPT !.docs = @ \ {d}]
        BY <2>2, <3>1
      <3>2. CASE limpeza' = [limpeza EXCEPT !.docs = @ \ {d}, !.apagados = @ \cup {d}]
        <4>1. limpeza.docs \ {d} \in SUBSET vencidos /\ limpeza.apagados \cup {d} \in SUBSET vencidos
          BY <2>2, <2>3
        <4> QED
          BY <2>2, <3>2, <4>1
      <3> QED
        BY <2>1, <3>1, <3>2
    <2>8. CleaningOK'
      BY <2>1, <2>2, <2>7 DEF CleaningOK
    <2> QED
      BY <2>1, <2>3, <2>4, <2>6, <2>8, CleaningMoves
  <1>5. ASSUME NEW k, ApagarOrfa(k) PROVE SInv'
    <2>1. /\ UNCHANGED <<comprovantes, documentos, vencidos, usadas, emAnalise, emCurso, incertas>>
          /\ limpeza.passo = "orfaos" /\ k \in limpeza.orfas
          /\ objetos' = Remover({k}) /\ limpeza' = [limpeza EXCEPT !.orfas = @ \ {k}]
      BY <1>5 DEF ApagarOrfa
    <2>2. /\ limpeza \in [passo : {"orfaos"}, orfas : SUBSET {Fisica(b) : b \in usadas},
                           apagados : SUBSET vencidos]
          /\ \A p \in Pedidos : Com(p, "enviado") => Fisica(emCurso[p].chave) \notin limpeza.orfas
          /\ \A c \in comprovantes : Fisica(c) \notin limpeza.orfas
      BY <2>1 DEF SInv, CleaningOK, SemPedido
    <2>3. PICK b \in usadas : k = Fisica(b)
      BY <2>1, <2>2
    <2>4. b \in Chaves /\ b \notin comprovantes
          /\ \A p \in Pedidos : Com(p, "enviado") => emCurso[p].chave # b
      BY <2>1, <2>2, <2>3 DEF SInv, KeysOK
    <2>5. /\ limpeza' \in [passo : {"orfaos"}, orfas : SUBSET {Fisica(c) : c \in usadas},
                            apagados : SUBSET vencidos]
          /\ limpeza'.orfas \subseteq limpeza.orfas
      BY <2>1, <2>2
    <2>6. CleaningOK'
      BY <2>1, <2>2, <2>5 DEF CleaningOK
    <2> QED
      BY <2>1, <2>3, <2>4, <2>6, CleaningMoves
  <1> QED
    BY <1>1, <1>2, <1>3, <1>4, <1>5

LEMMA TimeKeeps ==
    ASSUME StorageAssumption, SInv, PassarTempo
    PROVE  SInv'
  <1>1. /\ UNCHANGED <<comprovantes, documentos, vencidos, usadas, emAnalise, emCurso, limpeza, incertas>>
        /\ DOMAIN objetos' = DOMAIN objetos
        /\ \A f \in DOMAIN objetos :
               objetos'[f] = IF objetos[f] < Carencia THEN objetos[f] + 1 ELSE Carencia
    BY DEF PassarTempo
  <1>2. \A p \in Pedidos : \A em : Com(p, em)' <=> Com(p, em)
    BY <1>1 DEF Com
  <1>3. KeysOK'
    BY <1>1 DEF SInv, KeysOK, StorageAssumption
  <1>4. ASSUME NEW p \in Pedidos, Com(p, "enviado")
        PROVE  objetos'[Fisica(emCurso[p].chave)] < Carencia
    <2>1. /\ Fisica(emCurso[p].chave) \in DOMAIN objetos
          /\ objetos[Fisica(emCurso[p].chave)] + 1 < Carencia
      BY <1>4 DEF PassarTempo, SInv, RequestsOK, Com
    <2> QED
      BY <1>1, <2>1 DEF SInv, KeysOK, StorageAssumption
  <1>5. RequestsOK'
    BY <1>1, <1>2, <1>4 DEF SInv, RequestsOK
  <1>6. CleaningOK'
    BY <1>1, <1>2 DEF SInv, CleaningOK
  <1>7. AnalysisOK' /\ RowsPointToObjects'
    BY <1>1 DEF SInv, AnalysisOK, RowsPointToObjects
  <1> QED
    BY <1>3, <1>5, <1>6, <1>7 DEF SInv

LEMMA SInvKept ==
    ASSUME StorageAssumption, SInv, [StorageNext]_storageVars
    PROVE  SInv'
  <1>1. ASSUME UNCHANGED storageVars PROVE SInv'
    BY <1>1 DEF storageVars, SInv, KeysOK, RequestsOK, CleaningOK, AnalysisOK, RowsPointToObjects,
                Com
  <1> QED
    BY <1>1, UploadKeeps, RegistrationKeeps, EndingKeeps, RemovalKeeps, AnalysisKeeps,
       DocumentsKeep, CleaningKeeps, TimeKeeps, Zenon DEF StorageNext

\* Any number of uploads, removals and a retention that run together leave every
\* row of which the answer is known with its object, and every document that has
\* not expired with its file (receipt_service.py:351).
THEOREM RowsAlwaysPointToObjects ==
    ASSUME StorageAssumption PROVE StorageSpec => []RowsPointToObjects
  <1>1. StorageInit => SInv
    BY SInvInitially
  <1>2. SInv /\ [StorageNext]_storageVars => SInv'
    BY SInvKept
  <1>3. SInv => RowsPointToObjects
    BY DEF SInv
  <1> QED
    BY <1>1, <1>2, <1>3, PTL DEF StorageSpec

\* The proofs under analysis change only by requests that began before it
\* (add_proposal_attachment.py:3).
THEOREM AnalysedProofsAlwaysStay ==
    ASSUME StorageAssumption PROVE StorageSpec => AnalysedProofsStay
  <1>1. StorageInit => SInv
    BY SInvInitially
  <1>2. SInv /\ [StorageNext]_storageVars => SInv'
    BY SInvKept
  <1>3. SInv /\ [StorageNext]_storageVars
        => [emAnalise /\ comprovantes' # comprovantes
               => \E p \in Pedidos : /\ emCurso[p].passo \in {"enviado", "removendo"}
                                     /\ emCurso[p].antes /\ emCurso'[p] # emCurso[p]]_storageVars
    <2> SUFFICES ASSUME SInv, StorageNext, emAnalise, comprovantes' # comprovantes
                 PROVE  \E p \in Pedidos : /\ emCurso[p].passo \in {"enviado", "removendo"}
                                           /\ emCurso[p].antes /\ emCurso'[p] # emCurso[p]
      BY DEF storageVars
    <2>1. PICK p \in Pedidos : Registrar(p) \/ ConfirmarRemocao(p)
      BY DEF StorageNext, Enviar, IniciarRemocao, DiscardUploaded, ApagarObjeto, Cair, Submeter,
             Devolver, GerarDocumento, Vencer, ApagarDocumento, ApagarOrfa, IniciarLimpeza,
             LerReferencias, ConcluirLimpeza, FalharLimpeza, PassarTempo
    <2>2. emCurso[p].passo = "enviado" \/ emCurso[p].passo = "removendo"
      BY <2>1, Zenon DEF Registrar, ConfirmarRemocao
    <2>3. emCurso[p] \in Curso /\ emCurso[p].antes
      <3>1. emCurso[p] # SemPedido
        BY <2>2 DEF SemPedido
      <3> QED
        BY <3>1 DEF SInv, KeysOK, AnalysisOK
    <2>4. PICK r : emCurso' = [emCurso EXCEPT ![p] = r] /\ r.passo \in {"livre", "desfazendo", "apagando"}
      <3>1. SemPedido.passo = "livre"
        BY DEF SemPedido
      <3>2. /\ [emCurso[p] EXCEPT !.passo = "desfazendo"].passo = "desfazendo"
            /\ [emCurso[p] EXCEPT !.passo = "apagando"].passo = "apagando"
        BY <2>3 DEF Curso
      <3>3. CASE Registrar(p)
        BY <3>1, <3>2, <3>3 DEF Registrar, Anda
      <3>4. CASE ConfirmarRemocao(p)
        BY <3>2, <3>4 DEF ConfirmarRemocao, Anda
      <3> QED
        BY <2>1, <3>3, <3>4
    <2>5. emCurso'[p].passo \notin {"enviado", "removendo"}
      BY <2>4 DEF SInv, KeysOK
    <2> QED
      BY <2>2, <2>3, <2>5
  <1> QED
    BY <1>1, <1>2, <1>3, PTL DEF StorageSpec, AnalysedProofsStay

-----------------------------------------------------------------------------
\* The invariant of the schedulers.

Arquivo == [dia : Nat, integro : BOOLEAN, removido : BOOLEAN]

\* The library's Max is a choice: that there is one is part of the invariant.
HasLatest(S) == \E m \in S : \A i \in S : m >= i

\* What was removed is older than something good that is kept.
FilesOK ==
    /\ arquivos \in Seq(Arquivo) /\ hojeE \in Nat
    /\ \A S \in SUBSET DOMAIN arquivos : S # {} => HasLatest(S)
    /\ \A i \in DOMAIN arquivos : arquivos[i].removido =>
           /\ arquivos[i].dia < hojeE
           /\ \E j \in Presentes : arquivos[j].integro /\ arquivos[i].dia < arquivos[j].dia

\* What a scheduler is doing.
StepOK(r) ==
    r # Dorme =>
        /\ r.em # "dormindo" /\ r.dia \in Nat /\ r.dia <= hojeE
        /\ r.em = "conferindo" => r.arquivo \in DOMAIN arquivos /\ arquivos[r.arquivo].dia = r.dia
        /\ r.em \in {"restaurando", "conferindo tabelas"} =>
               r.arquivo \in DOMAIN arquivos /\ arquivos[r.arquivo].integro

StepsOK == DOMAIN passo = Agendadores /\ \A p \in Agendadores : StepOK(passo[p])

\* Nobody's turn is of a later day than that of the scheduler with the lease.
LeaseOK ==
    \A p \in Agendadores : lider = p /\ passo[p] # Dorme =>
        /\ \A q \in Agendadores : passo[q] # Dorme => passo[q].dia <= passo[p].dia
        /\ \A i \in DOMAIN arquivos : arquivos[i].removido => arquivos[i].dia < passo[p].dia

\* Alone with the lease, it finds what it left.
AloneOK ==
    ~semLease => \A p \in Agendadores : lider = p =>
        /\ passo[p].em = "despejando" => \A i \in DOMAIN arquivos : arquivos[i].dia # passo[p].dia
        /\ passo[p].em = "conferindo tabelas" => bancoDeEnsaio \in {passo[p].arquivo, SemBanco}

ReportsOK ==
    \A l \in laudos : /\ l.arquivo \in DOMAIN arquivos /\ arquivos[l.arquivo].integro
                      /\ semLease \/ l.contado = l.arquivo

KInv == FilesOK /\ StepsOK /\ LeaseOK /\ AloneOK /\ ReportsOK /\ OneBackupPerDay

LEMMA KInvInitially ==
    ASSUME SchedulerAssumption, SchedInit
    PROVE  KInv
  BY DEF SchedInit, KInv, FilesOK, StepsOK, StepOK, LeaseOK, AloneOK, ReportsOK, OneBackupPerDay,
         Presentes, SchedulerAssumption, Dorme

\* A turn goes on, ends or begins, and no archive changes.
LEMMA TurnMoves ==
    ASSUME SchedulerAssumption, KInv, NEW p \in Agendadores, NEW r,
           passo' = [passo EXCEPT ![p] = r], UNCHANGED <<hojeE, arquivos>>, StepOK(r),
           lider' \in {lider, "ninguem", "morto", p},
           lider' = p => lider = p \/ r.dia = hojeE,
           r # Dorme => \/ passo[p] # Dorme /\ r.dia = passo[p].dia
                        \/ lider' = p /\ r.dia = hojeE
    PROVE  FilesOK' /\ StepsOK' /\ LeaseOK'
  <1>1. passo'[p] = r /\ \A q \in Agendadores \ {p} : passo'[q] = passo[q]
    BY DEF KInv, StepsOK
  <1>2. FilesOK'
    BY DEF KInv, FilesOK, Presentes
  <1>3. StepsOK'
    BY <1>1 DEF KInv, StepsOK, StepOK
  <1>4. LeaseOK'
    <2> SUFFICES ASSUME NEW x \in Agendadores, lider' = x, passo'[x] # Dorme
                 PROVE  /\ \A q \in Agendadores : passo'[q] # Dorme => passo'[q].dia <= passo'[x].dia
                        /\ \A i \in DOMAIN arquivos : arquivos[i].removido =>
                               arquivos[i].dia < passo'[x].dia
      BY DEF LeaseOK
    <2>1. CASE x = p /\ r.dia = hojeE
      BY <1>1, <2>1 DEF KInv, StepsOK, StepOK, FilesOK
    <2>2. CASE x = p /\ r.dia # hojeE
      <3>1. lider = p /\ passo[p] # Dorme /\ r.dia = passo[p].dia
        BY <1>1, <2>2
      <3> QED
        BY <1>1, <2>2, <3>1 DEF KInv, LeaseOK
    <2>3. CASE x # p
      <3>1. lider = x /\ passo[x] # Dorme
        BY <1>1, <2>3 DEF SchedulerAssumption
      <3>2. r # Dorme => passo[p] # Dorme /\ r.dia = passo[p].dia
        BY <2>3
      <3> QED
        BY <1>1, <2>3, <3>1, <3>2 DEF KInv, LeaseOK
    <2> QED
      BY <2>1, <2>2, <2>3
  <1> QED
    BY <1>2, <1>3, <1>4

\* Such a turn that neither begins a dump nor restores one.
LEMMA QuietMoves ==
    ASSUME SchedulerAssumption, KInv, NEW p \in Agendadores, NEW r,
           passo' = [passo EXCEPT ![p] = r], UNCHANGED <<hojeE, arquivos, laudos>>, StepOK(r),
           lider' \in {lider, "ninguem", "morto", p},
           lider' = p => lider = p \/ r.dia = hojeE,
           r # Dorme => \/ passo[p] # Dorme /\ r.dia = passo[p].dia
                        \/ lider' = p /\ r.dia = hojeE,
           r.em \notin {"despejando", "conferindo tabelas"},
           bancoDeEnsaio' \in {bancoDeEnsaio, SemBanco},
           semLease => semLease'
    PROVE  KInv'
  <1>1. passo'[p] = r /\ \A q \in Agendadores \ {p} : passo'[q] = passo[q]
    BY DEF KInv, StepsOK
  <1>2. FilesOK' /\ StepsOK' /\ LeaseOK'
    BY TurnMoves
  <1>3. AloneOK'
    <2> SUFFICES ASSUME ~semLease', NEW x \in Agendadores, lider' = x
                 PROVE  /\ passo'[x].em = "despejando" =>
                               \A i \in DOMAIN arquivos : arquivos[i].dia # passo'[x].dia
                        /\ passo'[x].em = "conferindo tabelas" =>
                               bancoDeEnsaio' \in {passo'[x].arquivo, SemBanco}
      BY DEF AloneOK
    <2>1. CASE x = p
      BY <1>1, <2>1
    <2>2. CASE x # p
      <3>1. lider = x /\ ~semLease
        BY <2>2 DEF SchedulerAssumption
      <3> QED
        BY <1>1, <2>2, <3>1 DEF KInv, AloneOK
    <2> QED
      BY <2>1, <2>2
  <1>4. ReportsOK' /\ OneBackupPerDay'
    BY DEF KInv, ReportsOK, OneBackupPerDay
  <1> QED
    BY <1>2, <1>3, <1>4 DEF KInv

LEMMA LeasesKeep ==
    ASSUME SchedulerAssumption, KInv, NEW p \in Agendadores,
           Liderar(p) \/ Morrer(p) \/ LerParaSair(p) \/ Sair(p)
    PROVE  KInv'
  <1> USE DEF Vai
  <1>1. StepOK(Dorme) /\ Dorme.em = "dormindo"
    BY DEF StepOK, Dorme
  <1>2. ASSUME NEW em \in {"backup", "saindo"}
        PROVE  StepOK([em |-> em, dia |-> hojeE]) /\ [em |-> em, dia |-> hojeE] # Dorme
    <2>1. hojeE \in Nat
      BY DEF KInv, FilesOK
    <2>2. CASE em = "backup"
      BY <2>1, <2>2 DEF StepOK, Dorme
    <2>3. CASE em = "saindo"
      BY <2>1, <2>3 DEF StepOK, Dorme
    <2> QED
      BY <1>2, <2>2, <2>3
  <1>3. CASE Liderar(p)
    <2> DEFINE r == [em |-> "backup", dia |-> hojeE]
    <2>1. /\ passo' = [passo EXCEPT ![p] = r] /\ lider' = p /\ r.dia = hojeE /\ r.em = "backup"
          /\ UNCHANGED <<hojeE, arquivos, laudos, bancoDeEnsaio, semLease>>
      BY <1>3 DEF Liderar
    <2>2. StepOK(r)
      BY <1>2
    <2> HIDE DEF r
    <2> QED
      BY <2>1, <2>2, QuietMoves
  <1>4. CASE LerParaSair(p)
    <2> DEFINE r == [em |-> "saindo", dia |-> hojeE]
    <2>1. /\ passo' = [passo EXCEPT ![p] = r] /\ lider = p /\ lider' = p
          /\ r.dia = hojeE /\ r.em = "saindo"
          /\ UNCHANGED <<hojeE, arquivos, laudos, bancoDeEnsaio, semLease>>
      BY <1>4 DEF LerParaSair
    <2>2. StepOK(r)
      BY <1>2
    <2> HIDE DEF r
    <2> QED
      BY <2>1, <2>2, QuietMoves
  <1>5. CASE Morrer(p) \/ Sair(p)
    <2>1. /\ passo' = [passo EXCEPT ![p] = Dorme] /\ lider' \in {lider, "ninguem", "morto"}
          /\ UNCHANGED <<hojeE, arquivos, laudos, bancoDeEnsaio, semLease>>
      BY <1>5 DEF Morrer, Sair
    <2>2. lider' # p \/ lider = p
      BY <2>1 DEF SchedulerAssumption
    <2> QED
      BY <1>1, <2>1, <2>2, QuietMoves
  <1> QED
    BY <1>3, <1>4, <1>5

\* The steps of the leader's turn that leave the archives.
LEMMA TurnsKeep ==
    ASSUME SchedulerAssumption, KInv, NEW p \in Agendadores,
           \/ PularBackup(p) \/ ExecutarBackup(p) \/ FalharBackup(p)
           \/ TerminarTurno(p) \/ ExecutarEnsaio(p) \/ FalharEnsaio(p)
    PROVE  KInv'
  <1> USE DEF Vai, Depois, Agora
  <1>1. StepOK(Dorme) /\ Dorme.em = "dormindo"
    BY DEF StepOK, Dorme
  <1>2. /\ passo[p] # Dorme /\ passo[p].dia \in Nat /\ passo[p].dia <= hojeE
        /\ UNCHANGED <<lider, hojeE, arquivos, laudos>> /\ (semLease => semLease')
    <2>1. passo[p].em # "dormindo" /\ UNCHANGED <<lider, hojeE, arquivos, laudos>>
          /\ (semLease => semLease')
      <3>1. CASE PularBackup(p) \/ FalharBackup(p)
        BY <3>1 DEF PularBackup, FalharBackup
      <3>4. CASE TerminarTurno(p)
        BY <3>4 DEF TerminarTurno
      <3>5. CASE FalharEnsaio(p)
        <4>1. passo[p].em \in {"restaurando", "conferindo tabelas"} /\ semLease' = semLease
              /\ UNCHANGED <<lider, hojeE, arquivos, laudos>>
          BY <3>5, Zenon DEF FalharEnsaio
        <4> QED
          BY <4>1
      <3>2. CASE ExecutarBackup(p)
        <4>1. passo[p].em = "backup" /\ semLease' = (semLease \/ lider # p)
              /\ UNCHANGED <<lider, hojeE, arquivos, laudos>>
          BY <3>2, Zenon DEF ExecutarBackup, Trabalha
        <4> QED
          BY <4>1
      <3>3. CASE ExecutarEnsaio(p)
        <4>1. passo[p].em = "ensaio" /\ semLease' = (semLease \/ lider # p)
              /\ UNCHANGED <<lider, hojeE, arquivos, laudos>>
          BY <3>3, Zenon DEF ExecutarEnsaio, Trabalha
        <4> QED
          BY <4>1
      <3> QED
        BY <3>1, <3>2, <3>3, <3>4, <3>5
    <2> QED
      BY <1>1, <2>1 DEF KInv, StepsOK, StepOK
  <1>3. ASSUME NEW em \in {"ensaio", "despejando"}
        PROVE  StepOK([em |-> em, dia |-> passo[p].dia]) /\ [em |-> em, dia |-> passo[p].dia] # Dorme
    BY <1>2, <1>3 DEF StepOK, Dorme
  <1>4. ASSUME passo' = [passo EXCEPT ![p] = [em |-> "ensaio", dia |-> passo[p].dia]],
               UNCHANGED bancoDeEnsaio
        PROVE  KInv'
    <2> DEFINE r == [em |-> "ensaio", dia |-> passo[p].dia]
    <2>1. StepOK(r) /\ r.em = "ensaio" /\ r.dia = passo[p].dia
      BY <1>3
    <2>2. passo' = [passo EXCEPT ![p] = r]
      BY <1>4
    <2> HIDE DEF r
    <2> QED
      BY <1>2, <1>4, <2>1, <2>2, QuietMoves
  <1>5. ASSUME passo' = [passo EXCEPT ![p] = Dorme], bancoDeEnsaio' \in {bancoDeEnsaio, SemBanco}
        PROVE  KInv'
    BY <1>1, <1>2, <1>5, QuietMoves
  <1>6. CASE PularBackup(p) \/ FalharBackup(p)
    BY <1>4, <1>6 DEF PularBackup, FalharBackup
  <1>7. CASE TerminarTurno(p) \/ FalharEnsaio(p)
    BY <1>5, <1>7 DEF TerminarTurno, FalharEnsaio
  <1>8. CASE ExecutarBackup(p) /\ BackupExistsToday(passo[p].dia)
    BY <1>4, <1>8 DEF ExecutarBackup
  <1>9. CASE ExecutarBackup(p) /\ ~BackupExistsToday(passo[p].dia)
    <2> DEFINE r == [em |-> "despejando", dia |-> passo[p].dia]
    <2>1. /\ passo' = [passo EXCEPT ![p] = r] /\ UNCHANGED bancoDeEnsaio
          /\ semLease' = (semLease \/ lider # p)
      BY <1>9 DEF ExecutarBackup, Trabalha
    <2>2. StepOK(r) /\ r.em = "despejando" /\ r.dia = passo[p].dia /\ r # Dorme
      BY <1>3
    <2> HIDE DEF r
    <2>3. FilesOK' /\ StepsOK' /\ LeaseOK'
      BY <1>2, <2>1, <2>2, TurnMoves
    <2>4. lider = p => \A i \in DOMAIN arquivos : arquivos[i].dia # passo[p].dia
      <3>1. ASSUME lider = p, NEW i \in DOMAIN arquivos, arquivos[i].removido
            PROVE  arquivos[i].dia < passo[p].dia
        BY <1>2, <3>1 DEF KInv, LeaseOK
      <3>2. ASSUME NEW i \in DOMAIN arquivos, ~arquivos[i].removido
            PROVE  arquivos[i].dia # passo[p].dia
        BY <1>9, <3>2 DEF BackupExistsToday, Presentes
      <3>3. \A i \in DOMAIN arquivos : arquivos[i].dia \in Nat
        <4>1. \A i \in DOMAIN arquivos : arquivos[i] \in Arquivo
          BY DEF KInv, FilesOK
        <4> QED
          BY <4>1 DEF Arquivo
      <3> QED
        BY <1>2, <3>1, <3>2, <3>3
    <2>5. AloneOK'
      BY <1>2, <2>1, <2>2, <2>4 DEF AloneOK, KInv, StepsOK
    <2>6. ReportsOK' /\ OneBackupPerDay'
      BY <1>2 DEF KInv, ReportsOK, OneBackupPerDay
    <2> QED
      BY <2>3, <2>5, <2>6 DEF KInv
  <1>10. CASE ExecutarEnsaio(p)
    <2>1. ASSUME passo' # [passo EXCEPT ![p] = Dorme]
          PROVE  /\ Presentes # {} /\ DownloadAndVerify(Max(Presentes)) /\ bancoDeEnsaio' = Vazio
                 /\ passo' = [passo EXCEPT ![p] = [em |-> "restaurando", dia |-> passo[p].dia,
                                                    arquivo |-> Max(Presentes)]]
                 /\ semLease' = (semLease \/ lider # p)
      BY <1>10, <2>1 DEF ExecutarEnsaio, Trabalha
    <2>2. ASSUME passo' = [passo EXCEPT ![p] = Dorme] PROVE KInv'
      <3>1. UNCHANGED bancoDeEnsaio
        <4>1. [em |-> "restaurando", dia |-> passo[p].dia, arquivo |-> Max(Presentes)] # Dorme
          BY DEF Dorme
        <4>2. passo' # [passo EXCEPT ![p] = [em |-> "restaurando", dia |-> passo[p].dia,
                                              arquivo |-> Max(Presentes)]]
          BY <2>2, <4>1 DEF KInv, StepsOK
        <4> QED
          BY <1>10, <4>2 DEF ExecutarEnsaio
      <3> QED
        BY <1>5, <2>2, <3>1
    <2>3. ASSUME passo' # [passo EXCEPT ![p] = Dorme] PROVE KInv'
      <3> DEFINE k == Max(Presentes)
                 r == [em |-> "restaurando", dia |-> passo[p].dia, arquivo |-> k]
      <3>1. k \in DOMAIN arquivos /\ arquivos[k].integro
        <4>1. Presentes \in SUBSET DOMAIN arquivos
          BY DEF Presentes
        <4>2. HasLatest(Presentes)
          BY <2>1, <2>3, <4>1 DEF KInv, FilesOK
        <4>3. k \in Presentes
          BY <4>2 DEF HasLatest, Max
        <4> QED
          BY <2>1, <2>3, <4>1, <4>3 DEF DownloadAndVerify
      <3> HIDE DEF k
      <3>2. StepOK(r) /\ r.em = "restaurando" /\ r.dia = passo[p].dia /\ r # Dorme
        BY <1>2, <3>1 DEF StepOK, Dorme
      <3>3. passo' = [passo EXCEPT ![p] = r] /\ semLease' = (semLease \/ lider # p)
        BY <2>1, <2>3 DEF k
      <3> HIDE DEF r
      <3>4. FilesOK' /\ StepsOK' /\ LeaseOK'
        BY <1>2, <3>2, <3>3, TurnMoves
      <3>5. AloneOK'
        BY <1>2, <3>2, <3>3 DEF AloneOK, KInv, StepsOK
      <3>6. ReportsOK' /\ OneBackupPerDay'
        BY <1>2 DEF KInv, ReportsOK, OneBackupPerDay
      <3> QED
        BY <3>4, <3>5, <3>6 DEF KInv
    <2> QED
      BY <2>2, <2>3
  <1> QED
    BY <1>6, <1>7, <1>8, <1>9, <1>10

\* The drill restores, counts and reports.
LEMMA DrillKeeps ==
    ASSUME SchedulerAssumption, KInv, NEW p \in Agendadores,
           RestoreArchive(p) \/ ConferirTabelas(p)
    PROVE  KInv'
  <1> USE DEF Vai, Agora
  <1>1. StepOK(Dorme) /\ Dorme.em = "dormindo"
    BY DEF StepOK, Dorme
  <1>2. /\ UNCHANGED <<lider, hojeE, arquivos>> /\ semLease' = (semLease \/ lider # p)
        /\ passo[p].em \in {"restaurando", "conferindo tabelas"}
    <2>1. CASE RestoreArchive(p)
      BY <2>1, Zenon DEF RestoreArchive, Trabalha
    <2>2. CASE ConferirTabelas(p)
      BY <2>2, Zenon DEF ConferirTabelas, Trabalha
    <2> QED
      BY <2>1, <2>2
  <1>3. /\ passo[p] # Dorme /\ passo[p].dia \in Nat /\ passo[p].dia <= hojeE
        /\ passo[p].arquivo \in DOMAIN arquivos /\ arquivos[passo[p].arquivo].integro
    <2>1. passo[p] # Dorme
      BY <1>1, <1>2
    <2> QED
      BY <1>2, <2>1 DEF KInv, StepsOK, StepOK
  <1>4. CASE RestoreArchive(p)
    <2> DEFINE r == [em |-> "conferindo tabelas", dia |-> passo[p].dia, arquivo |-> passo[p].arquivo]
    <2>1. passo' = [passo EXCEPT ![p] = r]
      BY <1>4 DEF RestoreArchive
    <2>2. bancoDeEnsaio' = passo[p].arquivo /\ laudos' = laudos
      BY <1>4 DEF RestoreArchive
    <2>3. /\ r # Dorme /\ r.em = "conferindo tabelas" /\ r.dia = passo[p].dia
          /\ r.arquivo = passo[p].arquivo /\ StepOK(r)
      BY <1>3 DEF StepOK, Dorme
    <2> HIDE DEF r
    <2>4. FilesOK' /\ StepsOK' /\ LeaseOK'
      BY <1>2, <1>3, <2>1, <2>3, TurnMoves
    <2>5. AloneOK'
      BY <1>2, <2>1, <2>2, <2>3 DEF AloneOK, KInv, StepsOK
    <2>6. ReportsOK' /\ OneBackupPerDay'
      BY <1>2, <2>2 DEF KInv, ReportsOK, OneBackupPerDay
    <2> QED
      BY <2>4, <2>5, <2>6 DEF KInv
  <1>5. CASE ConferirTabelas(p)
    <2> DEFINE l == [dia |-> passo[p].dia, arquivo |-> passo[p].arquivo, contado |-> bancoDeEnsaio]
    <2>1. /\ passo' = [passo EXCEPT ![p] = Dorme] /\ laudos' = laudos \cup {l}
          /\ bancoDeEnsaio' = SemBanco /\ bancoDeEnsaio # SemBanco
          /\ passo[p].em = "conferindo tabelas"
      BY <1>5 DEF ConferirTabelas
    <2>2. FilesOK' /\ StepsOK' /\ LeaseOK'
      BY <1>1, <1>2, <2>1, TurnMoves
    <2>3. AloneOK'
      BY <1>1, <1>2, <2>1 DEF AloneOK, KInv, StepsOK
    <2>4. ReportsOK'
      <3>1. l.arquivo \in DOMAIN arquivos /\ arquivos[l.arquivo].integro
        BY <1>3
      <3>2. ~semLease' => l.contado = l.arquivo
        BY <1>2, <2>1 DEF KInv, AloneOK
      <3> HIDE DEF l
      <3> QED
        BY <1>2, <2>1, <3>1, <3>2 DEF KInv, ReportsOK
    <2>5. OneBackupPerDay'
      BY <1>2 DEF KInv, OneBackupPerDay
    <2> QED
      BY <2>2, <2>3, <2>4, <2>5 DEF KInv
  <1> QED
    BY <1>4, <1>5

\* An archive is added.
LEMMA UploadOfArchiveKeeps ==
    ASSUME SchedulerAssumption, KInv, NEW p \in Agendadores, Remeter(p)
    PROVE  KInv'
  <1> DEFINE n == Len(arquivos)
             d == passo[p].dia
             r == [em |-> "conferindo", dia |-> d, arquivo |-> n + 1]
  <1>1. PICK integro \in BOOLEAN :
            arquivos' = Append(arquivos, [dia |-> d, integro |-> integro, removido |-> FALSE])
    BY DEF Remeter, Agora
  <1>2. /\ passo' = [passo EXCEPT ![p] = r] /\ passo[p].em = "despejando"
        /\ semLease' = (semLease \/ lider # p)
        /\ UNCHANGED <<lider, hojeE, laudos, bancoDeEnsaio>>
    BY DEF Remeter, Vai, Agora, Trabalha
  <1>3. passo[p] # Dorme /\ d \in Nat /\ d <= hojeE
    <2>1. passo[p] # Dorme
      BY <1>2 DEF Dorme
    <2> QED
      BY <2>1 DEF KInv, StepsOK, StepOK
  <1>4. /\ n \in Nat /\ DOMAIN arquivos = 1..n /\ arquivos \in Seq(Arquivo)
        /\ \A i \in DOMAIN arquivos : arquivos[i] \in Arquivo
    BY DEF KInv, FilesOK
  <1>5. /\ DOMAIN arquivos' = 1..n + 1 /\ \A i \in DOMAIN arquivos : arquivos'[i] = arquivos[i]
        /\ arquivos'[n + 1] = [dia |-> d, integro |-> integro, removido |-> FALSE]
        /\ n + 1 \notin DOMAIN arquivos /\ DOMAIN arquivos \subseteq DOMAIN arquivos'
        /\ \A i \in DOMAIN arquivos' : i \in DOMAIN arquivos \/ i = n + 1
    BY <1>1, <1>4
  <1>6. /\ r # Dorme /\ r.em = "conferindo" /\ r.dia = d /\ r.arquivo = n + 1
        /\ passo'[p] = r /\ \A q \in Agendadores \ {p} : passo'[q] = passo[q]
        /\ DOMAIN passo' = Agendadores
    BY <1>2 DEF KInv, StepsOK, Dorme
  <1> HIDE DEF n, d, r
  <1>7. FilesOK'
    <2>1. arquivos' \in Seq(Arquivo)
      <3>1. [dia |-> d, integro |-> integro, removido |-> FALSE] \in Arquivo
        BY <1>3 DEF Arquivo
      <3> QED
        BY <1>1, <1>4, <3>1
    <2>2. ASSUME NEW S \in SUBSET DOMAIN arquivos', S # {} PROVE HasLatest(S)
      <3>1. CASE n + 1 \in S
        BY <1>4, <1>5, <3>1 DEF HasLatest
      <3>2. CASE n + 1 \notin S
        BY <1>5, <2>2, <3>2 DEF KInv, FilesOK
      <3> QED
        BY <3>1, <3>2
    <2>3. Presentes \subseteq Presentes'
      BY <1>5 DEF Presentes
    <2>4. ASSUME NEW i \in DOMAIN arquivos', arquivos'[i].removido
          PROVE  /\ arquivos'[i].dia < hojeE
                 /\ \E j \in Presentes' : arquivos'[j].integro /\ arquivos'[i].dia < arquivos'[j].dia
      <3>1. i \in DOMAIN arquivos /\ arquivos[i].removido
        BY <1>5, <2>4
      <3>2. arquivos[i].dia < hojeE
        BY <3>1 DEF KInv, FilesOK
      <3>3. PICK j \in Presentes : arquivos[j].integro /\ arquivos[i].dia < arquivos[j].dia
        BY <3>1 DEF KInv, FilesOK
      <3>4. j \in DOMAIN arquivos
        BY DEF Presentes
      <3> QED
        BY <1>5, <2>3, <3>1, <3>2, <3>3, <3>4
    <2>5. hojeE' = hojeE /\ hojeE \in Nat
      BY <1>2 DEF KInv, FilesOK
    <2>6. \A S \in SUBSET DOMAIN arquivos' : S # {} => HasLatest(S)
      BY <2>2
    <2> QED
      BY <2>1, <2>4, <2>5, <2>6 DEF FilesOK, HasLatest
  <1>8. StepsOK'
    <2>1. ASSUME NEW q \in Agendadores PROVE StepOK(passo[q])'
      <3>1. CASE q = p
        <4>1. passo'[q] = r /\ r.em = "conferindo" /\ r.dia = d /\ r.arquivo = n + 1
          BY <1>6, <3>1
        <4>2. n + 1 \in DOMAIN arquivos' /\ arquivos'[n + 1].dia = d /\ d \in Nat /\ d <= hojeE'
          BY <1>2, <1>3, <1>4, <1>5
        <4> QED
          BY <4>1, <4>2 DEF StepOK
      <3>2. CASE q # p
        <4>1. StepOK(passo[q]) /\ passo'[q] = passo[q]
          BY <1>6, <3>2 DEF KInv, StepsOK
        <4>2. \A i \in DOMAIN arquivos : i \in DOMAIN arquivos' /\ arquivos'[i] = arquivos[i]
          BY <1>5
        <4> QED
          BY <1>2, <4>1, <4>2 DEF StepOK
      <3> QED
        BY <3>1, <3>2
    <2> QED
      BY <1>6, <2>1 DEF StepsOK, StepOK
  <1>9. LeaseOK'
    <2>1. ASSUME NEW x \in Agendadores, passo'[x] # Dorme
          PROVE  passo[x] # Dorme /\ passo'[x].dia = passo[x].dia
      BY <1>3, <1>6, <2>1 DEF d
    <2>2. \A i \in DOMAIN arquivos' : arquivos'[i].removido =>
             i \in DOMAIN arquivos /\ arquivos[i].removido /\ arquivos'[i].dia = arquivos[i].dia
      BY <1>5
    <2> QED
      BY <1>2, <2>1, <2>2 DEF KInv, LeaseOK
  <1>10. ASSUME ~semLease'
         PROVE  lider = p /\ ~semLease /\ \A i \in DOMAIN arquivos : arquivos[i].dia # d
    BY <1>2, <1>10 DEF KInv, AloneOK, d
  <1>11. AloneOK'
    BY <1>2, <1>6, <1>10 DEF AloneOK
  <1>12. ReportsOK'
    BY <1>2, <1>5 DEF KInv, ReportsOK
  <1>13. OneBackupPerDay'
    <2> SUFFICES ASSUME ~semLease' PROVE \A i, j \in DOMAIN arquivos' : arquivos'[i].dia = arquivos'[j].dia => i = j
      BY DEF OneBackupPerDay
    <2>1. \A i, j \in DOMAIN arquivos : arquivos[i].dia = arquivos[j].dia => i = j
      BY <1>10 DEF KInv, OneBackupPerDay
    <2> QED
      BY <1>5, <1>10, <2>1
  <1> QED
    BY <1>7, <1>8, <1>9, <1>11, <1>12, <1>13 DEF KInv

LEMMA RowsMapped ==
    ASSUME NEW S, NEW s \in Seq(S), NEW t, t = [i \in DOMAIN s |-> t[i]],
           \A i \in DOMAIN s : t[i] \in S
    PROVE  t \in Seq(S)
  <1>1. PICK n \in Nat : DOMAIN s = 1..n
    OBVIOUS
  <1>2. t \in [1..n -> S]
    BY <1>1
  <1> QED
    BY <1>2

\* The archives that an upload leaves behind it: those of Retencao days or more
\* before it, of which it is none.
LEMMA RetentionKeeps ==
    ASSUME SchedulerAssumption, KInv, NEW p \in Agendadores, ConferirBackup(p)
    PROVE  /\ KInv'
           /\ \E j \in Presentes' : arquivos'[j].integro
  <1> DEFINE d == passo[p].dia
             k == passo[p].arquivo
             r == [em |-> "ensaio", dia |-> d]
  <1>1. PICK h \in {0, 1} :
            arquivos' = [i \in DOMAIN arquivos |->
                            [arquivos[i] EXCEPT !.removido = @ \/ i \in Expirados(p, h)]]
    BY DEF ConferirBackup
  <1>2. /\ passo' = [passo EXCEPT ![p] = r] /\ passo[p].em = "conferindo" /\ arquivos[k].integro
        /\ UNCHANGED <<lider, hojeE, laudos, bancoDeEnsaio, semLease>>
    BY DEF ConferirBackup, Vai, Depois, Agora
  <1>3. /\ passo[p] # Dorme /\ d \in Nat /\ d <= hojeE
        /\ k \in DOMAIN arquivos /\ arquivos[k].dia = d
    <2>1. passo[p] # Dorme
      BY <1>2 DEF Dorme
    <2> QED
      BY <1>2, <2>1 DEF KInv, StepsOK, StepOK
  <1>4. \A i \in DOMAIN arquivos : arquivos[i] \in Arquivo
    BY DEF KInv, FilesOK
  <1> DEFINE Expira(i) == i \in Presentes /\ arquivos[i].dia + Retencao + h <= d
  <1>5. /\ DOMAIN arquivos' = DOMAIN arquivos
        /\ \A i \in DOMAIN arquivos :
               /\ arquivos'[i] \in Arquivo
               /\ arquivos'[i].dia = arquivos[i].dia /\ arquivos'[i].integro = arquivos[i].integro
               /\ arquivos'[i].removido <=> arquivos[i].removido \/ Expira(i)
    BY <1>1, <1>4 DEF Expirados, Presentes, Agora, Arquivo
  <1>6. \A i \in DOMAIN arquivos : Expira(i) => arquivos[i].dia < d
    BY <1>3, <1>4 DEF Arquivo, SchedulerAssumption
  <1> HIDE DEF Expira, r
  <1>7. PICK j \in DOMAIN arquivos : /\ j \in Presentes' /\ arquivos[j].integro /\ d <= arquivos[j].dia
    <2>1. ASSUME NEW i \in Presentes, arquivos[i].integro, d <= arquivos[i].dia
          PROVE  i \in DOMAIN arquivos /\ i \in Presentes'
      BY <1>3, <1>4, <1>5, <1>6, <2>1 DEF Presentes, Arquivo
    <2>2. CASE ~arquivos[k].removido
      BY <1>2, <1>3, <2>1, <2>2 DEF Presentes
    <2>3. CASE arquivos[k].removido
      <3>1. PICK i \in Presentes : arquivos[i].integro /\ d < arquivos[i].dia
        BY <1>3, <2>3 DEF KInv, FilesOK
      <3>2. arquivos[i].dia \in Nat
        BY <1>4 DEF Presentes, Arquivo
      <3> QED
        BY <1>3, <2>1, <3>1, <3>2
    <2> QED
      BY <2>2, <2>3
  <1>8. FilesOK'
    <2>1. arquivos' \in Seq(Arquivo)
      <3>1. arquivos' = [i \in DOMAIN arquivos |-> arquivos'[i]]
        BY <1>1
      <3>2. arquivos \in Seq(Arquivo) /\ \A i \in DOMAIN arquivos : arquivos'[i] \in Arquivo
        BY <1>5 DEF KInv, FilesOK
      <3> QED
        BY <3>1, <3>2, RowsMapped
    <2>2. ASSUME NEW i \in DOMAIN arquivos, arquivos'[i].removido
          PROVE  /\ arquivos[i].dia < hojeE
                 /\ \E w \in Presentes' : arquivos'[w].integro /\ arquivos'[i].dia < arquivos'[w].dia
      <3>1. arquivos[i].dia \in Nat /\ arquivos[j].dia \in Nat
        BY <1>4 DEF Arquivo
      <3>2. CASE Expira(i)
        <4>1. arquivos[i].dia < d
          BY <1>6, <3>2
        <4> QED
          BY <1>3, <1>5, <1>7, <3>1, <4>1 DEF KInv, FilesOK
      <3>3. CASE arquivos[i].removido
        <4>1. PICK w \in Presentes : arquivos[w].integro /\ arquivos[i].dia < arquivos[w].dia
          BY <3>3 DEF KInv, FilesOK
        <4>2. w \in DOMAIN arquivos /\ ~arquivos[w].removido /\ arquivos[w].dia \in Nat
          BY <1>4 DEF Presentes, Arquivo
        <4>3. CASE Expira(w)
          <5>1. arquivos[w].dia < d
            BY <1>6, <4>2, <4>3
          <5>2. arquivos[i].dia < arquivos[j].dia
            BY <1>3, <1>7, <3>1, <4>1, <4>2, <5>1
          <5> QED
            BY <1>5, <1>7, <3>3, <5>2 DEF KInv, FilesOK
        <4>4. CASE ~Expira(w)
          <5>1. w \in Presentes'
            BY <1>5, <4>2, <4>4 DEF Presentes
          <5> QED
            BY <1>5, <3>3, <4>1, <4>2, <5>1 DEF KInv, FilesOK
        <4> QED
          BY <4>3, <4>4
      <3> QED
        BY <1>5, <2>2, <3>2, <3>3
    <2>3. hojeE' = hojeE
      BY <1>2
    <2> QED
      BY <1>5, <2>1, <2>2, <2>3 DEF KInv, FilesOK, HasLatest
  <1>9. /\ r # Dorme /\ r.em = "ensaio" /\ r.dia = d /\ passo'[p] = r /\ DOMAIN passo' = Agendadores
        /\ \A q \in Agendadores \ {p} : passo'[q] = passo[q]
    BY <1>2 DEF r, Dorme, KInv, StepsOK
  <1>10. StepsOK'
    <2>1. ASSUME NEW q \in Agendadores PROVE StepOK(passo[q])'
      <3>1. CASE q = p
        BY <1>2, <1>3, <1>9, <3>1 DEF StepOK
      <3>2. CASE q # p
        <4>1. StepOK(passo[q]) /\ passo'[q] = passo[q]
          BY <1>9, <3>2 DEF KInv, StepsOK
        <4> QED
          BY <1>2, <1>5, <4>1 DEF StepOK
      <3> QED
        BY <3>1, <3>2
    <2> QED
      BY <1>9, <2>1 DEF StepsOK, StepOK
  <1>11. LeaseOK'
    <2> SUFFICES ASSUME NEW x \in Agendadores, lider = x, passo'[x] # Dorme
                 PROVE  /\ \A q \in Agendadores : passo'[q] # Dorme => passo'[q].dia <= passo'[x].dia
                        /\ \A i \in DOMAIN arquivos' : arquivos'[i].removido =>
                               arquivos'[i].dia < passo'[x].dia
      BY <1>2 DEF LeaseOK
    <2>1. \A q \in Agendadores : passo'[q] # Dorme => passo[q] # Dorme /\ passo'[q].dia = passo[q].dia
      BY <1>3, <1>9
    <2>2. d <= passo[x].dia /\ passo[x].dia \in Nat
      BY <1>3, <2>1 DEF KInv, LeaseOK, StepsOK, StepOK
    <2>3. ASSUME NEW i \in DOMAIN arquivos, arquivos'[i].removido
          PROVE  arquivos[i].dia < passo[x].dia
      <3>1. arquivos[i].dia \in Nat
        BY <1>4 DEF Arquivo
      <3>2. CASE Expira(i)
        BY <1>3, <1>6, <2>2, <3>1, <3>2
      <3>3. CASE arquivos[i].removido
        BY <2>1, <3>3 DEF KInv, LeaseOK
      <3> QED
        BY <1>5, <2>3, <3>2, <3>3
    <2> QED
      BY <1>5, <2>1, <2>3 DEF KInv, LeaseOK
  <1>12. AloneOK'
    <2> SUFFICES ASSUME ~semLease', NEW x \in Agendadores, lider = x
                 PROVE  /\ passo'[x].em = "despejando" => \A i \in DOMAIN arquivos' :
                               arquivos'[i].dia # passo'[x].dia
                        /\ passo'[x].em = "conferindo tabelas" =>
                               bancoDeEnsaio \in {passo'[x].arquivo, SemBanco}
      BY <1>2 DEF AloneOK
    <2>1. CASE x = p
      <3>1. passo'[x].em = "ensaio"
        BY <1>9, <2>1
      <3> QED
        BY <3>1
    <2>2. CASE x # p
      <3>1. passo'[x] = passo[x] /\ ~semLease
        BY <1>2, <1>9, <2>2
      <3>2. /\ passo[x].em = "despejando" => \A i \in DOMAIN arquivos : arquivos[i].dia # passo[x].dia
            /\ passo[x].em = "conferindo tabelas" => bancoDeEnsaio \in {passo[x].arquivo, SemBanco}
        BY <3>1, Zenon DEF KInv, AloneOK
      <3>3. \A i \in DOMAIN arquivos' : i \in DOMAIN arquivos /\ arquivos'[i].dia = arquivos[i].dia
        BY <1>5
      <3> QED
        BY <3>1, <3>2, <3>3
    <2> QED
      BY <2>1, <2>2
  <1>13. ReportsOK' /\ OneBackupPerDay'
    BY <1>2, <1>5 DEF KInv, ReportsOK, OneBackupPerDay
  <1> QED
    BY <1>5, <1>7, <1>8, <1>10, <1>11, <1>12, <1>13 DEF KInv

\* The lease lapses, the day ends.
LEMMA TimePassesForSchedulers ==
    ASSUME SchedulerAssumption, KInv, ExpirarLease \/ Amanhecer \/ UNCHANGED schedVars
    PROVE  KInv' /\ UNCHANGED arquivos
  <1>1. /\ UNCHANGED <<passo, arquivos, laudos, bancoDeEnsaio, semLease>>
        /\ lider' = lider \/ lider' = "ninguem"
        /\ hojeE' = hojeE \/ hojeE' = hojeE + 1
    BY DEF ExpirarLease, Amanhecer, schedVars
  <1>2. hojeE \in Nat /\ hojeE' \in Nat /\ hojeE <= hojeE'
    BY <1>1 DEF KInv, FilesOK
  <1>3. FilesOK'
    <2>1. Presentes' = Presentes
      BY <1>1 DEF Presentes
    <2>2. ASSUME NEW i \in DOMAIN arquivos, arquivos[i].removido
          PROVE  arquivos[i].dia < hojeE'
      <3>1. arquivos[i].dia < hojeE /\ arquivos[i] \in Arquivo
        BY <2>2 DEF KInv, FilesOK
      <3> QED
        BY <1>2, <3>1 DEF Arquivo
    <2> QED
      BY <1>1, <1>2, <2>1, <2>2 DEF KInv, FilesOK, HasLatest
  <1>4. StepsOK'
    <2>1. ASSUME NEW q \in Agendadores PROVE StepOK(passo[q])'
      <3>1. StepOK(passo[q]) /\ passo'[q] = passo[q] /\ arquivos' = arquivos
        BY <1>1 DEF KInv, StepsOK
      <3>2. ASSUME passo[q] # Dorme PROVE passo[q].dia <= hojeE'
        <4>1. passo[q].dia \in Nat /\ passo[q].dia <= hojeE
          BY <3>1, <3>2, Zenon DEF StepOK
        <4> QED
          BY <1>2, <4>1
      <3> QED
        BY <3>1, <3>2 DEF StepOK
    <2> QED
      BY <1>1, <2>1 DEF KInv, StepsOK, StepOK
  <1>5. LeaseOK' /\ AloneOK'
    <2>1. ASSUME NEW x \in Agendadores, lider' = x PROVE lider = x
      BY <1>1, <2>1 DEF SchedulerAssumption
    <2> QED
      BY <1>1, <2>1 DEF KInv, LeaseOK, AloneOK
  <1>6. ReportsOK' /\ OneBackupPerDay'
    BY <1>1 DEF KInv, ReportsOK, OneBackupPerDay
  <1> QED
    BY <1>1, <1>3, <1>4, <1>5, <1>6 DEF KInv

\* What a step does to the archives besides: only an upload adds to them.
LEMMA OnlyUploadsAndRetention ==
    ASSUME SchedulerAssumption, KInv, NEW p \in Agendadores,
           \/ Liderar(p) \/ Morrer(p) \/ LerParaSair(p) \/ Sair(p)
           \/ PularBackup(p) \/ ExecutarBackup(p) \/ FalharBackup(p)
           \/ TerminarTurno(p) \/ ExecutarEnsaio(p) \/ FalharEnsaio(p)
           \/ RestoreArchive(p) \/ ConferirTabelas(p)
    PROVE  UNCHANGED arquivos
  BY Zenon DEF Liderar, Morrer, LerParaSair, Sair, PularBackup, ExecutarBackup, FalharBackup,
               TerminarTurno, ExecutarEnsaio, FalharEnsaio, RestoreArchive, ConferirTabelas

SchedulerStep(p) ==
    \/ Liderar(p) \/ Morrer(p) \/ LerParaSair(p) \/ Sair(p)
    \/ PularBackup(p) \/ ExecutarBackup(p) \/ Remeter(p) \/ FalharBackup(p) \/ ConferirBackup(p)
    \/ TerminarTurno(p) \/ ExecutarEnsaio(p) \/ RestoreArchive(p) \/ ConferirTabelas(p)
    \/ FalharEnsaio(p)

LEMMA KInvKept ==
    ASSUME SchedulerAssumption, KInv, [SchedNext]_schedVars
    PROVE  KInv'
  <1>1. ASSUME NEW p \in Agendadores, SchedulerStep(p) PROVE KInv'
    BY <1>1, LeasesKeep, TurnsKeep, DrillKeeps, UploadOfArchiveKeeps, RetentionKeeps, Zenon
    DEF SchedulerStep
  <1>2. (\E p \in Agendadores : SchedulerStep(p)) \/ ExpirarLease \/ Amanhecer \/ UNCHANGED schedVars
    BY Zenon DEF SchedNext, SchedulerStep
  <1> QED
    BY <1>1, <1>2, TimePassesForSchedulers

LEMMA SchedulersStayLegal ==
    ASSUME SchedulerAssumption
    PROVE  SchedSpec => []KInv
  <1>1. SchedInit => KInv
    BY KInvInitially
  <1>2. KInv /\ [SchedNext]_schedVars => KInv'
    BY KInvKept
  <1> QED
    BY <1>1, <1>2, PTL DEF SchedSpec

\* For any number of schedulers, days and archives and any retention: a day has
\* one archive unless a scheduler worked on after its lease lapsed, whatever
\* process dies and comes back.
THEOREM OneArchiveForEachDay ==
    ASSUME SchedulerAssumption
    PROVE  SchedSpec => []OneBackupPerDay
  <1>1. KInv => OneBackupPerDay
    BY DEF KInv
  <1> QED
    BY <1>1, SchedulersStayLegal, PTL

\* A report of a drill is about an archive that can be restored, and its counts
\* are of that archive unless two drills shared the database.
THEOREM DrillReportsAreTrue ==
    ASSUME SchedulerAssumption
    PROVE  SchedSpec => []ReportsAreTrue
  <1>1. KInv => ReportsAreTrue
    BY DEF KInv, ReportsOK, ReportsAreTrue
  <1> QED
    BY <1>1, SchedulersStayLegal, PTL

\* The retention never removes the last good archive: the upload it follows is
\* good and younger than anything it takes, or was itself removed by a later
\* turn that left something younger and good.
THEOREM SomeGoodArchiveAlwaysStays ==
    ASSUME SchedulerAssumption
    PROVE  SchedSpec => AGoodArchiveStays
  <1>1. ASSUME KInv, [SchedNext]_schedVars, NEW g \in Presentes, arquivos[g].integro
        PROVE  \E i \in Presentes' : arquivos'[i].integro
    <2>1. ASSUME UNCHANGED arquivos PROVE \E i \in Presentes' : arquivos'[i].integro
      BY <1>1, <2>1 DEF Presentes
    <2>2. ASSUME NEW p \in Agendadores, Remeter(p) PROVE \E i \in Presentes' : arquivos'[i].integro
      <3>1. PICK a : arquivos' = Append(arquivos, a)
        BY <2>2 DEF Remeter
      <3>2. g \in DOMAIN arquivos /\ ~arquivos[g].removido
        BY DEF Presentes
      <3>3. g \in DOMAIN arquivos' /\ arquivos'[g] = arquivos[g]
        BY <1>1, <3>1, <3>2 DEF KInv, FilesOK
      <3> QED
        BY <1>1, <3>2, <3>3 DEF Presentes
    <2>3. ASSUME NEW p \in Agendadores, SchedulerStep(p)
          PROVE  \E i \in Presentes' : arquivos'[i].integro
      BY <1>1, <2>1, <2>2, <2>3, OnlyUploadsAndRetention, RetentionKeeps, Zenon DEF SchedulerStep
    <2>4. (\E p \in Agendadores : SchedulerStep(p)) \/ ExpirarLease \/ Amanhecer \/ UNCHANGED schedVars
      BY <1>1, Zenon DEF SchedNext, SchedulerStep
    <2> QED
      BY <1>1, <2>1, <2>3, <2>4, TimePassesForSchedulers
  <1>2. KInv /\ [SchedNext]_schedVars
            => ((\E i \in Presentes : arquivos[i].integro) => (\E i \in Presentes : arquivos[i].integro)')
    BY <1>1
  <1> QED
    BY <1>2, SchedulersStayLegal, PTL DEF SchedSpec, AGoodArchiveStays

-----------------------------------------------------------------------------
(***************************************************************************)
(* The outbox.                                                             *)
(***************************************************************************)

\* The parts of a batch do not overlap, its rows are committed, and it holds
\* either all of them or, once the connection is lost, none.
DispatcherOK(d) ==
    /\ batch[d].held \in {{}, Taken(d)}
    /\ batch[d].left \intersect (batch[d].done \union batch[d].failed) = {}
    /\ batch[d].done \intersect batch[d].failed = {}
    /\ Taken(d) \subseteq Accepted
    /\ batch[d].done \subseteq Delivered
    /\ batch[d].held = {} => batch[d].left \union batch[d].done \subseteq lost

BatchOK == \A d \in Dispatchers : DispatcherOK(d)

\* One copy, and no lost attempt: the event is marked, or about to be by the
\* dispatcher that published it.
CopiesOK ==
    \A e \in Events \ lost :
        /\ stream[e] # Several
        /\ stream[e] = 1 =>
            \/ outbox[e] \in {"PROCESSED", "FORGOTTEN"}
            \/ \E d \in Dispatchers : e \in batch[d].held \intersect batch[d].done

OInv == TypeOK /\ BatchOK /\ MarkedIsPublished /\ CopiesOK

LEMMA InitInv == Init => OInv
<1> SUFFICES ASSUME Init PROVE OInv
  OBVIOUS
<1>1. TypeOK
  BY DEF Init, TypeOK, NoBatch, RowState, Several
<1>2. BatchOK
  BY DEF Init, BatchOK, DispatcherOK, NoBatch, Taken
<1>3. MarkedIsPublished /\ CopiesOK
  BY DEF Init, MarkedIsPublished, CopiesOK, Several
<1> QED BY <1>1, <1>2, <1>3 DEF OInv

\* The shape of a batch and of the tables, used by every step.
Batches ==
    [held : SUBSET Events, left : SUBSET Events,
     done : SUBSET Events, failed : SUBSET Events]

\* A step that only moves one row from a state in which nobody holds it.
LEMMA RowStep ==
    ASSUME OInv, NEW e \in Events, NEW s \in RowState,
           outbox[e] # "PENDING",
           outbox' = [outbox EXCEPT ![e] = s],
           e \in Accepted => s \notin {"NONE", "WRITTEN", "UNDONE"},
           s \in {"PROCESSED", "FORGOTTEN"} => stream[e] > 0,
           outbox[e] \in {"PROCESSED", "FORGOTTEN"} => s \in {"PROCESSED", "FORGOTTEN"},
           UNCHANGED <<stream, batch, lost>>
    PROVE  OInv'
<1>1. TypeOK'
  BY DEF OInv, TypeOK
<1>2. Accepted \subseteq Accepted'
  BY DEF OInv, TypeOK, Accepted
<1>3. BatchOK'
  BY <1>2 DEF OInv, BatchOK, DispatcherOK, Taken, Delivered
<1>4. MarkedIsPublished'
  BY DEF OInv, TypeOK, MarkedIsPublished
<1>5. CopiesOK'
  BY DEF OInv, TypeOK, CopiesOK
<1> QED BY <1>1, <1>3, <1>4, <1>5 DEF OInv

LEMMA NextInv == OInv /\ [Next]_vars => OInv'
<1> SUFFICES ASSUME OInv, [Next]_vars PROVE OInv'
  OBVIOUS
<1>1. CASE UNCHANGED vars
  BY <1>1 DEF vars, OInv, TypeOK, BatchOK, DispatcherOK, MarkedIsPublished, CopiesOK, Taken, Accepted, Delivered
<1>2. ASSUME NEW e \in Events, Command(e) \/ BackOff(e) \/ Forget(e) PROVE OInv'
  <2>1. CASE Record(e)
    BY <2>1, RowStep DEF Record, RowState, Accepted
  <2>2. CASE CommitCommand(e)
    BY <2>2, RowStep DEF CommitCommand, RowState, Accepted
  <2>3. CASE UndoCommand(e)
    BY <2>3, RowStep DEF UndoCommand, RowState, Accepted
  <2>4. CASE BackOff(e)
    BY <2>4, RowStep DEF BackOff, RowState, Accepted
  <2>5. CASE Forget(e)
    BY <2>5, RowStep DEF Forget, RowState, Accepted, OInv, MarkedIsPublished
  <2> QED BY <1>2, <2>1, <2>2, <2>3, <2>4, <2>5 DEF Command
<1>3. ASSUME NEW d \in Dispatchers, TakeBatch(d) PROVE OInv'
  <2> DEFINE rows == FirstOf(Selectable)
  <2>1. /\ batch'[d] = [held |-> rows, left |-> rows, done |-> {}, failed |-> {}]
        /\ \A c \in Dispatchers \ {d} : batch'[c] = batch[c]
        /\ rows \subseteq {e \in Events : outbox[e] = "PENDING"}
        /\ \A c \in Dispatchers : rows \intersect batch[c].held = {}
        /\ UNCHANGED <<outbox, stream, lost>>
    BY <1>3 DEF TakeBatch, OInv, TypeOK, NoBatch, FirstOf, Selectable, Available, Locked
  <2>2. batch' \in [Dispatchers -> Batches]
    BY <1>3, <2>1 DEF TakeBatch, OInv, TypeOK, NoBatch, Batches
  <2> HIDE DEF rows
  <2>3. TypeOK'
    <3>1. TypeOK /\ outbox' = outbox /\ stream' = stream /\ lost' = lost
      BY <2>1 DEF OInv
    <3>2. \A c \in Dispatchers : \A e \in batch[c].held :
              /\ outbox[e] = "PENDING"
              /\ \A c2 \in Dispatchers \ {c} : e \notin batch[c2].held
      BY <3>1 DEF TypeOK
    <3>3. batch'[d].held = rows
      BY <2>1
    <3>4. \A c \in Dispatchers : \A e \in batch'[c].held :
              /\ outbox'[e] = "PENDING"
              /\ \A c2 \in Dispatchers \ {c} : e \notin batch'[c2].held
      BY <2>1, <3>1, <3>2, <3>3
    <3> QED  BY <2>2, <3>1, <3>4 DEF TypeOK, Batches
  <2>4. BatchOK'
    BY <2>1 DEF OInv, BatchOK, DispatcherOK, Taken, Accepted, Delivered
  <2>5. MarkedIsPublished'
    BY <2>1 DEF OInv, MarkedIsPublished
  <2>6. batch[d].done = {}
    BY <1>3 DEF TakeBatch, Busy, Taken
  <2>7. CopiesOK'
    BY <2>1, <2>6 DEF OInv, CopiesOK
  <2> QED BY <2>3, <2>4, <2>5, <2>7 DEF OInv
<1>4. ASSUME NEW d \in Dispatchers, NEW e \in Events, Publish(d, e) PROVE OInv'
  <2>1. /\ batch'[d] = [batch[d] EXCEPT !.left = @ \ {e}, !.done = @ \union {e}]
        /\ \A c \in Dispatchers \ {d} : batch'[c] = batch[c]
        /\ e \in batch[d].left
        /\ stream'[e] = Once(stream[e])
        /\ \A f \in Events \ {e} : stream'[f] = stream[f]
        /\ UNCHANGED <<outbox, lost>>
    BY <1>4 DEF Publish, IsNext, OInv, TypeOK
  <2>2. /\ batch'[d].held = batch[d].held
        /\ batch'[d].left = batch[d].left \ {e}
        /\ batch'[d].done = batch[d].done \union {e}
        /\ batch'[d].failed = batch[d].failed
    BY <2>1 DEF OInv, TypeOK
  <2>3. batch' \in [Dispatchers -> Batches] /\ stream' \in [Events -> 0..Several]
    <3>1. batch[d] \in Batches /\ Once(stream[e]) \in 0..Several
      BY DEF OInv, TypeOK, Batches, Once, Several
    <3>2. batch'[d] \in Batches
      BY <2>1, <2>2, <3>1 DEF Batches
    <3>3. batch' \in [Dispatchers -> Batches]
      BY <1>4, <3>2 DEF Publish, OInv, TypeOK, Batches
    <3>4. stream' \in [Events -> 0..Several]
      BY <1>4, <3>1 DEF Publish, OInv, TypeOK
    <3> QED BY <3>3, <3>4
  <2>4. TypeOK'
    BY <2>1, <2>2, <2>3 DEF OInv, TypeOK, Batches
  <2>5. \A f \in Events : stream[f] > 0 => stream'[f] > 0
    BY <2>1 DEF OInv, TypeOK, Once, Several
  <2>6. stream'[e] > 0
    BY <2>1 DEF OInv, TypeOK, Once, Several
  <2>7. BatchOK'
    <3>1. Accepted' = Accepted /\ Delivered \subseteq Delivered' /\ e \in Delivered'
      BY <2>1, <2>5, <2>6 DEF Accepted, Delivered
    <3>2. Taken(d)' = Taken(d)
      BY <2>1, <2>2 DEF Taken
    <3>3. ASSUME NEW c \in Dispatchers, c # d
          PROVE  batch'[c] = batch[c] /\ Taken(c)' = Taken(c)
      BY <2>1, <3>3 DEF Taken
    <3>4. batch[d].left \union batch[d].done \subseteq lost
            => batch'[d].left \union batch'[d].done \subseteq lost'
      BY <2>1, <2>2
    <3>5. DispatcherOK(d)'
      <4>1. DispatcherOK(d)
        BY DEF OInv, BatchOK
      <4> QED BY <4>1, <2>1, <2>2, <3>1, <3>2, <3>4 DEF DispatcherOK
    <3>6. ASSUME NEW c \in Dispatchers, c # d PROVE DispatcherOK(c)'
      <4>1. DispatcherOK(c)
        BY DEF OInv, BatchOK
      <4>2. batch'[c] = batch[c] /\ Taken(c)' = Taken(c)
        BY <3>3, <3>6
      <4> QED BY <4>1, <4>2, <2>1, <3>1 DEF DispatcherOK
    <3> QED BY <3>5, <3>6 DEF BatchOK
  <2>8. MarkedIsPublished'
    BY <2>1, <2>5 DEF OInv, MarkedIsPublished
  <2>9. CopiesOK'
    <3>1. ASSUME e \notin lost PROVE stream[e] = 0 /\ e \in batch[d].held
      <4>1. e \in batch[d].held
        BY <2>1, <3>1 DEF OInv, BatchOK, DispatcherOK, Taken
      <4>2. outbox[e] = "PENDING" /\ \A c \in Dispatchers \ {d} : e \notin batch[c].held
        BY <4>1 DEF OInv, TypeOK
      <4>3. e \notin batch[d].done
        BY <2>1 DEF OInv, BatchOK, DispatcherOK
      <4> QED BY <3>1, <4>1, <4>2, <4>3 DEF OInv, TypeOK, CopiesOK, Several
    <3>2. ASSUME NEW f \in Events, f \notin lost, f # e
          PROVE  /\ stream'[f] # Several
                 /\ stream'[f] = 1 =>
                     \/ outbox'[f] \in {"PROCESSED", "FORGOTTEN"}
                     \/ \E c \in Dispatchers : f \in batch'[c].held \intersect batch'[c].done
      BY <2>1, <2>2, <3>2 DEF OInv, CopiesOK
    <3>3. ASSUME e \notin lost
          PROVE  stream'[e] # Several /\ e \in batch'[d].held \intersect batch'[d].done
      BY <2>1, <2>2, <3>1, <3>3 DEF Once, Several
    <3> QED BY <2>1, <3>2, <3>3 DEF CopiesOK
  <2> QED BY <2>4, <2>7, <2>8, <2>9 DEF OInv
<1>5. ASSUME NEW d \in Dispatchers, NEW e \in Events, PublishFails(d, e) PROVE OInv'
  <2>1. /\ batch'[d] = [batch[d] EXCEPT !.left = @ \ {e}, !.failed = @ \union {e}]
        /\ \A c \in Dispatchers \ {d} : batch'[c] = batch[c]
        /\ e \in batch[d].left
        /\ stream'[e] # stream[e] => e \in lost'
        /\ stream'[e] \in {stream[e], Once(stream[e])}
        /\ \A f \in Events \ {e} : stream'[f] = stream[f]
        /\ lost \subseteq lost' /\ lost' \subseteq Events
        /\ UNCHANGED outbox
    BY <1>5 DEF PublishFails, IsNext, OInv, TypeOK
  <2>2. /\ batch'[d].held = batch[d].held
        /\ batch'[d].left = batch[d].left \ {e}
        /\ batch'[d].failed = batch[d].failed \union {e}
        /\ batch'[d].done = batch[d].done
    BY <2>1 DEF OInv, TypeOK
  <2>3. batch' \in [Dispatchers -> Batches] /\ stream' \in [Events -> 0..Several]
    <3>1. batch[d] \in Batches /\ Once(stream[e]) \in 0..Several
      BY DEF OInv, TypeOK, Batches, Once, Several
    <3>2. batch'[d] \in Batches
      BY <2>1, <2>2, <3>1 DEF Batches
    <3>3. batch' \in [Dispatchers -> Batches]
      BY <1>5, <3>2 DEF PublishFails, OInv, TypeOK, Batches
    <3>4. stream' \in [Events -> 0..Several]
      BY <1>5, <3>1 DEF PublishFails, OInv, TypeOK
    <3> QED BY <3>3, <3>4
  <2>4. TypeOK'
    BY <2>1, <2>2, <2>3 DEF OInv, TypeOK, Batches
  <2>5. \A f \in Events : stream[f] > 0 => stream'[f] > 0
    BY <2>1 DEF OInv, TypeOK, Once, Several
  <2>6. BatchOK'
    <3>1. Accepted' = Accepted /\ Delivered \subseteq Delivered'
      BY <2>1, <2>5 DEF Accepted, Delivered
    <3>2. Taken(d)' = Taken(d)
      BY <2>1, <2>2 DEF Taken
    <3>3. ASSUME NEW c \in Dispatchers, c # d
          PROVE  batch'[c] = batch[c] /\ Taken(c)' = Taken(c)
      BY <2>1, <3>3 DEF Taken
    <3>4. batch[d].left \union batch[d].done \subseteq lost
            => batch'[d].left \union batch'[d].done \subseteq lost'
      BY <2>1, <2>2
    <3>5. DispatcherOK(d)'
      <4>1. DispatcherOK(d)
        BY DEF OInv, BatchOK
      <4> QED BY <4>1, <2>1, <2>2, <3>1, <3>2, <3>4 DEF DispatcherOK
    <3>6. ASSUME NEW c \in Dispatchers, c # d PROVE DispatcherOK(c)'
      <4>1. DispatcherOK(c)
        BY DEF OInv, BatchOK
      <4>2. batch'[c] = batch[c] /\ Taken(c)' = Taken(c)
        BY <3>3, <3>6
      <4> QED BY <4>1, <4>2, <2>1, <3>1 DEF DispatcherOK
    <3> QED BY <3>5, <3>6 DEF BatchOK
  <2>7. MarkedIsPublished'
    BY <2>1, <2>5 DEF OInv, MarkedIsPublished
  <2>8. CopiesOK'
    BY <2>1, <2>2 DEF OInv, CopiesOK
  <2> QED BY <2>4, <2>6, <2>7, <2>8 DEF OInv
<1>6. ASSUME NEW d \in Dispatchers, CommitBatch(d) PROVE OInv'
  <2>1. /\ batch'[d] = NoBatch
        /\ \A c \in Dispatchers \ {d} : batch'[c] = batch[c]
        /\ batch' \in [Dispatchers -> Batches]
        /\ UNCHANGED <<stream, lost>>
    BY <1>6 DEF CommitBatch, OInv, TypeOK, Batches, NoBatch
  <2>2. /\ outbox' \in [Events -> RowState]
        /\ \A e \in batch[d].done : outbox'[e] = "PROCESSED"
        /\ \A e \in Events \ batch[d].done : outbox'[e] \in {outbox[e], "WAITING"}
        /\ \A e \in Events \ batch[d].held : outbox'[e] = outbox[e]
    BY <1>6 DEF CommitBatch, Connected, Marked, OInv, TypeOK, BatchOK, DispatcherOK, Taken, RowState
  <2>3. \A e \in batch[d].held :
            outbox[e] = "PENDING" /\ \A c \in Dispatchers \ {d} : e \notin batch[c].held
    BY DEF OInv, TypeOK
  <2>4. TypeOK'
    BY <2>1, <2>2, <2>3 DEF OInv, TypeOK, Batches, NoBatch
  <2>5. Accepted \subseteq Accepted'
    BY <2>2, <2>3 DEF Accepted
  <2>6. BatchOK'
    BY <2>1, <2>5 DEF OInv, BatchOK, DispatcherOK, Taken, NoBatch, Delivered
  <2>7. MarkedIsPublished'
    BY <2>1, <2>2 DEF OInv, BatchOK, DispatcherOK, Delivered, MarkedIsPublished
  <2>8. CopiesOK'
    BY <2>1, <2>2, <2>3 DEF OInv, CopiesOK
  <2> QED BY <2>4, <2>6, <2>7, <2>8 DEF OInv
<1>7. ASSUME NEW d \in Dispatchers, CommitRaises(d) \/ Crash(d) PROVE OInv'
  <2>1. /\ batch' = [batch EXCEPT ![d] = NoBatch]
        /\ UNCHANGED <<outbox, stream>>
    BY <1>7 DEF CommitRaises, Crash
  <2>2. lost \union batch[d].done \subseteq lost' /\ lost' \subseteq Events
    <3>1. CASE CommitRaises(d)
      BY <3>1 DEF CommitRaises, Connected, OInv, TypeOK, BatchOK, DispatcherOK
    <3>2. CASE Crash(d)
      BY <3>2 DEF Crash, OInv, TypeOK
    <3> QED BY <1>7, <3>1, <3>2
  <2>3. NoBatch \in Batches /\ Taken(d)' = {}
    BY <2>1 DEF OInv, TypeOK, Taken, NoBatch, Batches
  <2>4. /\ batch'[d] = NoBatch
        /\ \A c \in Dispatchers \ {d} : batch'[c] = batch[c]
    BY <2>1 DEF OInv, TypeOK
  <2>5. batch' \in [Dispatchers -> Batches]
    BY <2>1, <2>3 DEF OInv, TypeOK, Batches
  <2>6. TypeOK'
    BY <2>1, <2>2, <2>4, <2>5 DEF OInv, TypeOK, Batches, NoBatch
  <2>7. BatchOK'
    <3>1. DispatcherOK(d)'
      BY <2>4 DEF DispatcherOK, Taken, NoBatch
    <3>2. ASSUME NEW c \in Dispatchers, c # d PROVE DispatcherOK(c)'
      <4>1. DispatcherOK(c)
        BY DEF OInv, BatchOK
      <4>2. batch'[c] = batch[c] /\ Taken(c)' = Taken(c)
        BY <2>4, <3>2 DEF Taken
      <4>3. Accepted' = Accepted /\ Delivered' = Delivered
        BY <2>1 DEF Accepted, Delivered
      <4> QED BY <4>1, <4>2, <4>3, <2>2 DEF DispatcherOK
    <3> QED BY <3>1, <3>2 DEF BatchOK
  <2>8. MarkedIsPublished'
    BY <2>1 DEF OInv, MarkedIsPublished
  <2>9. CopiesOK'
    BY <2>1, <2>2, <2>4 DEF OInv, CopiesOK
  <2> QED BY <2>6, <2>7, <2>8, <2>9 DEF OInv
<1>8. ASSUME NEW d \in Dispatchers, LoseConnection(d) PROVE OInv'
  <2>1. /\ batch'[d] = [batch[d] EXCEPT !.held = {}]
        /\ \A c \in Dispatchers \ {d} : batch'[c] = batch[c]
        /\ batch' \in [Dispatchers -> Batches]
        /\ UNCHANGED <<outbox, stream>>
        /\ lost' = lost \union batch[d].left \union batch[d].done
    BY <1>8 DEF LoseConnection, OInv, TypeOK, Batches
  <2>2. /\ batch'[d].held = {}
        /\ batch'[d].left = batch[d].left
        /\ batch'[d].done = batch[d].done
        /\ batch'[d].failed = batch[d].failed
    BY <2>1 DEF OInv, TypeOK
  <2>3. TypeOK'
    BY <2>1, <2>2 DEF OInv, TypeOK, Batches
  <2>4. BatchOK'
    <3>1. Accepted' = Accepted /\ Delivered' = Delivered /\ Taken(d)' = Taken(d)
      BY <2>1, <2>2 DEF Accepted, Delivered, Taken
    <3>2. DispatcherOK(d)'
      <4>1. DispatcherOK(d)
        BY DEF OInv, BatchOK
      <4>2. batch'[d].left \union batch'[d].done \subseteq lost'
        BY <2>1, <2>2
      <4> QED BY <4>1, <4>2, <2>2, <3>1 DEF DispatcherOK
    <3>3. ASSUME NEW c \in Dispatchers, c # d PROVE DispatcherOK(c)'
      <4>1. DispatcherOK(c)
        BY DEF OInv, BatchOK
      <4>2. batch'[c] = batch[c] /\ Taken(c)' = Taken(c) /\ lost \subseteq lost'
        BY <2>1, <3>3 DEF Taken
      <4> QED BY <4>1, <4>2, <3>1 DEF DispatcherOK
    <3> QED BY <3>2, <3>3 DEF BatchOK
  <2>5. MarkedIsPublished'
    BY <2>1 DEF OInv, MarkedIsPublished
  <2>6. CopiesOK'
    BY <2>1, <2>2 DEF OInv, CopiesOK
  <2> QED BY <2>3, <2>4, <2>5, <2>6 DEF OInv
<1> QED BY <1>1, <1>2, <1>3, <1>4, <1>5, <1>6, <1>7, <1>8 DEF Next, Dispatch, Fault

\* A row is never locked by two dispatchers, nor changed while it is locked.
THEOREM TypeCorrect == Spec => []TypeOK
<1>1. OInv => TypeOK
  BY DEF OInv
<1> QED BY <1>1, InitInv, NextInv, PTL DEF Spec

\* What is marked as processed, or already deleted, was published.
THEOREM MarkedWasPublished == Spec => []MarkedIsPublished
<1>1. OInv => MarkedIsPublished
  BY DEF OInv
<1> QED BY <1>1, InitInv, NextInv, PTL DEF Spec

\* Without a lost attempt, an event is published once.
THEOREM NoDuplicateByItself == Spec => []DuplicatesOnlyByLoss
<1>1. OInv => DuplicatesOnlyByLoss
  BY DEF OInv, CopiesOK, DuplicatesOnlyByLoss
<1> QED BY <1>1, InitInv, NextInv, PTL DEF Spec

-----------------------------------------------------------------------------
\* Every step is one of AtLeastOnce, or changes nothing it sees.
LEMMA DeliveryStep == OInv /\ [Next]_vars => [Delivery!Next]_(Delivery!vars)
<1> SUFFICES ASSUME OInv, [Next]_vars PROVE [Delivery!Next]_(Delivery!vars)
  OBVIOUS
<1>1. CASE UNCHANGED vars
  BY <1>1 DEF vars, Delivery!vars, Accepted, Delivered, Forgotten
<1>2. ASSUME NEW e \in Events, Record(e) \/ UndoCommand(e) \/ BackOff(e)
      PROVE  UNCHANGED Delivery!vars
  BY <1>2 DEF Record, UndoCommand, BackOff, OInv, TypeOK, Delivery!vars, Accepted, Delivered, Forgotten
<1>3. ASSUME NEW e \in Events, CommitCommand(e) PROVE Delivery!Accept(e)
  BY <1>3 DEF CommitCommand, OInv, TypeOK, Delivery!Accept, Accepted, Delivered, Forgotten
<1>4. ASSUME NEW e \in Events, Forget(e) PROVE Delivery!Forget(e)
  BY <1>4 DEF Forget, OInv, TypeOK, MarkedIsPublished, Delivery!Forget, Accepted, Delivered, Forgotten
<1>5. ASSUME NEW d \in Dispatchers, NEW e \in Events, Publish(d, e) \/ PublishFails(d, e)
      PROVE  Delivery!Deliver(e) \/ UNCHANGED Delivery!vars
  <2>1. e \in Accepted
    BY <1>5 DEF Publish, PublishFails, IsNext, OInv, BatchOK, DispatcherOK, Taken
  <2>2. UNCHANGED <<Accepted, Forgotten>>
    BY <1>5 DEF Publish, PublishFails, Accepted, Forgotten
  <2>3. Delivered' \in {Delivered, Delivered \union {e}}
    BY <1>5 DEF Publish, PublishFails, OInv, TypeOK, Delivered, Once, Several
  <2> QED BY <2>1, <2>2, <2>3 DEF Delivery!Deliver, Delivery!vars
<1>6. ASSUME NEW d \in Dispatchers, CommitBatch(d) PROVE UNCHANGED Delivery!vars
  <2>1. UNCHANGED Delivered
    BY <1>6 DEF CommitBatch, Delivered
  <2>2. \A e \in batch[d].done \union batch[d].failed : outbox[e] = "PENDING"
    BY <1>6 DEF CommitBatch, Connected, OInv, TypeOK, BatchOK, DispatcherOK, Taken
  <2>3. UNCHANGED <<Accepted, Forgotten>>
    BY <1>6, <2>2 DEF CommitBatch, Marked, OInv, TypeOK, Accepted, Forgotten
  <2> QED BY <2>1, <2>3 DEF Delivery!vars
<1>7. ASSUME NEW d \in Dispatchers,
             TakeBatch(d) \/ CommitRaises(d) \/ Crash(d) \/ LoseConnection(d)
      PROVE  UNCHANGED Delivery!vars
  BY <1>7 DEF TakeBatch, CommitRaises, Crash, LoseConnection, Delivery!vars,
              Accepted, Delivered, Forgotten
<1> QED BY <1>1, <1>2, <1>3, <1>4, <1>5, <1>6, <1>7
        DEF Next, Command, Dispatch, Fault, Delivery!Next

\* The outbox keeps the promise of AtLeastOnce: only committed events are
\* published and only published ones are forgotten.
THEOREM DeliveryKept == Spec => KeepsDelivery
<1>1. Init => Delivery!Init
  BY DEF Init, Delivery!Init, Accepted, Delivered, Forgotten
<1> QED BY <1>1, DeliveryStep, InitInv, NextInv, PTL DEF Spec, KeepsDelivery, Delivery!Spec

-----------------------------------------------------------------------------
(***************************************************************************)
(* The batches of documents.                                               *)
(***************************************************************************)

AtWork(w) == worker[w].pc \in {"querying", "storing", "recording"}

\* A copy of attempt_count read at its maximum is still right.
SeenAtMaximum ==
    \A w \in Workers : \A s \in worker[w].seen :
        s.attempts = MaxAttempts => jobs[s.job].attempts = MaxAttempts

\* What a worker in the middle of a job holds.
BusyOK ==
    \A w \in Workers :
        /\ AtWork(w) => worker[w].job \in Jobs
        /\ worker[w].pc \in {"storing", "recording"} =>
               /\ worker[w].edition \in Editions
               /\ \A i \in Items \ worker[w].left : documents[worker[w].job][i] # Nothing
        /\ worker[w].pc = "recording" =>
               /\ worker[w].key \in Keys
               /\ objects[worker[w].job][worker[w].key] # Nothing
               /\ worker[w].key = Archive => worker[w].left = {}

TInv == JobsTypeOK /\ SeenAtMaximum

DInv == JobsTypeOK /\ BusyOK /\ RowsHaveObjects /\ CompletedDownloadable

-----------------------------------------------------------------------------
\* A claim never writes more than the maximum.
LEMMA ClaimCounts ==
    ASSUME TInv, NEW w \in Workers, NEW j \in Claimable
    PROVE  AttemptsOf(w, j) + 1 \in 0..MaxAttempts
<1>1. j \in Jobs /\ jobs[j] \in JobRow /\ jobs[j].attempts < MaxAttempts
  BY DEF Claimable, TInv, JobsTypeOK
<1>2. CASE \E s \in worker[w].seen : s.job = j
  <2>1. PICK s \in worker[w].seen : s.job = j /\ AttemptsOf(w, j) = s.attempts
    BY <1>2 DEF AttemptsOf
  <2>2. s.attempts \in 0..MaxAttempts
    BY <2>1 DEF TInv, JobsTypeOK, WorkerState
  <2>3. s.attempts # MaxAttempts
    BY <1>1, <2>1, AttemptsAssumption DEF TInv, SeenAtMaximum
  <2> QED BY <2>1, <2>2, <2>3, AttemptsAssumption
<1>3. CASE ~\E s \in worker[w].seen : s.job = j
  BY <1>1, <1>3, AttemptsAssumption DEF AttemptsOf, JobRow
<1> QED BY <1>2, <1>3

\* What a worker becomes has the shape of a worker.
LEMMA IdleTyped == Idle \in WorkerState
BY AttemptsAssumption DEF Idle, WorkerState, Keys

LEMMA WorkersTyped ==
    ASSUME worker \in [Workers -> WorkerState], NEW w \in Workers,
           NEW fields \in WorkerState, Becomes(w, fields)
    PROVE  worker' \in [Workers -> WorkerState]
BY DEF Becomes

\* One job changes, its count of attempts apart.
LEMMA RowsTyped ==
    ASSUME jobs \in [Jobs -> JobRow], NEW j \in Jobs, NEW row \in JobRow,
           row.attempts = jobs[j].attempts, jobs' = [jobs EXCEPT ![j] = row]
    PROVE  /\ jobs' \in [Jobs -> JobRow]
           /\ \A i \in Jobs : jobs'[i].attempts = jobs[i].attempts
OBVIOUS

\* Steps that leave every count of attempts alone, and load none.
LEMMA SeenKept ==
    ASSUME TInv, NEW w \in Workers, NEW fields, Becomes(w, fields),
           fields.seen \subseteq worker[w].seen,
           \A j \in Jobs : jobs'[j].attempts = jobs[j].attempts
    PROVE  SeenAtMaximum'
<1> SUFFICES ASSUME NEW v \in Workers, NEW s \in worker'[v].seen, s.attempts = MaxAttempts
             PROVE  jobs'[s.job].attempts = MaxAttempts
  BY DEF SeenAtMaximum
<1>1. s \in worker[v].seen
  BY DEF Becomes, TInv, JobsTypeOK
<1>2. s.job \in Jobs
  BY <1>1 DEF TInv, JobsTypeOK, WorkerState
<1> QED BY <1>1, <1>2 DEF TInv, SeenAtMaximum

LEMMA TInvInit == JobsInit => TInv
<1> SUFFICES ASSUME JobsInit PROVE TInv
  OBVIOUS
<1>1. worker \in [Workers -> WorkerState]
  BY IdleTyped DEF JobsInit
<1>2. jobs \in [Jobs -> JobRow]
  BY AttemptsAssumption DEF JobsInit, NoJobRow, JobRow
<1>3. SeenAtMaximum
  BY DEF JobsInit, Idle, SeenAtMaximum
<1> QED BY <1>1, <1>2, <1>3 DEF JobsInit, TInv, JobsTypeOK

LEMMA TInvStep == TInv /\ [JobsNext]_jobVars => TInv'
<1> SUFFICES ASSUME TInv, [JobsNext]_jobVars PROVE TInv'
  OBVIOUS
<1> USE DEF TInv, JobsTypeOK
<1>1. CASE UNCHANGED jobVars
  BY <1>1 DEF jobVars, SeenAtMaximum
<1>2. ASSUME NEW j \in Jobs, CreateJob(j) \/ TimePasses(j) PROVE TInv'
  <2>1. PICK row \in JobRow : row.attempts = jobs[j].attempts /\ jobs' = [jobs EXCEPT ![j] = row]
    <3>0. jobs[j] \in JobRow
      OBVIOUS
    <3>1. CASE CreateJob(j)
      BY <3>0, <3>1 DEF CreateJob, JobRow, JobStatus
    <3>2. CASE Age(j)
      BY <3>0, <3>2 DEF Age, JobRow
    <3>3. CASE RetryDue(j)
      BY <3>0, <3>3 DEF RetryDue, JobRow
    <3> QED BY <1>2, <3>1, <3>2, <3>3 DEF TimePasses
  <2>2. /\ jobs' \in [Jobs -> JobRow]
        /\ \A i \in Jobs : jobs'[i].attempts = jobs[i].attempts
    BY <2>1, RowsTyped
  <2>3. \A w \in Workers : \A s \in worker[w].seen : s.job \in Jobs
    BY DEF WorkerState
  <2>4. worker' = worker
    BY <1>2 DEF CreateJob, TimePasses, Age, RetryDue
  <2>5. UNCHANGED <<documents, objects>>
    BY <1>2 DEF CreateJob, TimePasses, Age, RetryDue
  <2> QED BY <2>2, <2>3, <2>4, <2>5 DEF SeenAtMaximum
<1>3. ASSUME NEW w \in Workers, ReadStale(w) PROVE TInv'
  <2> DEFINE row == [Idle EXCEPT
           !.pc = IF Stale = {} THEN "claiming" ELSE "releasing",
           !.seen = {[job |-> j, attempts |-> jobs[j].attempts] : j \in Stale}]
  <2>1. Becomes(w, row) /\ UNCHANGED <<jobs, documents, objects>>
    BY <1>3 DEF ReadStale
  <2>2. {[job |-> j, attempts |-> jobs[j].attempts] : j \in Stale}
            \subseteq [job : Jobs, attempts : 0..MaxAttempts]
    BY DEF Stale, JobRow
  <2>3. row \in WorkerState
    BY <2>2, IdleTyped DEF WorkerState, Idle
  <2>4. JobsTypeOK'
    BY <2>1, <2>3, WorkersTyped
  <2>5. SeenAtMaximum'
    <3> SUFFICES ASSUME NEW v \in Workers, NEW s \in worker'[v].seen, s.attempts = MaxAttempts
                 PROVE  jobs[s.job].attempts = MaxAttempts
      BY <2>1 DEF SeenAtMaximum
    <3>1. CASE v = w
      BY <2>1, <3>1 DEF Becomes, Idle
    <3>2. CASE v # w
      BY <2>1, <3>2 DEF Becomes, SeenAtMaximum
    <3> QED BY <3>1, <3>2
  <2> QED BY <2>4, <2>5
<1>4. ASSUME NEW w \in Workers, ReleaseStale(w) PROVE TInv'
  <2>1. [worker[w] EXCEPT !.pc = "claiming"] \in WorkerState
    BY DEF WorkerState
  <2>2. \A j \in Jobs : jobs'[j].attempts = jobs[j].attempts
    BY <1>4 DEF ReleaseStale, JobRow
  <2>3. jobs' \in [Jobs -> JobRow]
    BY <1>4 DEF ReleaseStale, JobRow, JobStatus
  <2>4. [worker[w] EXCEPT !.pc = "claiming"].seen \subseteq worker[w].seen
    BY DEF WorkerState
  <2> QED BY <1>4, <2>1, <2>2, <2>3, <2>4, WorkersTyped, SeenKept DEF ReleaseStale
<1>5. ASSUME NEW w \in Workers, Claim(w) PROVE TInv'
  <2>1. PICK j \in Claimable :
          /\ jobs' = [jobs EXCEPT ![j] =
               [status |-> "RUNNING", attempts |-> AttemptsOf(w, j) + 1,
                old |-> FALSE, due |-> FALSE]]
          /\ Becomes(w, [Idle EXCEPT !.pc = "querying", !.job = j,
                                     !.attempts = AttemptsOf(w, j) + 1])
    BY <1>5 DEF Claim
  <2>2. AttemptsOf(w, j) + 1 \in 0..MaxAttempts
    BY ClaimCounts
  <2>3. j \in Jobs /\ jobs[j].attempts # MaxAttempts
    BY AttemptsAssumption DEF Claimable, JobRow
  <2>4. [Idle EXCEPT !.pc = "querying", !.job = j, !.attempts = AttemptsOf(w, j) + 1]
            \in WorkerState
    BY <2>2, <2>3, IdleTyped DEF WorkerState, Idle
  <2>5. jobs' \in [Jobs -> JobRow]
    BY <2>1, <2>2, <2>3 DEF JobRow, JobStatus
  <2>6. JobsTypeOK'
    BY <1>5, <2>1, <2>4, <2>5, WorkersTyped DEF Claim
  <2>7. SeenAtMaximum'
    <3> SUFFICES ASSUME NEW v \in Workers, NEW s \in worker'[v].seen, s.attempts = MaxAttempts
                 PROVE  jobs'[s.job].attempts = MaxAttempts
      BY DEF SeenAtMaximum
    <3>1. v # w /\ s \in worker[v].seen
      BY <2>1 DEF Becomes, Idle
    <3>2. s.job \in Jobs
      BY <3>1 DEF WorkerState
    <3>3. jobs[s.job].attempts = MaxAttempts /\ s.job # j
      BY <2>3, <3>1 DEF SeenAtMaximum
    <3> QED BY <2>1, <3>2, <3>3
  <2> QED BY <2>6, <2>7
<1>6. ASSUME NEW w \in Workers, NothingToClaim(w) \/ WorkerDies(w) PROVE TInv'
  <2>1. Becomes(w, Idle) /\ UNCHANGED <<jobs, documents, objects>>
    BY <1>6 DEF NothingToClaim, WorkerDies
  <2>2. Idle.seen \subseteq worker[w].seen
    BY DEF Idle
  <2> QED BY <2>1, <2>2, IdleTyped, WorkersTyped, SeenKept
<1>7. ASSUME NEW w \in Workers, QuerySummary(w) PROVE TInv'
  <2>1. PICK edition \in Editions :
          Becomes(w, [worker[w] EXCEPT !.pc = "storing", !.left = Items, !.edition = edition])
    BY <1>7 DEF QuerySummary
  <2> DEFINE row == [worker[w] EXCEPT !.pc = "storing", !.left = Items, !.edition = edition]
  <2>2. row \in WorkerState /\ row.seen \subseteq worker[w].seen
    BY DEF WorkerState
  <2> QED BY <1>7, <2>1, <2>2, WorkersTyped, SeenKept DEF QuerySummary
<1>8. ASSUME NEW w \in Workers, PutObject(w) PROVE TInv'
  <2>1. PICK key \in NextKeys(w) :
          /\ objects' = [objects EXCEPT ![worker[w].job][key] = worker[w].edition]
          /\ Becomes(w, [worker[w] EXCEPT !.pc = "recording", !.key = key])
    BY <1>8 DEF PutObject
  <2> DEFINE row == [worker[w] EXCEPT !.pc = "recording", !.key = key]
  <2>2. worker[w] \in WorkerState
    OBVIOUS
  <2>3. key \in Keys
    BY <2>2 DEF NextKeys, WorkerState, Keys
  <2>4. row \in WorkerState /\ row.seen \subseteq worker[w].seen
    BY <2>3 DEF WorkerState
  <2>5. worker[w].edition \in Editions \union {Nothing}
    BY <2>2 DEF WorkerState
  <2>6. objects' \in [Jobs -> [Keys -> Editions \union {Nothing}]]
    BY <2>1, <2>3, <2>5
  <2> QED BY <1>8, <2>1, <2>4, <2>6, WorkersTyped, SeenKept DEF PutObject
<1>9. ASSUME NEW w \in Workers, RecordDocument(w) PROVE TInv'
  <2> DEFINE row == IF worker[w].key = Archive THEN Idle
                    ELSE [worker[w] EXCEPT !.pc = "storing", !.left = @ \ {worker[w].key},
                                           !.key = Nothing]
  <2>1. worker[w] \in WorkerState
    OBVIOUS
  <2>2. Becomes(w, row)
    BY <1>9 DEF RecordDocument
  <2>3. row \in WorkerState /\ row.seen \subseteq worker[w].seen
    BY <2>1, IdleTyped DEF WorkerState, Idle
  <2>4. jobs' \in [Jobs -> JobRow] /\ \A j \in Jobs : jobs'[j].attempts = jobs[j].attempts
    <3>1. CASE worker[w].key # Archive
      BY <1>9, <3>1 DEF RecordDocument
    <3>2. CASE worker[w].job \notin Jobs
      BY <1>9, <3>2 DEF RecordDocument
    <3>3. CASE worker[w].key = Archive /\ worker[w].job \in Jobs
      <4> DEFINE j == worker[w].job
                 done == [jobs[j] EXCEPT !.status = "COMPLETED"]
      <4>1. done \in JobRow /\ done.attempts = jobs[j].attempts
        BY <3>3 DEF JobRow, JobStatus
      <4>2. jobs' = [jobs EXCEPT ![j] = done]
        BY <1>9, <3>3 DEF RecordDocument
      <4> QED BY <3>3, <4>1, <4>2, RowsTyped
    <3> QED BY <3>1, <3>2, <3>3
  <2>5. worker[w].edition \in Editions \union {Nothing}
    BY <2>1 DEF WorkerState
  <2>6. documents' \in [Jobs -> [Keys -> Editions \union {Nothing}]]
    BY <1>9, <2>5 DEF RecordDocument
  <2> QED BY <1>9, <2>2, <2>3, <2>4, <2>6, WorkersTyped, SeenKept DEF RecordDocument
<1>10. ASSUME NEW w \in Workers, MarkFailure(w) PROVE TInv'
  <2>1. jobs' \in [Jobs -> JobRow] /\ \A j \in Jobs : jobs'[j].attempts = jobs[j].attempts
    <3>1. CASE worker[w].job \notin Jobs
      BY <1>10, <3>1 DEF MarkFailure
    <3>2. CASE worker[w].job \in Jobs
      <4> DEFINE j == worker[w].job
                 failed == [jobs[j] EXCEPT
                     !.status = IF worker[w].attempts >= MaxAttempts THEN "DEAD_LETTER" ELSE "FAILED",
                     !.due = FALSE]
      <4>1. failed \in JobRow /\ failed.attempts = jobs[j].attempts
        BY <3>2 DEF JobRow, JobStatus
      <4>2. jobs' = [jobs EXCEPT ![j] = failed]
        BY <1>10, <3>2 DEF MarkFailure
      <4> QED BY <3>2, <4>1, <4>2, RowsTyped
    <3> QED BY <3>1, <3>2
  <2>2. Idle.seen \subseteq worker[w].seen
    BY DEF Idle
  <2> QED BY <1>10, <2>1, <2>2, IdleTyped, WorkersTyped, SeenKept DEF MarkFailure
<1> QED
  BY <1>1, <1>2, <1>3, <1>4, <1>5, <1>6, <1>7, <1>8, <1>9, <1>10 DEF JobsNext, ClaimNext, Process

\* attempt_count never passes max_attempts, for any number of workers.
THEOREM JobsTypeCorrect == JobsSpec => []JobsTypeOK
<1>1. TInv => JobsTypeOK
  BY DEF TInv
<1> QED BY <1>1, TInvInit, TInvStep, PTL DEF JobsSpec

-----------------------------------------------------------------------------
(***************************************************************************)
(* What is stored.  The worker that records a document has stored it, and  *)
(* the archive comes last: BusyOK carries both over the steps in between.  *)
(***************************************************************************)

LEMMA DInvInit == JobsInit => DInv
<1> SUFFICES ASSUME JobsInit PROVE DInv
  OBVIOUS
<1>1. JobsTypeOK
  BY TInvInit DEF TInv
<1>2. BusyOK
  BY DEF JobsInit, BusyOK, AtWork, Idle
<1>3. RowsHaveObjects /\ CompletedDownloadable
  BY DEF JobsInit, RowsHaveObjects, CompletedDownloadable, NoJobRow
<1> QED BY <1>1, <1>2, <1>3 DEF DInv

LEMMA DInvStep == TInv /\ DInv /\ [JobsNext]_jobVars => DInv'
<1> SUFFICES ASSUME DInv, TInv', [JobsNext]_jobVars
             PROVE  (BusyOK /\ RowsHaveObjects /\ CompletedDownloadable)'
  BY TInvStep DEF DInv, TInv
<1> USE DEF DInv, JobsTypeOK
<1>0. \A w \in Workers : worker[w] \in WorkerState
  OBVIOUS
<1>2. ASSUME \A j \in Jobs : jobs'[j].status = "COMPLETED" => jobs[j].status = "COMPLETED",
             UNCHANGED documents
      PROVE  CompletedDownloadable'
  BY <1>2 DEF CompletedDownloadable
<1>3. CASE UNCHANGED jobVars
  BY <1>3 DEF jobVars, BusyOK, AtWork, RowsHaveObjects, CompletedDownloadable
<1>4. ASSUME NEW j \in Jobs, CreateJob(j) \/ TimePasses(j)
      PROVE  (BusyOK /\ RowsHaveObjects /\ CompletedDownloadable)'
  <2>1. UNCHANGED <<documents, objects, worker>>
    BY <1>4 DEF CreateJob, TimePasses, Age, RetryDue
  <2>2. \A i \in Jobs : jobs'[i].status = "COMPLETED" => jobs[i].status = "COMPLETED"
    BY <1>4 DEF CreateJob, TimePasses, Age, RetryDue, JobRow
  <2> QED BY <2>1, <2>2, <1>2 DEF BusyOK, AtWork, RowsHaveObjects
<1>5. ASSUME NEW w \in Workers, ClaimNext(w) \/ MarkFailure(w) \/ WorkerDies(w)
      PROVE  (BusyOK /\ RowsHaveObjects /\ CompletedDownloadable)'
  <2>1. UNCHANGED <<documents, objects>>
    BY <1>5 DEF ClaimNext, ReadStale, ReleaseStale, Claim, NothingToClaim, MarkFailure, WorkerDies
  <2>2. \A i \in Jobs : jobs'[i].status = "COMPLETED" => jobs[i].status = "COMPLETED"
    <3>1. CASE ReleaseStale(w)
      BY <3>1 DEF ReleaseStale, JobRow
    <3>2. CASE MarkFailure(w)
      BY <3>2 DEF MarkFailure, JobRow
    <3>3. CASE Claim(w)
      BY <3>3 DEF Claim, JobRow
    <3> QED BY <1>5, <3>1, <3>2, <3>3 DEF ClaimNext, ReadStale, NothingToClaim, WorkerDies
  <2>3. \A v \in Workers : v # w => worker'[v] = worker[v]
    BY <1>5
       DEF ClaimNext, ReadStale, ReleaseStale, Claim, NothingToClaim, MarkFailure, WorkerDies, Becomes
  <2>4. /\ worker'[w].pc \notin {"storing", "recording"}
        /\ worker'[w].pc = "querying" => worker'[w].job \in Jobs
    <3>1. CASE ReadStale(w)
      BY <3>1 DEF ReadStale, Becomes, Idle
    <3>2. CASE ReleaseStale(w)
      BY <3>2, <1>0 DEF ReleaseStale, Becomes, WorkerState
    <3>3. CASE Claim(w)
      <4>1. Claimable \subseteq Jobs
        BY DEF Claimable
      <4> QED BY <3>3, <4>1 DEF Claim, Becomes, Idle
    <3>4. CASE NothingToClaim(w) \/ MarkFailure(w) \/ WorkerDies(w)
      BY <3>4 DEF NothingToClaim, MarkFailure, WorkerDies, Becomes, Idle
    <3> QED BY <1>5, <3>1, <3>2, <3>3, <3>4 DEF ClaimNext
  <2>7. BusyOK' /\ RowsHaveObjects'
    BY <2>1, <2>3, <2>4 DEF BusyOK, AtWork, RowsHaveObjects
  <2> QED BY <2>1, <2>2, <2>7, <1>2
<1>6. ASSUME NEW w \in Workers, QuerySummary(w)
      PROVE  (BusyOK /\ RowsHaveObjects /\ CompletedDownloadable)'
  <2>1. PICK edition \in Editions :
          Becomes(w, [worker[w] EXCEPT !.pc = "storing", !.left = Items, !.edition = edition])
    BY <1>6 DEF QuerySummary
  <2>2. \A v \in Workers : v # w => worker'[v] = worker[v]
    BY <2>1 DEF Becomes
  <2>3. /\ worker'[w].pc = "storing" /\ worker'[w].left = Items
        /\ worker'[w].edition = edition /\ worker'[w].job = worker[w].job
    BY <2>1, <1>0 DEF Becomes, WorkerState
  <2>4. UNCHANGED <<jobs, documents, objects>> /\ worker[w].pc = "querying"
    BY <1>6 DEF QuerySummary
  <2>5. BusyOK'
    BY <2>2, <2>3, <2>4 DEF BusyOK, AtWork
  <2> QED BY <2>4, <2>5 DEF RowsHaveObjects, CompletedDownloadable
<1>7. ASSUME NEW w \in Workers, PutObject(w)
      PROVE  (BusyOK /\ RowsHaveObjects /\ CompletedDownloadable)'
  <2>1. PICK key \in NextKeys(w) :
          /\ objects' = [objects EXCEPT ![worker[w].job][key] = worker[w].edition]
          /\ Becomes(w, [worker[w] EXCEPT !.pc = "recording", !.key = key])
    BY <1>7 DEF PutObject
  <2>2. key \in Keys /\ (key = Archive => worker[w].left = {})
    BY <1>0, ArchiveAssumption DEF NextKeys, WorkerState, Keys
  <2>3. worker[w].pc = "storing" /\ worker[w].job \in Jobs /\ worker[w].edition # Nothing
    BY <1>7, NothingAssumption DEF PutObject, BusyOK, AtWork
  <2>4. \A j \in Jobs, k \in Keys : objects[j][k] # Nothing => objects'[j][k] # Nothing
    BY <2>1, <2>2, <2>3
  <2>5. objects'[worker[w].job][key] # Nothing
    BY <2>1, <2>2, <2>3
  <2>6. \A v \in Workers : v # w => worker'[v] = worker[v]
    BY <2>1 DEF Becomes
  <2>7. /\ worker'[w].pc = "recording" /\ worker'[w].key = key
        /\ worker'[w].left = worker[w].left
        /\ worker'[w].edition = worker[w].edition /\ worker'[w].job = worker[w].job
    BY <2>1, <1>0 DEF Becomes, WorkerState
  <2>8. UNCHANGED <<jobs, documents>>
    BY <1>7 DEF PutObject
  <2>9. BusyOK'
    BY <2>2, <2>3, <2>4, <2>5, <2>6, <2>7, <2>8 DEF BusyOK, AtWork
  <2> QED BY <2>4, <2>8, <2>9 DEF RowsHaveObjects, CompletedDownloadable
<1>8. ASSUME NEW w \in Workers, RecordDocument(w)
      PROVE  (BusyOK /\ RowsHaveObjects /\ CompletedDownloadable)'
  <2> DEFINE j == worker[w].job
             key == worker[w].key
  <2>1. /\ worker[w].pc = "recording" /\ j \in Jobs /\ key \in Keys
        /\ worker[w].edition # Nothing /\ objects[j][key] # Nothing
        /\ \A i \in Items \ worker[w].left : documents[j][i] # Nothing
        /\ key = Archive => worker[w].left = {}
    BY <1>8, NothingAssumption DEF RecordDocument, BusyOK, AtWork
  <2>2. documents' = [documents EXCEPT ![j][key] = worker[w].edition] /\ UNCHANGED objects
    BY <1>8 DEF RecordDocument
  <2>3. /\ documents'[j][key] # Nothing
        /\ \A i \in Jobs, k \in Keys : documents[i][k] # Nothing => documents'[i][k] # Nothing
        /\ \A i \in Jobs, k \in Keys : documents'[i][k] # documents[i][k] => i = j /\ k = key
    BY <2>1, <2>2
  <2>4. RowsHaveObjects'
    BY <2>1, <2>2, <2>3 DEF RowsHaveObjects
  <2>5. \A v \in Workers : v # w => worker'[v] = worker[v]
    BY <1>8 DEF RecordDocument, Becomes
  <2>6. key = Archive => worker'[w].pc = "idle"
    BY <1>8 DEF RecordDocument, Becomes, Idle
  <2>7. key # Archive =>
            /\ worker'[w].pc = "storing" /\ worker'[w].left = worker[w].left \ {key}
            /\ worker'[w].edition = worker[w].edition /\ worker'[w].job = j
    <3>1. SUFFICES ASSUME key # Archive
                   PROVE  /\ worker'[w].pc = "storing"
                          /\ worker'[w].left = worker[w].left \ {key}
                          /\ worker'[w].edition = worker[w].edition /\ worker'[w].job = j
      OBVIOUS
    <3>2. worker' = [worker EXCEPT ![w] =
              [worker[w] EXCEPT !.pc = "storing", !.left = @ \ {key}, !.key = Nothing]]
      BY <1>8, <3>1 DEF RecordDocument, Becomes
    <3> HIDE DEF key
    <3> QED BY <3>2, <1>0 DEF WorkerState
  <2>8. worker[w].edition \in Editions
    BY <2>1 DEF BusyOK
  <2>9. BusyOK'
    BY <2>1, <2>2, <2>3, <2>5, <2>6, <2>7, <2>8 DEF BusyOK, AtWork, Keys
  <2>10. CASE key # Archive
    <3>1. UNCHANGED jobs
      BY <1>8, <2>10 DEF RecordDocument
    <3> QED BY <2>3, <2>4, <2>9, <3>1 DEF CompletedDownloadable
  <2>11. CASE key = Archive
    <3>1. \A k \in Keys : documents'[j][k] # Nothing
      BY <2>1, <2>3, <2>11 DEF Keys
    <3>2. \A i \in Jobs : i # j => jobs'[i] = jobs[i]
      BY <1>8, <2>11 DEF RecordDocument
    <3> QED BY <2>3, <2>4, <2>9, <3>1, <3>2 DEF CompletedDownloadable
  <2> QED BY <2>10, <2>11
<1> QED BY <1>3, <1>4, <1>5, <1>6, <1>7, <1>8 DEF JobsNext, Process

\* With any number of workers, crashes and failures, a recorded document has
\* its object.
THEOREM RecordsPointToObjects == JobsSpec => []RowsHaveObjects
<1>1. TInv /\ DInv /\ [JobsNext]_jobVars => (TInv /\ DInv)'
  BY TInvStep, DInvStep
<1>2. DInv => RowsHaveObjects
  BY DEF DInv
<1> QED BY <1>1, <1>2, TInvInit, DInvInit, PTL DEF JobsSpec

\* A completed job has every document and the archive, whoever completed it.
THEOREM CompletedHasAll == JobsSpec => []CompletedDownloadable
<1>1. TInv /\ DInv /\ [JobsNext]_jobVars => (TInv /\ DInv)'
  BY TInvStep, DInvStep
<1>2. DInv => CompletedDownloadable
  BY DEF DInv
<1> QED BY <1>1, <1>2, TInvInit, DInvInit, PTL DEF JobsSpec

-----------------------------------------------------------------------------
(***************************************************************************)
(* One worker alone.  Its job is RUNNING as long as it holds it, and so    *)
(* are the stale jobs it is about to release; nobody else writes.          *)
(***************************************************************************)

Alone == \A v, w \in Workers : v = w

\* What the worker stored and recorded in this attempt, for the items it left
\* behind, is of one edition.
WorkerAloneOK ==
    \A w \in Workers :
        /\ AtWork(w) => jobs[worker[w].job].status = "RUNNING"
        /\ worker[w].pc = "releasing" =>
               \A s \in worker[w].seen : jobs[s.job].status = "RUNNING"
        /\ worker[w].pc \in {"storing", "recording"} =>
               \A i \in Items \ worker[w].left :
                   /\ documents[worker[w].job][i] = worker[w].edition
                   /\ objects[worker[w].job][i] = worker[w].edition
        /\ worker[w].pc = "recording" =>
               objects[worker[w].job][worker[w].key] = worker[w].edition

AInv == JobsTypeOK /\ BusyOK /\ WorkerAloneOK /\ CompletedConsistent

\* Ended jobs, and all that was stored for them, are left alone.
EndedKept ==
    \A j \in Jobs : jobs[j].status \in {"COMPLETED", "DEAD_LETTER"} =>
        /\ jobs'[j] = jobs[j]
        /\ documents'[j] = documents[j]
        /\ objects'[j] = objects[j]

LEMMA EndedStep == JobsTypeOK /\ BusyOK /\ WorkerAloneOK /\ [JobsNext]_jobVars => EndedKept
<1> SUFFICES ASSUME JobsTypeOK, BusyOK, WorkerAloneOK, [JobsNext]_jobVars,
                    NEW j \in Jobs, jobs[j].status \in {"COMPLETED", "DEAD_LETTER"}
             PROVE  jobs'[j] = jobs[j] /\ documents'[j] = documents[j] /\ objects'[j] = objects[j]
  BY DEF EndedKept
<1> USE DEF JobsTypeOK
<1>1. CASE UNCHANGED jobVars
  BY <1>1 DEF jobVars
<1>2. ASSUME NEW i \in Jobs, CreateJob(i) \/ TimePasses(i)
      PROVE  jobs'[j] = jobs[j] /\ documents'[j] = documents[j] /\ objects'[j] = objects[j]
  BY <1>2 DEF CreateJob, TimePasses, Age, RetryDue
<1>3. ASSUME NEW w \in Workers, ClaimNext(w) \/ WorkerDies(w)
      PROVE  jobs'[j] = jobs[j] /\ documents'[j] = documents[j] /\ objects'[j] = objects[j]
  <2>1. CASE ReleaseStale(w)
    BY <2>1 DEF ReleaseStale, WorkerAloneOK
  <2>2. CASE Claim(w)
    BY <2>2 DEF Claim, Claimable
  <2> QED BY <1>3, <2>1, <2>2 DEF ClaimNext, ReadStale, NothingToClaim, WorkerDies
<1>4. ASSUME NEW w \in Workers, Process(w) \/ MarkFailure(w)
      PROVE  jobs'[j] = jobs[j] /\ documents'[j] = documents[j] /\ objects'[j] = objects[j]
  <2>1. AtWork(w)
    BY <1>4 DEF Process, QuerySummary, PutObject, RecordDocument, MarkFailure, AtWork
  <2>2. worker[w].job \in Jobs /\ worker[w].job # j
    BY <2>1 DEF BusyOK, WorkerAloneOK
  <2> QED BY <1>4, <2>2 DEF Process, QuerySummary, PutObject, RecordDocument, MarkFailure
<1> QED BY <1>1, <1>2, <1>3, <1>4 DEF JobsNext

LEMMA AloneStep == ASSUME Alone PROVE TInv /\ DInv /\ AInv /\ [JobsNext]_jobVars => AInv'
<1> SUFFICES ASSUME AInv, TInv, TInv', DInv', [JobsNext]_jobVars PROVE (WorkerAloneOK /\ CompletedConsistent)'
  BY TInvStep, DInvStep DEF AInv, TInv, DInv
<1> USE DEF AInv, JobsTypeOK
<1>0. \A w \in Workers : worker[w] \in WorkerState
  OBVIOUS
<1>1. EndedKept
  BY EndedStep
<1>2. ASSUME \A j \in Jobs : jobs'[j].status = "COMPLETED" => jobs[j].status = "COMPLETED"
      PROVE  CompletedConsistent'
  BY <1>1, <1>2 DEF EndedKept, CompletedConsistent
<1>3. CASE UNCHANGED jobVars
  BY <1>3, <1>2 DEF jobVars, WorkerAloneOK, AtWork
<1>4. ASSUME NEW j \in Jobs, CreateJob(j) \/ TimePasses(j)
      PROVE  (WorkerAloneOK /\ CompletedConsistent)'
  <2>1. UNCHANGED <<documents, objects, worker>>
    BY <1>4 DEF CreateJob, TimePasses, Age, RetryDue
  <2>2. \A i \in Jobs : jobs'[i].status = "COMPLETED" => jobs[i].status = "COMPLETED"
    BY <1>4 DEF CreateJob, TimePasses, Age, RetryDue, JobRow
  <2>3. \A i \in Jobs : jobs[i].status = "RUNNING" => jobs'[i].status = "RUNNING"
    BY <1>4 DEF CreateJob, TimePasses, Age, RetryDue, JobRow
  <2>4. \A w \in Workers :
          /\ AtWork(w) => worker[w].job \in Jobs
          /\ \A s \in worker[w].seen : s.job \in Jobs
    BY DEF BusyOK, WorkerState
  <2> QED BY <2>1, <2>2, <2>3, <2>4, <1>2 DEF WorkerAloneOK, AtWork
<1>5. ASSUME NEW w \in Workers, ClaimNext(w) \/ MarkFailure(w) \/ WorkerDies(w)
      PROVE  (WorkerAloneOK /\ CompletedConsistent)'
  <2>1. UNCHANGED <<documents, objects>>
    BY <1>5 DEF ClaimNext, ReadStale, ReleaseStale, Claim, NothingToClaim, MarkFailure, WorkerDies
  <2>2. \A i \in Jobs : jobs'[i].status = "COMPLETED" => jobs[i].status = "COMPLETED"
    <3>1. CASE ReleaseStale(w)
      BY <3>1 DEF ReleaseStale, JobRow
    <3>2. CASE MarkFailure(w)
      BY <3>2 DEF MarkFailure, JobRow
    <3>3. CASE Claim(w)
      BY <3>3 DEF Claim, JobRow
    <3> QED BY <1>5, <3>1, <3>2, <3>3 DEF ClaimNext, ReadStale, NothingToClaim, WorkerDies
  <2>3. WorkerAloneOK'
    <3>1. CASE ReadStale(w)
      <4>1. worker'[w].pc \notin {"querying", "storing", "recording"}
        BY <3>1 DEF ReadStale, Becomes, Idle
      <4>2. \A s \in worker'[w].seen : jobs'[s.job].status = "RUNNING"
        BY <3>1 DEF ReadStale, Becomes, Idle, Stale
      <4> QED BY <4>1, <4>2 DEF Alone, WorkerAloneOK, AtWork
    <3>2. CASE ReleaseStale(w)
      <4>1. worker'[w].pc = "claiming"
        BY <3>2, <1>0 DEF ReleaseStale, Becomes, WorkerState
      <4> QED BY <4>1 DEF Alone, WorkerAloneOK, AtWork
    <3>3. CASE Claim(w)
      <4>1. worker'[w].pc = "querying" /\ jobs'[worker'[w].job].status = "RUNNING"
        BY <3>3 DEF Claim, Becomes, Idle, Claimable
      <4> QED BY <4>1 DEF Alone, WorkerAloneOK, AtWork
    <3>4. CASE NothingToClaim(w) \/ MarkFailure(w) \/ WorkerDies(w)
      <4>1. worker'[w].pc = "idle"
        BY <3>4 DEF NothingToClaim, MarkFailure, WorkerDies, Becomes, Idle
      <4> QED BY <4>1 DEF Alone, WorkerAloneOK, AtWork
    <3> QED BY <1>5, <3>1, <3>2, <3>3, <3>4 DEF ClaimNext
  <2> QED BY <2>2, <2>3, <1>2
<1>6. ASSUME NEW w \in Workers, QuerySummary(w)
      PROVE  (WorkerAloneOK /\ CompletedConsistent)'
  <2>1. worker'[w].pc = "storing" /\ worker'[w].left = Items /\ worker'[w].job = worker[w].job
    BY <1>6, <1>0 DEF QuerySummary, Becomes, WorkerState
  <2>2. UNCHANGED <<jobs, documents, objects>> /\ AtWork(w)
    BY <1>6 DEF QuerySummary, AtWork
  <2>3. WorkerAloneOK'
    BY <2>1, <2>2 DEF Alone, WorkerAloneOK, AtWork
  <2> QED BY <2>2, <2>3, <1>2
<1>7. ASSUME NEW w \in Workers, PutObject(w)
      PROVE  (WorkerAloneOK /\ CompletedConsistent)'
  <2>1. PICK key \in NextKeys(w) :
          /\ objects' = [objects EXCEPT ![worker[w].job][key] = worker[w].edition]
          /\ Becomes(w, [worker[w] EXCEPT !.pc = "recording", !.key = key])
    BY <1>7 DEF PutObject
  <2>2. key \in Keys
    BY <1>0 DEF NextKeys, WorkerState, Keys
  <2>3. /\ worker'[w].pc = "recording" /\ worker'[w].key = key
        /\ worker'[w].left = worker[w].left
        /\ worker'[w].edition = worker[w].edition /\ worker'[w].job = worker[w].job
    BY <2>1, <1>0 DEF Becomes, WorkerState
  <2>4. UNCHANGED <<jobs, documents>> /\ AtWork(w) /\ worker[w].pc = "storing"
    BY <1>7 DEF PutObject, AtWork
  <2>5. worker[w].job \in Jobs
    BY <2>4 DEF BusyOK
  <2>6. /\ objects'[worker[w].job][key] = worker[w].edition
        /\ \A i \in Items \ worker[w].left : objects'[worker[w].job][i] = worker[w].edition
    BY <2>1, <2>2, <2>4, <2>5 DEF WorkerAloneOK, Keys
  <2>7. WorkerAloneOK'
    BY <2>3, <2>4, <2>6 DEF Alone, WorkerAloneOK, AtWork
  <2> QED BY <2>4, <2>7, <1>2
<1>8. ASSUME NEW w \in Workers, RecordDocument(w)
      PROVE  (WorkerAloneOK /\ CompletedConsistent)'
  <2> DEFINE j == worker[w].job
             key == worker[w].key
  <2>1. /\ worker[w].pc = "recording" /\ j \in Jobs /\ key \in Keys
        /\ worker[w].edition \in Editions
        /\ objects[j][key] = worker[w].edition
        /\ jobs[j].status = "RUNNING"
        /\ \A i \in Items \ worker[w].left :
               documents[j][i] = worker[w].edition /\ objects[j][i] = worker[w].edition
        /\ key = Archive => worker[w].left = {}
    BY <1>8 DEF RecordDocument, BusyOK, WorkerAloneOK, AtWork
  <2>2. documents' = [documents EXCEPT ![j][key] = worker[w].edition] /\ UNCHANGED objects
    BY <1>8 DEF RecordDocument
  <2>3. /\ documents'[j][key] = worker[w].edition
        /\ \A k \in Keys : k # key => documents'[j][k] = documents[j][k]
    BY <2>1, <2>2
  <2>4. CASE key # Archive
    <3>1. /\ worker'[w].pc = "storing"
          /\ worker'[w].left = worker[w].left \ {key}
          /\ worker'[w].edition = worker[w].edition /\ worker'[w].job = j
      <4>1. worker' = [worker EXCEPT ![w] =
                [worker[w] EXCEPT !.pc = "storing", !.left = @ \ {key}, !.key = Nothing]]
        BY <1>8, <2>4 DEF RecordDocument, Becomes
      <4> HIDE DEF key
      <4> QED BY <4>1, <1>0 DEF WorkerState
    <3>2. UNCHANGED jobs
      BY <1>8, <2>4 DEF RecordDocument
    <3>3. \A i \in Items \ worker'[w].left :
              documents'[j][i] = worker[w].edition /\ objects'[j][i] = worker[w].edition
      BY <2>1, <2>2, <2>3, <3>1 DEF Keys
    <3>4. WorkerAloneOK'
      BY <2>1, <3>1, <3>2, <3>3 DEF Alone, WorkerAloneOK, AtWork
    <3> QED BY <3>2, <3>4, <1>2
  <2>5. CASE key = Archive
    <3>1. worker'[w].pc = "idle"
      BY <1>8, <2>5 DEF RecordDocument, Becomes, Idle
    <3>2. WorkerAloneOK'
      BY <3>1 DEF Alone, WorkerAloneOK, AtWork
    <3>3. \A k \in Keys : documents'[j][k] = worker[w].edition /\ objects'[j][k] = worker[w].edition
      BY <2>1, <2>2, <2>3, <2>5 DEF Keys
    <3>4. \A i \in Jobs : i # j => jobs'[i] = jobs[i]
      BY <1>8, <2>5 DEF RecordDocument
    <3>5. ASSUME NEW i \in Jobs, jobs'[i].status = "COMPLETED"
          PROVE  \E edition \in Editions : \A k \in Keys :
                     documents'[i][k] = edition /\ objects'[i][k] = edition
      <4>1. CASE i = j
        BY <2>1, <3>3, <4>1
      <4>2. CASE i # j
        <5>1. jobs[i].status = "COMPLETED"
          BY <3>4, <3>5, <4>2
        <5>2. documents'[i] = documents[i] /\ objects'[i] = objects[i]
          BY <1>1, <5>1 DEF EndedKept
        <5> QED BY <5>1, <5>2 DEF CompletedConsistent
      <4> QED BY <4>1, <4>2
    <3>6. CompletedConsistent'
      BY <3>5 DEF CompletedConsistent
    <3> QED BY <3>2, <3>6
  <2> QED BY <2>4, <2>5
<1> QED BY <1>3, <1>4, <1>5, <1>6, <1>7, <1>8 DEF JobsNext, Process

LEMMA AloneInit == JobsInit => AInv
<1> SUFFICES ASSUME JobsInit PROVE AInv
  OBVIOUS
<1>1. WorkerAloneOK /\ CompletedConsistent
  BY DEF JobsInit, WorkerAloneOK, AtWork, Idle, CompletedConsistent, NoJobRow
<1> QED BY <1>1, DInvInit DEF DInv, AInv

\* One worker alone completes every job with rows, objects and archive of the
\* same edition, however many attempts it took.
THEOREM OneEdition == ASSUME Alone PROVE JobsSpec => []CompletedConsistent
<1>1. TInv /\ DInv /\ AInv /\ [JobsNext]_jobVars => (TInv /\ DInv /\ AInv)'
  BY TInvStep, DInvStep, AloneStep
<1>2. AInv => CompletedConsistent
  BY DEF AInv
<1> QED BY <1>1, <1>2, TInvInit, DInvInit, AloneInit, PTL DEF JobsSpec

\* One worker alone never takes up again a job that ended.
THEOREM EndedStays == ASSUME Alone PROVE JobsSpec => EndedIsFinal
<1>1. TInv /\ DInv /\ AInv /\ [JobsNext]_jobVars => (TInv /\ DInv /\ AInv)'
  BY TInvStep, DInvStep, AloneStep
<1>2. AInv /\ [JobsNext]_jobVars => [EndedKept]_jobVars
  BY EndedStep DEF AInv
<1>3. [][EndedKept]_jobVars => EndedIsFinal
  BY PTL DEF EndedKept, EndedIsFinal
<1> QED BY <1>1, <1>2, <1>3, TInvInit, DInvInit, AloneInit, PTL DEF JobsSpec
=============================================================================
