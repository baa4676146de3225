----------------------------- MODULE Scheduler -----------------------------
(***************************************************************************)
(* The schedulers that compete for a lease in Redis, and the two daily     *)
(* jobs of the leader that leave files behind: the backup of the database  *)
(* and the drill that restores the latest one into a database of its own.  *)
(*                                                                         *)
(* The lease lasts 90 seconds and is renewed once a turn, so a long job    *)
(* outlives it.  That a job is done, or was just tried, is remembered in   *)
(* the memory of the process; what a new process goes by is what is in the *)
(* bucket.  The retention has no such state (ObjectStorage).               *)
(***************************************************************************)
EXTENDS Integers, Sequences, FiniteSets, SequencesExt

CONSTANTS
    Agendadores,
    MaxDias,        \* bound
    MaxArquivos,    \* bound on the archives uploaded
    Retencao        \* days an archive is kept

ASSUME SchedulerAssumption ==
    /\ {"ninguem", "morto"} \cap Agendadores = {}
    /\ MaxDias \in Nat /\ Retencao \in Nat \ {0}

VARIABLES
    lider,          \* CHAVE_DE_LIDER: whose token it holds
    passo,          \* what each scheduler is doing
    memoria,        \* its ultimo_backup and ultimo_ensaio_restauracao
    hojeE,          \* the day
    arquivos,       \* the .sql.gz objects, in the order they were uploaded
    laudos,         \* reports of drills
    bancoDeEnsaio,  \* the archive restored in BACKUP_RESTORE_DATABASE
    semLease,       \* history: a scheduler acted after it lost the lease
    aviso           \* history: days a backup was seen to be bad, or cut short

schedVars == <<lider, passo, memoria, hojeE, arquivos, laudos, bancoDeEnsaio, semLease, aviso>>

Dorme == [em |-> "dormindo"]

\* What the database of the drill holds, besides an archive.
Vazio == 0
SemBanco == -1

\* Another day's entries count as none.
SemMemoria == [backup |-> 0, ensaio |-> 0]

Presentes == {i \in DOMAIN arquivos : ~arquivos[i].removido}

\* The day the turn of p began.
Agora(p) == passo[p].dia

Vai(p, r) == passo' = [passo EXCEPT ![p] = r]

Depois(p, em) == [em |-> em, dia |-> Agora(p)]

Lembra(p, r) == memoria' = [memoria EXCEPT ![p] = r]

\* Whoever works without the lease: it lapsed while a job ran, or between its
\* GET and its EXPIRE.
Trabalha(p) == semLease' = (semLease \/ lider # p)

-----------------------------------------------------------------------------
\* The lease.

\* SET NX, or GET and EXPIRE: the turn goes on in both cases.
Liderar(p) ==
    /\ passo[p] = Dorme /\ lider \in {"ninguem", p}
    /\ lider' = p
    /\ Vai(p, [em |-> "backup", dia |-> hojeE])
    /\ UNCHANGED <<memoria, hojeE, arquivos, laudos, bancoDeEnsaio, semLease, aviso>>

\* The 90 seconds pass without a renewal.
ExpirarLease ==
    /\ lider # "ninguem" /\ lider' = "ninguem"
    /\ UNCHANGED <<passo, memoria, hojeE, arquivos, laudos, bancoDeEnsaio, semLease, aviso>>

\* The token of a process that died is nobody's.  What it was doing stays.
Morrer(p) ==
    /\ passo[p] # Dorme
    /\ lider' = IF lider = p THEN "morto" ELSE lider
    /\ Vai(p, Dorme) /\ Lembra(p, SemMemoria)
    /\ aviso' = aviso \cup (IF passo[p].em = "conferindo" THEN {Agora(p)} ELSE {})
    /\ UNCHANGED <<hojeE, arquivos, laudos, bancoDeEnsaio, semLease>>

\* The process ends in order: GET, then DELETE.
LerParaSair(p) ==
    /\ passo[p] = Dorme /\ lider = p
    /\ Vai(p, [em |-> "saindo", dia |-> hojeE])
    /\ UNCHANGED <<lider, memoria, hojeE, arquivos, laudos, bancoDeEnsaio, semLease, aviso>>

Sair(p) ==
    /\ passo[p].em = "saindo"
    /\ lider' = "ninguem" /\ Vai(p, Dorme) /\ Lembra(p, SemMemoria)
    /\ UNCHANGED <<hojeE, arquivos, laudos, bancoDeEnsaio, semLease, aviso>>

-----------------------------------------------------------------------------
\* The backup of the day.

\* Mutant: the bucket is not looked at, the memory of the process decides.
NaoExiste(dia) == FALSE

\* backup_exists_today: any .sql.gz of the day.
BackupExistsToday(dia) == \E i \in Presentes : arquivos[i].dia = dia

\* Mutant: a failure counts as done.
MemoriaQualquer(p) == [memoria[p] EXCEPT !.backup = Agora(p)]

\* A failure leaves only its time: the job waits 15 minutes, some turns.
MemoriaDaFalha(p) == memoria[p]

BackupDevido(p) == memoria[p].backup # Agora(p)

\* Done, just tried, or the hour has not come.
PularBackup(p) ==
    /\ passo[p].em = "backup"
    /\ Vai(p, Depois(p, "ensaio"))
    /\ UNCHANGED <<lider, memoria, hojeE, arquivos, laudos, bancoDeEnsaio, semLease, aviso>>

ExecutarBackup(p) ==
    /\ passo[p].em = "backup" /\ BackupDevido(p) /\ Trabalha(p)
    /\ IF BackupExistsToday(Agora(p))
       THEN /\ Lembra(p, [memoria[p] EXCEPT !.backup = Agora(p)])
            /\ Vai(p, Depois(p, "ensaio"))
       ELSE Vai(p, Depois(p, "despejando")) /\ UNCHANGED memoria
    /\ UNCHANGED <<lider, hojeE, arquivos, laudos, bancoDeEnsaio, aviso>>

\* The dump takes long.  What reaches the bucket may differ from what was sent.
Remeter(p) ==
    /\ passo[p].em = "despejando" /\ Len(arquivos) < MaxArquivos /\ Trabalha(p)
    /\ \E integro \in BOOLEAN :
           arquivos' = Append(arquivos, [dia |-> Agora(p), integro |-> integro, removido |-> FALSE])
    /\ Vai(p, [em |-> "conferindo", dia |-> Agora(p), arquivo |-> Len(arquivos) + 1])
    /\ UNCHANGED <<lider, memoria, hojeE, laudos, bancoDeEnsaio, aviso>>

FalharBackup(p) ==
    /\ passo[p].em \in {"despejando", "conferindo"}
    /\ Lembra(p, MemoriaDaFalha(p)) /\ Vai(p, Depois(p, "ensaio"))
    /\ aviso' = aviso \cup (IF passo[p].em = "conferindo" THEN {Agora(p)} ELSE {})
    /\ UNCHANGED <<lider, hojeE, arquivos, laudos, bancoDeEnsaio, semLease>>

\* Mutant: the retention goes by the number of archives.
UltimosDaRetencao(p, h) == {i \in Presentes : i + Retencao <= Len(arquivos) - h}

\* _remove_expired; h = 1 when the turn comes earlier in the day than the upload.
Expirados(p, h) == {i \in Presentes : arquivos[i].dia + Retencao + h <= Agora(p)}

\* _verify_remote, then the manifest and the retention of the archives.
ConferirBackup(p) ==
    /\ passo[p].em = "conferindo" /\ arquivos[passo[p].arquivo].integro
    /\ \E h \in {0, 1} :
           arquivos' = [i \in DOMAIN arquivos |->
                           [arquivos[i] EXCEPT !.removido = @ \/ i \in Expirados(p, h)]]
    /\ Lembra(p, [memoria[p] EXCEPT !.backup = Agora(p)])
    /\ Vai(p, Depois(p, "ensaio"))
    /\ UNCHANGED <<lider, hojeE, laudos, bancoDeEnsaio, semLease, aviso>>

-----------------------------------------------------------------------------
\* The drill.

EnsaioDevido(p) == memoria[p].ensaio # Agora(p)

\* Done, just tried, or not the day of the week or the hour.
TerminarTurno(p) ==
    /\ passo[p].em = "ensaio"
    /\ Vai(p, Dorme)
    /\ UNCHANGED <<lider, memoria, hojeE, arquivos, laudos, bancoDeEnsaio, semLease, aviso>>

\* Mutant: the archive is restored as it comes.
Aceita(k) == TRUE

\* _download_and_verify
DownloadAndVerify(k) == arquivos[k].integro

\* restore_drill_exists_on, then the latest archive: a bad one ends the drill.
ExecutarEnsaio(p) ==
    /\ passo[p].em = "ensaio" /\ EnsaioDevido(p) /\ Trabalha(p)
    /\ \/ /\ \E l \in laudos : l.dia = Agora(p)
          /\ Lembra(p, [memoria[p] EXCEPT !.ensaio = Agora(p)])
          /\ Vai(p, Dorme) /\ UNCHANGED bancoDeEnsaio
       \/ /\ \A l \in laudos : l.dia # Agora(p)
          /\ \/ Presentes = {}
             \/ Presentes # {} /\ ~DownloadAndVerify(Max(Presentes))
          /\ Vai(p, Dorme) /\ UNCHANGED <<memoria, bancoDeEnsaio>>
       \/ /\ \A l \in laudos : l.dia # Agora(p)
          /\ Presentes # {} /\ DownloadAndVerify(Max(Presentes))
          /\ bancoDeEnsaio' = Vazio
          /\ Vai(p, [em |-> "restaurando", dia |-> Agora(p), arquivo |-> Max(Presentes)])
          /\ UNCHANGED memoria
    /\ UNCHANGED <<lider, hojeE, arquivos, laudos, aviso>>

\* The archive creates its own tables, over those of another drill.
RestoreArchive(p) ==
    /\ passo[p].em = "restaurando" /\ bancoDeEnsaio # SemBanco /\ Trabalha(p)
    /\ bancoDeEnsaio' = passo[p].arquivo
    /\ Vai(p, [em |-> "conferindo tabelas", dia |-> Agora(p), arquivo |-> passo[p].arquivo])
    /\ UNCHANGED <<lider, memoria, hojeE, arquivos, laudos, aviso>>

\* The tables are counted in whatever the database holds, and it is dropped.
ConferirTabelas(p) ==
    /\ passo[p].em = "conferindo tabelas" /\ bancoDeEnsaio \notin {SemBanco, Vazio}
    /\ Trabalha(p)
    /\ laudos' = laudos \cup {[dia |-> Agora(p), arquivo |-> passo[p].arquivo,
                               contado |-> bancoDeEnsaio]}
    /\ bancoDeEnsaio' = SemBanco
    /\ Lembra(p, [memoria[p] EXCEPT !.ensaio = Agora(p)])
    /\ Vai(p, Dorme)
    /\ UNCHANGED <<lider, hojeE, arquivos, aviso>>

FalharEnsaio(p) ==
    /\ passo[p].em \in {"restaurando", "conferindo tabelas"}
    /\ bancoDeEnsaio' = SemBanco
    /\ Vai(p, Dorme)
    /\ UNCHANGED <<lider, memoria, hojeE, arquivos, laudos, semLease, aviso>>

Amanhecer ==
    /\ hojeE < MaxDias /\ hojeE' = hojeE + 1
    /\ UNCHANGED <<lider, passo, memoria, arquivos, laudos, bancoDeEnsaio, semLease, aviso>>

SchedInit ==
    /\ lider = "ninguem" /\ hojeE = 1 /\ arquivos = <<>> /\ laudos = {} /\ bancoDeEnsaio = SemBanco
    /\ passo = [p \in Agendadores |-> Dorme] /\ memoria = [p \in Agendadores |-> SemMemoria]
    /\ semLease = FALSE /\ aviso = {}

SchedNext ==
    \/ \E p \in Agendadores :
           \/ Liderar(p) \/ Morrer(p) \/ LerParaSair(p) \/ Sair(p)
           \/ PularBackup(p) \/ ExecutarBackup(p) \/ Remeter(p) \/ FalharBackup(p) \/ ConferirBackup(p)
           \/ TerminarTurno(p) \/ ExecutarEnsaio(p) \/ RestoreArchive(p) \/ ConferirTabelas(p)
           \/ FalharEnsaio(p)
    \/ ExpirarLease \/ Amanhecer

SchedSpec == SchedInit /\ [][SchedNext]_schedVars

-----------------------------------------------------------------------------
\* Properties.

\* A day has one archive, unless a scheduler went on after it lost the lease
\* (scheduler.py:51): a process that dies and comes back takes no other one.
OneBackupPerDay ==
    semLease \/ \A i, j \in DOMAIN arquivos : arquivos[i].dia = arquivos[j].dia => i = j

\* A scheduler that holds the backup for done has a good archive of that day, or
\* one of that day whose check failed, was cut short or goes on in another
\* scheduler (database_backup.py:184: the file is enough).
DoneMeansArchived ==
    \A p \in Agendadores : memoria[p].backup # 0 =>
        \E i \in DOMAIN arquivos :
            arquivos[i].dia = memoria[p].backup
                /\ \/ arquivos[i].integro \/ arquivos[i].dia \in aviso
                   \/ \E q \in Agendadores \ {p} : passo[q].em = "conferindo" /\ passo[q].arquivo = i

\* A report is about an archive that can be restored, and its counts are that
\* archive's unless two drills shared the database (restore_drill.py:147).
ReportsAreTrue ==
    \A l \in laudos : arquivos[l.arquivo].integro /\ (semLease \/ l.contado = l.arquivo)

\* Once a good archive was kept, one always is.
AGoodArchiveStays ==
    [][(\E i \in Presentes : arquivos[i].integro) =>
           (\E i \in Presentes : arquivos[i].integro)']_schedVars
=============================================================================
