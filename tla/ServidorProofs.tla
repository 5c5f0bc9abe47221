--------------------------- MODULE ServidorProofs ---------------------------
(***************************************************************************)
(* Theorems of Servidor, for any employees, customers, requests, orders,   *)
(* tabs, pages and bounds.                                                 *)
(***************************************************************************)
EXTENDS Servidor, FiniteSetTheorems, TLAPS

----------------------------------------------------------------------------
(* Pages of orders *)

EmConstrucao == {"linhas", "conta"}

Contagens == {0} \cup {Cardinality(Q) : Q \in SUBSET DOMAIN Pedidos}

TipoPagina ==
  [pc : {"nada", "linhas", "conta", "pronta"}, tipo : Tipos \cup {Indefinido},
   busca : BOOLEAN, linhas : SUBSET DOMAIN Pedidos,
   carregadas : SUBSET Associacoes, count : Contagens]

TipoConsulta ==
  /\ paginas \in [Threads -> TipoPagina]
  /\ juntasTrocadas \in [Threads -> BOOLEAN]

\* While its page is built, and nobody else sets them, the joins left out are
\* those of the page; only the list is searched, and it leaves out none.
JuntasDaPagina ==
  \A t \in Threads : paginas[t].pc \in EmConstrucao /\ ~juntasTrocadas[t] =>
    /\ paginas[t].tipo \in Tipos
    /\ ignoredJoins = Ignora[paginas[t].tipo]
    /\ paginas[t].busca => paginas[t].tipo = "lista"

\* The rows have been looked up: all of them, with their customers.
LinhasCompletas ==
  \A t \in Threads : paginas[t].pc \in {"conta", "pronta"} /\ ~juntasTrocadas[t] =>
    /\ paginas[t].linhas = DOMAIN Pedidos
    /\ Ignora[paginas[t].tipo] = {} => paginas[t].carregadas = Associacoes
    /\ paginas[t].pc = "pronta" => paginas[t].count = Cardinality(DOMAIN Pedidos)

ConsultaInv == TipoConsulta /\ JuntasDaPagina /\ LinhasCompletas

\* A page of its own joins finds every order.
LEMMA AllFound ==
  ASSUME NEW tipo \in Tipos, NEW busca \in BOOLEAN,
         ignoredJoins = Ignora[tipo], busca => tipo = "lista"
  PROVE  /\ Achados(busca) = DOMAIN Pedidos
         /\ Ignora[tipo] = {} => Juntas = Associacoes
PROOF
  <1>1. Ignora["lista"] = {}
    BY DEF Ignora
  <1>2. Ignora[tipo] = {} => Juntas = Associacoes
    BY DEF Juntas
  <1>3. busca => Associacoes \ Juntas = {}
    BY <1>1, <1>2
  <1> QED
    BY <1>2, <1>3 DEF Achados

LEMMA ConsultaStep ==
  ASSUME ConsultaInv, ConsultaNext
  PROVE  ConsultaInv'
PROOF
  <1>1. ASSUME NEW t \in Threads, NEW tipo \in Tipos, NEW busca \in BOOLEAN,
               setIgnoredJoins(t, tipo, busca)
        PROVE  ConsultaInv'
    <2>1. TipoConsulta'
      <3>1. 0 \in Contagens
        BY DEF Contagens
      <3> QED
        BY <1>1, <3>1 DEF ConsultaInv, TipoConsulta, TipoPagina, setIgnoredJoins, SemPagina
    <2>2. \A u \in Threads : u # t =>
            paginas'[u] = paginas[u]
            /\ (paginas[u].pc \in EmConstrucao => juntasTrocadas'[u])
            /\ (~juntasTrocadas'[u] => ~juntasTrocadas[u])
      BY <1>1 DEF ConsultaInv, TipoConsulta, TipoPagina, setIgnoredJoins, EmConstrucao
    <2>3. paginas'[t].pc = "linhas" /\ paginas'[t].tipo = tipo /\ paginas'[t].busca = busca
          /\ ignoredJoins' = Ignora[tipo] /\ (busca => tipo = "lista")
      BY <1>1 DEF ConsultaInv, TipoConsulta, TipoPagina, setIgnoredJoins, SemPagina
    <2>4. JuntasDaPagina'
      BY <2>2, <2>3 DEF JuntasDaPagina
    <2>5. LinhasCompletas'
      BY <2>2, <2>3 DEF ConsultaInv, LinhasCompletas
    <2> QED
      BY <2>1, <2>4, <2>5 DEF ConsultaInv
  <1>2. ASSUME NEW t \in Threads, search(t)
        PROVE  ConsultaInv'
    <2>1. TipoConsulta'
      <3>1. Juntas \in SUBSET Associacoes /\ Achados(paginas[t].busca) \in SUBSET DOMAIN Pedidos
        BY DEF Juntas, Achados
      <3>2. [paginas[t] EXCEPT !.pc = "conta", !.linhas = Achados(paginas[t].busca),
               !.carregadas = Juntas] \in TipoPagina
        BY <3>1 DEF ConsultaInv, TipoConsulta, TipoPagina
      <3> QED
        BY <1>2, <3>2 DEF ConsultaInv, TipoConsulta, search
    <2>2. /\ \A u \in Threads : u # t => paginas'[u] = paginas[u]
          /\ paginas'[t].pc = "conta" /\ paginas'[t].tipo = paginas[t].tipo
          /\ paginas'[t].busca = paginas[t].busca
          /\ paginas'[t].linhas = Achados(paginas[t].busca) /\ paginas'[t].carregadas = Juntas
          /\ UNCHANGED <<ignoredJoins, juntasTrocadas>>
          /\ paginas[t].pc \in EmConstrucao
      BY <1>2 DEF ConsultaInv, TipoConsulta, TipoPagina, search, EmConstrucao
    <2>3. JuntasDaPagina'
      BY <2>2 DEF ConsultaInv, JuntasDaPagina
    <2>4. paginas[t].busca \in BOOLEAN
      BY DEF ConsultaInv, TipoConsulta, TipoPagina
    <2>5. ~juntasTrocadas[t] => /\ Achados(paginas[t].busca) = DOMAIN Pedidos
                                /\ Ignora[paginas[t].tipo] = {} => Juntas = Associacoes
      BY <2>2, <2>4, AllFound DEF ConsultaInv, JuntasDaPagina
    <2>6. LinhasCompletas'
      BY <2>2, <2>5 DEF ConsultaInv, LinhasCompletas
    <2> QED
      BY <2>1, <2>3, <2>6 DEF ConsultaInv
  <1>3. ASSUME NEW t \in Threads, getTotalElements(t)
        PROVE  ConsultaInv'
    <2>1. TipoConsulta'
      <3>1. Achados(paginas[t].busca) \in SUBSET DOMAIN Pedidos
        BY DEF Achados
      <3>2. Cardinality(Achados(paginas[t].busca)) \in Contagens
        BY <3>1 DEF Contagens
      <3> QED
        BY <1>3, <3>2 DEF ConsultaInv, TipoConsulta, TipoPagina, getTotalElements
    <2>2. /\ \A u \in Threads : u # t => paginas'[u] = paginas[u]
          /\ paginas[t].pc = "conta" /\ paginas'[t].pc = "pronta"
          /\ paginas'[t].tipo = paginas[t].tipo
          /\ paginas'[t].linhas = paginas[t].linhas
          /\ paginas'[t].carregadas = paginas[t].carregadas
          /\ paginas'[t].count = Cardinality(Achados(paginas[t].busca))
          /\ UNCHANGED <<ignoredJoins, juntasTrocadas>>
      BY <1>3 DEF ConsultaInv, TipoConsulta, TipoPagina, getTotalElements
    <2>3. JuntasDaPagina'
      BY <2>2 DEF ConsultaInv, JuntasDaPagina, EmConstrucao
    <2>4. paginas[t].busca \in BOOLEAN
      BY DEF ConsultaInv, TipoConsulta, TipoPagina
    <2>5. ~juntasTrocadas[t] => Achados(paginas[t].busca) = DOMAIN Pedidos
      BY <2>2, <2>4, AllFound DEF ConsultaInv, JuntasDaPagina, EmConstrucao
    <2>6. LinhasCompletas'
      BY <2>2, <2>5 DEF ConsultaInv, LinhasCompletas
    <2> QED
      BY <2>1, <2>3, <2>6 DEF ConsultaInv
  <1> QED
    BY <1>1, <1>2, <1>3 DEF ConsultaNext

LEMMA ConsultaSafe ==
  ASSUME ConsultaInv
  PROVE  PaginaCompleta
  BY ConstantesDaConsulta DEF ConsultaInv, LinhasCompletas, PaginaCompleta, Associacoes
----------------------------------------------------------------------------
(* The way back *)

TipoAba ==
  [pagina : Paginas \cup {Erro}, de : Paginas \cup {Erro}, remove : BOOLEAN,
   erros : BOOLEAN, anterior : Paginas \cup {Erro}]

TipoNavegacao ==
  /\ pilha \in Seq(Paginas)
  /\ abas \in [Abas -> TipoAba]
  /\ dona \in Abas \cup {Erro}

NavegacaoInv == TipoNavegacao /\ VoltaPeloCaminho

LEMMA TopType ==
  ASSUME NEW s \in Seq(Paginas)
  PROVE  Topo(s) \in Paginas \cup {Erro} /\ (Topo(s) = Erro <=> s = <<>>)
  BY ConstantesDaNavegacao DEF Topo

LEMMA TopOfAppend ==
  ASSUME NEW s \in Seq(Paginas), NEW p \in Paginas
  PROVE  Append(s, p) \in Seq(Paginas) /\ Topo(Append(s, p)) = p
  BY DEF Topo

LEMMA WithoutTop ==
  ASSUME NEW s \in Seq(Paginas), s # <<>>
  PROVE  SemTopo(s) \in Seq(Paginas)
PROOF
  <1>1. Len(s) \in Nat /\ Len(s) > 0
    OBVIOUS
  <1>2. 1 \in Nat /\ Len(s) - 1 <= Len(s)
    BY <1>1
  <1> QED
    BY <1>1, <1>2 DEF SemTopo

\* What a page that is asked for does to the stack and to its tab.
LEMMA Opened ==
  ASSUME TipoNavegacao, NEW a \in Abas, NEW p \in Paginas, NEW de \in Paginas \cup {Erro},
         NEW remove \in BOOLEAN, Abre(a, p, de, remove)
  PROVE  /\ pilha' \in Seq(Paginas) /\ abas' \in [Abas -> TipoAba]
         /\ \A b \in Abas : b # a => abas'[b] = abas[b]
         /\ p \in Listas \/ de = Erro => pilha' = <<>>
         /\ p \notin Listas /\ de # Erro =>
              /\ ~remove => pilha' = Append(pilha, de)
              /\ remove /\ pilha # <<>> => pilha' = SemTopo(pilha)
         /\ p \in Listas \/ de = Erro \/ ~remove \/ pilha # <<>> =>
              /\ abas'[a].pagina = p
              /\ p \notin Listas => abas'[a].anterior = Topo(pilha')
PROOF
  <1>1. ASSUME NEW s \in Seq(Paginas), Mostra(a, p, s, de, remove)
        PROVE  /\ pilha' = s /\ pilha' \in Seq(Paginas) /\ abas' \in [Abas -> TipoAba]
               /\ \A b \in Abas : b # a => abas'[b] = abas[b]
               /\ abas'[a].pagina = p
               /\ p \notin Listas => abas'[a].anterior = Topo(pilha')
    <2>1. Topo(s) \in Paginas \cup {Erro}
      BY TopType
    <2>2. [pagina |-> p, de |-> de, remove |-> remove, erros |-> FALSE,
           anterior |-> IF p \in Listas THEN Erro ELSE Topo(s)] \in TipoAba
      BY <2>1 DEF TipoAba
    <2> QED
      BY <1>1, <2>2 DEF Mostra, TipoNavegacao
  <1>2. CASE p \in Listas \/ de = Erro
    <2>1. <<>> \in Seq(Paginas)
      OBVIOUS
    <2> QED
      BY <1>1, <1>2, <2>1 DEF Abre
  <1>3. CASE ~(p \in Listas \/ de = Erro) /\ ~remove
    BY <1>1, <1>3, TopOfAppend DEF Abre, TipoNavegacao
  <1>4. CASE ~(p \in Listas \/ de = Erro) /\ remove /\ pilha # <<>>
    BY <1>1, <1>4, WithoutTop DEF Abre, TipoNavegacao
  <1>5. CASE ~(p \in Listas \/ de = Erro) /\ remove /\ pilha = <<>>
    <2>1. abas' = [abas EXCEPT ![a].pagina = Erro, ![a].de = de, ![a].remove = remove]
          /\ pilha' = pilha
      BY <1>5 DEF Abre
    <2>2. [abas[a] EXCEPT !.pagina = Erro, !.de = de, !.remove = remove] \in TipoAba
      BY DEF TipoNavegacao, TipoAba
    <2> QED
      BY <1>5, <2>1, <2>2 DEF TipoNavegacao
  <1> QED
    BY <1>2, <1>3, <1>4, <1>5

\* Going on to p, or back to it, keeps the way.
LEMMA Walked ==
  ASSUME NavegacaoInv, NEW a \in Abas, NEW p \in Paginas, NEW de \in Paginas,
         NEW remove \in BOOLEAN, NEW novo, Abre(a, p, de, remove), Anda(a, p, novo),
         dona = a /\ p \notin Listas =>
           /\ ~remove \/ pilha # <<>>
           /\ novo = IF remove THEN SemTopo(pilha) ELSE Append(pilha, de)
  PROVE  NavegacaoInv'
PROOF
  <1>1. TipoNavegacao
    BY DEF NavegacaoInv
  <1>2. de # Erro /\ p # Erro /\ a # Erro /\ Erro \notin Abas
    BY ConstantesDaNavegacao
  <1>3. TipoNavegacao'
    BY <1>1, Opened DEF TipoNavegacao, Anda
  <1>4. CASE p \in Listas
    <2>1. dona' = a /\ caminho' = <<>> /\ pilha' = <<>> /\ abas'[a].pagina = p
      BY <1>1, <1>4, Opened DEF Anda
    <2> QED
      BY <1>2, <1>3, <1>4, <2>1 DEF NavegacaoInv, VoltaPeloCaminho, Pagina
  <1>5. CASE p \notin Listas /\ dona # a
    <2>1. dona' = Erro
      BY <1>5 DEF Anda
    <2> QED
      BY <1>2, <1>3, <2>1 DEF NavegacaoInv, VoltaPeloCaminho
  <1>6. CASE p \notin Listas /\ dona = a
    <2>1. dona' = a /\ caminho' = novo
      BY <1>6 DEF Anda
    <2>2. pilha' = novo /\ abas'[a].pagina = p /\ abas'[a].anterior = Topo(pilha')
      BY <1>1, <1>2, <1>6, Opened
    <2> QED
      BY <1>2, <1>3, <2>1, <2>2 DEF NavegacaoInv, VoltaPeloCaminho, Pagina
  <1> QED
    BY <1>4, <1>5, <1>6

LEMMA NavegacaoStep ==
  ASSUME NavegacaoInv, NavegacaoNext
  PROVE  NavegacaoInv'
PROOF
  <1>0. TipoNavegacao /\ VoltaPeloCaminho
    BY DEF NavegacaoInv
  <1>t. \A a \in Abas : abas[a] \in TipoAba
    BY <1>0 DEF TipoNavegacao
  <1>e. Erro \notin Paginas /\ Erro \notin Abas
    BY ConstantesDaNavegacao
  <1>l. Listas \subseteq Paginas /\ Formularios \subseteq Paginas /\ Registros \subseteq Paginas
        /\ \A p \in Paginas : Lista[p] \in Listas
    BY ConstantesDaNavegacao
  <1>1. ASSUME NEW a \in Abas, NEW p \in Paginas, SegueLink(a, p)
        PROVE  NavegacaoInv'
    <2>1. Pagina(a) \in Paginas
      BY <1>1, <1>t DEF SegueLink, Pagina, TipoAba
    <2>2. dona = a => caminho = pilha
      BY <1>0 DEF VoltaPeloCaminho
    <2> QED
      BY <1>1, <2>1, <2>2, Walked DEF SegueLink, Ida
  <1>2. ASSUME NEW a \in Abas, NEW p \in Paginas, Digita(a, p)
        PROVE  NavegacaoInv'
    <2>1. /\ pilha' = <<>> /\ abas'[a].pagina = p /\ dona' = a /\ caminho' = <<>>
          /\ p \notin Listas => abas'[a].anterior = Topo(pilha')
      BY <1>0, <1>2, Opened DEF Digita
    <2>2. TipoNavegacao'
      BY <1>0, <1>2, Opened DEF Digita, TipoNavegacao
    <2> QED
      BY <1>e, <2>1, <2>2 DEF NavegacaoInv, VoltaPeloCaminho, Pagina
  <1>3. ASSUME NEW a \in Abas, Cancela(a)
        PROVE  NavegacaoInv'
    <2>1. Pagina(a) \in Paginas \ Listas /\ Pagina(a) = abas[a].pagina
      BY <1>3 DEF Cancela, Pagina
    <2>2. abas[a].anterior \in Paginas \cup {Erro}
      BY <1>t DEF TipoAba
    <2>3. Anterior(a) \in Paginas
      BY <1>l, <2>1, <2>2 DEF Anterior
    <2>4. dona = a => caminho = pilha /\ abas[a].anterior = Topo(pilha)
      BY <1>0, <2>1 DEF VoltaPeloCaminho
    <2>5. ASSUME dona = a, Anterior(a) \notin Listas
          PROVE  abas[a].anterior # Erro /\ pilha # <<>>
      BY <1>0, <1>l, <2>1, <2>4, <2>5, TopType DEF Anterior, TipoNavegacao
    <2> QED
      BY <1>3, <2>1, <2>3, <2>4, <2>5, Walked DEF Cancela, Volta
  <1>4. ASSUME NEW a \in Abas, Pagina(a) \in Paginas, Retorna(a)
        PROVE  NavegacaoInv'
    <2> DEFINE p == IF pilha = <<>> THEN Lista[Pagina(a)] ELSE Topo(pilha)
    <2>1. p \in Paginas
      BY <1>0, <1>4, <1>l, TopType DEF TipoNavegacao
    <2>2. pilha = <<>> => p \in Listas
      BY <1>4, <1>l
    <2>3. dona = a => caminho = pilha
      BY <1>0 DEF VoltaPeloCaminho
    <2>4. Abre(a, p, Pagina(a), pilha # <<>>) /\ Anda(a, p, IF caminho = <<>> THEN <<>> ELSE SemTopo(caminho))
      BY <1>4 DEF Retorna, Volta
    <2> HIDE DEF p
    <2> QED
      BY <1>4, <2>1, <2>2, <2>3, <2>4, Walked
  <1>5. ASSUME NEW a \in Abas, NaoSalva(a)
        PROVE  NavegacaoInv'
    <2>1. /\ abas' = [abas EXCEPT ![a].anterior = Topo(pilha), ![a].erros = TRUE]
          /\ UNCHANGED <<pilha, dona, caminho>>
      BY <1>5 DEF NaoSalva
    <2>2. Topo(pilha) \in Paginas \cup {Erro}
      BY <1>0, TopType DEF TipoNavegacao
    <2>3. [abas[a] EXCEPT !.anterior = Topo(pilha), !.erros = TRUE] \in TipoAba
      BY <1>t, <2>2 DEF TipoAba
    <2>4. TipoNavegacao'
      BY <1>0, <2>1, <2>3 DEF TipoNavegacao
    <2>5. /\ \A b \in Abas : abas'[b].pagina = abas[b].pagina
          /\ \A b \in Abas : b # a => abas'[b].anterior = abas[b].anterior
          /\ abas'[a].anterior = Topo(pilha)
      BY <1>0, <1>t, <2>1 DEF TipoNavegacao, TipoAba
    <2>6. VoltaPeloCaminho'
      BY <1>0, <2>1, <2>5 DEF VoltaPeloCaminho, Pagina
    <2> QED
      BY <2>4, <2>6 DEF NavegacaoInv
  <1>6. ASSUME NEW a \in Abas, Recarrega(a)
        PROVE  NavegacaoInv'
    <2>1. Pagina(a) \in Paginas /\ abas[a].de \in Paginas \cup {Erro} /\ abas[a].remove \in BOOLEAN
      BY <1>6, <1>t DEF Recarrega, Pagina, TipoAba
    <2>2. Abre(a, Pagina(a), abas[a].de, abas[a].remove)
      BY <1>6 DEF Recarrega
    <2>3. dona' = (IF Pagina(a) \in Listas THEN a ELSE Erro) /\ caminho' = <<>>
      BY <1>6 DEF Recarrega
    <2>4. TipoNavegacao'
      BY <1>0, <2>1, <2>2, <2>3, Opened DEF TipoNavegacao
    <2>5. Pagina(a) \in Listas => pilha' = <<>> /\ abas'[a].pagina = Pagina(a)
      BY <1>0, <2>1, <2>2, Opened
    <2>6. VoltaPeloCaminho'
      BY <1>e, <2>1, <2>3, <2>5 DEF VoltaPeloCaminho, Pagina
    <2> QED
      BY <2>4, <2>6 DEF NavegacaoInv
  <1> QED
    BY <1>1, <1>2, <1>3, <1>4, <1>5, <1>6, <1>l DEF NavegacaoNext, Salva, Exclui

----------------------------------------------------------------------------
(* The register of customers *)

TipoRequisicao ==
  [pc : {"parada", "cliente", "usuario", "nomeia", "grava"},
   op : {"store", "update", "destroy", "funcionario", "demite", Ninguem},
   id : Funcionarios \cup Nat \cup {Ninguem}, email : Emails \cup {Ninguem}, atual : BOOLEAN]

TipoCliente == [email : Emails, acesso : Nat, autor : Funcionarios \cup Nat, pedinte : Funcionarios]

TipoTabelas ==
  /\ gravados \in Nat
  /\ usuarios \in [DOMAIN usuarios -> Emails]
  /\ DOMAIN usuarios \subseteq Funcionarios \cup 1..gravados
  /\ clientes \in [DOMAIN clientes -> TipoCliente]
  /\ DOMAIN clientes \subseteq 1..gravados

\* A customer and its user have the same number.
MesmoNumero == \A c \in DOMAIN clientes : clientes[c].acesso = c

EmailsDiferentes == \A u, v \in DOMAIN usuarios : usuarios[u] = usuarios[v] => u = v

\* Employees keep the e-mail of their login, until one has lost it.
LoginMantido ==
  ~loginPerdido => \A f \in Funcionarios : f \in DOMAIN usuarios /\ usuarios[f] = EmailInicial[f]

TabelasInv ==
  TipoTabelas /\ MesmoNumero /\ EmailsDiferentes /\ LoginMantido /\ ClienteTemAcesso /\ AutorSemCruzar

\* What a request that is under way is about.
PedidoOK(r) ==
  r.pc # "parada" =>
    /\ r.op \in {"store", "update", "destroy", "funcionario", "demite"}
    /\ r.op \in {"funcionario", "demite"} => r.id \in Funcionarios
    /\ r.op \in {"update", "destroy"} => r.id \in Nat
    /\ r.op = "store" => r.id = Ninguem
    /\ r.op \in {"store", "update", "funcionario"} => r.email \in Emails
    /\ r.pc \in {"cliente", "usuario"} => r.op \in {"store", "update", "funcionario"}
    /\ r.pc = "cliente" => r.op # "funcionario"
    /\ r.pc = "nomeia" => r.op = "store"

\* What it knows, while nothing has been saved since it began.
RespostaAtual(r) ==
  r.pc # "parada" /\ r.atual =>
    /\ r.op = "update" => r.id \in DOMAIN clientes
    /\ r.pc = "usuario" /\ r.op # "funcionario" => ClientesCom(r.email) = {}
    /\ r.pc \in {"nomeia", "grava"} /\ r.op = "store" =>
         UsuariosCom(r.email) \cup ClientesCom(r.email) = {}
    /\ r.pc = "grava" /\ r.op = "update" =>
         /\ UsuariosCom(r.email) \subseteq {clientes[r.id].acesso}
         /\ ClientesCom(r.email) \subseteq {r.id}
    /\ r.pc = "grava" /\ r.op = "funcionario" => UsuariosCom(r.email) \subseteq {r.id}

\* The field of the service has the name of whoever is about to save, unless it
\* was set by another request.
NomeDe(f, r) ==
  ~nomeTrocado /\ r.pc = "grava" /\ r.op = "store" => username = EmailInicial[f]

RequisicoesInv ==
  /\ requisicao \in [Funcionarios -> TipoRequisicao]
  /\ nomeTrocado \in BOOLEAN
  /\ \A f \in Funcionarios :
       /\ PedidoOK(requisicao[f]) /\ RespostaAtual(requisicao[f]) /\ NomeDe(f, requisicao[f])

CadastroInv == TabelasInv /\ RequisicoesInv

LEMMA EnoughAsked ==
  ASSUME CadastroInv
  PROVE  VerificacaoBasta
PROOF
  <1>1. ASSUME NEW f \in Funcionarios, requisicao[f].pc = "grava", requisicao[f].atual
        PROVE  /\ requisicao[f].op = "store" => PodePersistir(f)
               /\ requisicao[f].op = "update" => PodeAlterar(f)
               /\ requisicao[f].op = "funcionario" =>
                    UsuariosCom(requisicao[f].email) \subseteq {requisicao[f].id}
    <2>1. RespostaAtual(requisicao[f])
      BY DEF CadastroInv, RequisicoesInv
    <2> QED
      BY <1>1, <2>1 DEF RespostaAtual, PodePersistir, PodeAlterar
  <1> QED
    BY <1>1 DEF VerificacaoBasta

\* A request goes on by itself: the tables stay.
LEMMA OnlyRequest ==
  ASSUME CadastroInv, NEW f \in Funcionarios, NEW r \in TipoRequisicao,
         requisicao' = [requisicao EXCEPT ![f] = r],
         UNCHANGED <<usuarios, clientes, gravados, username, historiaDoCadastro>>,
         PedidoOK(r), RespostaAtual(r), NomeDe(f, r)
  PROVE  CadastroInv'
PROOF
  <1>1. TabelasInv'
    BY DEF CadastroInv, TabelasInv, TipoTabelas, MesmoNumero, EmailsDiferentes, LoginMantido,
       ClienteTemAcesso, AutorSemCruzar, AutorEQuemCadastra, historiaDoCadastro
  <1>2. requisicao' \in [Funcionarios -> TipoRequisicao] /\ nomeTrocado' \in BOOLEAN
    BY DEF CadastroInv, RequisicoesInv, historiaDoCadastro
  <1>3. ASSUME NEW g \in Funcionarios
        PROVE  /\ PedidoOK(requisicao'[g]) /\ RespostaAtual(requisicao[g])' /\ NomeDe(g, requisicao[g])'
    <2>1. requisicao'[g] = IF g = f THEN r ELSE requisicao[g]
      BY DEF CadastroInv, RequisicoesInv
    <2>2. PedidoOK(requisicao'[g]) /\ RespostaAtual(requisicao'[g]) /\ NomeDe(g, requisicao'[g])
      BY <2>1 DEF CadastroInv, RequisicoesInv
    <2>3. UsuariosCom(requisicao'[g].email) = UsuariosCom(requisicao[g].email)'
          /\ ClientesCom(requisicao'[g].email) = ClientesCom(requisicao[g].email)'
      BY DEF UsuariosCom, ClientesCom
    <2> QED
      BY <2>2, <2>3 DEF RespostaAtual, NomeDe, historiaDoCadastro
  <1>4. \A g \in Funcionarios : PedidoOK(requisicao[g])' /\ RespostaAtual(requisicao[g])' /\ NomeDe(g, requisicao[g])'
    BY <1>3 DEF PedidoOK
  <1> QED
    BY <1>1, <1>2, <1>4 DEF CadastroInv, RequisicoesInv

LEMMA ParadaOK ==
  /\ Parada \in TipoRequisicao
  /\ PedidoOK(Parada) /\ RespostaAtual(Parada) /\ \A f : NomeDe(f, Parada)
  BY DEF Parada, TipoRequisicao, PedidoOK, RespostaAtual, NomeDe

LEMMA Ended ==
  ASSUME CadastroInv, NEW f \in Funcionarios, Termina(f),
         UNCHANGED <<usuarios, clientes, gravados, username, historiaDoCadastro>>
  PROVE  CadastroInv'
  BY OnlyRequest, ParadaOK DEF Termina

LEMMA RequestType ==
  ASSUME CadastroInv, NEW f \in Funcionarios
  PROVE  /\ requisicao[f] \in TipoRequisicao
         /\ PedidoOK(requisicao[f]) /\ RespostaAtual(requisicao[f]) /\ NomeDe(f, requisicao[f])
  BY DEF CadastroInv, RequisicoesInv

LEMMA Begun ==
  ASSUME CadastroInv, NEW f \in Funcionarios, NEW pc, NEW op, NEW id, NEW email,
         Comeca(f, pc, op, id, email),
         [pc |-> pc, op |-> op, id |-> id, email |-> email, atual |-> TRUE] \in TipoRequisicao,
         PedidoOK([pc |-> pc, op |-> op, id |-> id, email |-> email, atual |-> TRUE]),
         pc \in {"cliente", "usuario", "grava"},
         op = "update" => id \in DOMAIN clientes,
         pc = "usuario" => op = "funcionario",
         pc = "grava" => op \in {"destroy", "demite"}
  PROVE  CadastroInv'
PROOF
  <1> DEFINE r == [pc |-> pc, op |-> op, id |-> id, email |-> email, atual |-> TRUE]
  <1>1. RespostaAtual(r) /\ NomeDe(f, r)
    BY DEF RespostaAtual, NomeDe
  <1>2. requisicao' = [requisicao EXCEPT ![f] = r]
        /\ UNCHANGED <<usuarios, clientes, gravados, username, historiaDoCadastro>>
    BY DEF Comeca
  <1>3. r \in TipoRequisicao /\ PedidoOK(r)
    OBVIOUS
  <1> HIDE DEF r
  <1> QED
    BY <1>1, <1>2, <1>3, OnlyRequest

LEMMA FormSent ==
  ASSUME CadastroInv, NEW f \in Funcionarios,
         \/ \E e \in Emails :
              \/ store(f, e)
              \/ \E c \in DOMAIN clientes : update(f, c, e)
              \/ \E g \in Funcionarios : updateFuncionario(f, g, e)
         \/ \E c \in DOMAIN clientes : destroy(f, c)
         \/ \E g \in Funcionarios : destroyFuncionario(f, g)
  PROVE  CadastroInv'
PROOF
  <1>1. DOMAIN clientes \subseteq Nat
    BY DEF CadastroInv, TabelasInv, TipoTabelas
  <1>2. ASSUME NEW e \in Emails, store(f, e)
        PROVE  CadastroInv'
    BY <1>2, Begun DEF store, TipoRequisicao, PedidoOK
  <1>3. ASSUME NEW e \in Emails, NEW c \in DOMAIN clientes, update(f, c, e)
        PROVE  CadastroInv'
    BY <1>1, <1>3, Begun DEF update, TipoRequisicao, PedidoOK
  <1>4. ASSUME NEW e \in Emails, NEW g \in Funcionarios, updateFuncionario(f, g, e)
        PROVE  CadastroInv'
    BY <1>4, Begun DEF updateFuncionario, TipoRequisicao, PedidoOK
  <1>5. ASSUME NEW c \in DOMAIN clientes, destroy(f, c)
        PROVE  CadastroInv'
    BY <1>1, <1>5, Begun DEF destroy, TipoRequisicao, PedidoOK
  <1>6. ASSUME NEW g \in Funcionarios, destroyFuncionario(f, g)
        PROVE  CadastroInv'
    BY <1>6, Begun DEF destroyFuncionario, TipoRequisicao, PedidoOK
  <1> QED
    BY <1>2, <1>3, <1>4, <1>5, <1>6

\* A request that is asked its questions goes on with what it has learnt.
LEMMA GoesOn ==
  ASSUME CadastroInv, NEW f \in Funcionarios, NEW pc \in {"usuario", "nomeia", "grava"},
         Segue(f, pc), UNCHANGED <<usuarios, clientes, gravados, username, historiaDoCadastro>>,
         requisicao[f].pc \in {"cliente", "usuario"},
         pc = "nomeia" => requisicao[f].op = "store",
         pc = "grava" => requisicao[f].op # "store",
         RespostaAtual([requisicao[f] EXCEPT !.pc = pc])
  PROVE  CadastroInv'
PROOF
  <1> DEFINE r == [requisicao[f] EXCEPT !.pc = pc]
  <1>1. requisicao[f] \in TipoRequisicao /\ PedidoOK(requisicao[f])
    BY RequestType
  <1>2. /\ r \in TipoRequisicao
        /\ r.pc = pc /\ r.op = requisicao[f].op /\ r.id = requisicao[f].id
        /\ r.email = requisicao[f].email
    BY <1>1 DEF TipoRequisicao
  <1>3. PedidoOK(r) /\ NomeDe(f, r)
    BY <1>1, <1>2 DEF PedidoOK, NomeDe
  <1>4. requisicao' = [requisicao EXCEPT ![f] = r]
    BY DEF Segue
  <1> HIDE DEF r
  <1> QED
    BY <1>2, <1>3, <1>4, OnlyRequest DEF r

LEMMA CustomerAsked ==
  ASSUME CadastroInv, NEW f \in Funcionarios, VerificaCliente(f)
  PROVE  CadastroInv'
PROOF
  <1> DEFINE r == requisicao[f]
             donos == ClientesCom(r.email)
  <1>0. UNCHANGED <<usuarios, clientes, gravados, username, historiaDoCadastro>> /\ r.pc = "cliente"
    BY DEF VerificaCliente
  <1>1. r \in TipoRequisicao /\ PedidoOK(r) /\ RespostaAtual(r)
    BY RequestType
  <1>2. \A pc : LET s == [r EXCEPT !.pc = pc] IN
          s.pc = pc /\ s.op = r.op /\ s.id = r.id /\ s.email = r.email /\ s.atual = r.atual
    BY <1>1 DEF TipoRequisicao
  <1>3. CASE donos = {} /\ Segue(f, "usuario")
    <2>1. RespostaAtual([r EXCEPT !.pc = "usuario"])
      BY <1>0, <1>1, <1>2, <1>3 DEF RespostaAtual
    <2> QED
      BY <1>0, <1>3, <2>1, GoesOn
  <1>4. CASE donos # {} /\ donos = {r.id} /\ Segue(f, DepoisDeVerificar(f))
    <2>1. PICK c \in DOMAIN clientes : clientes[c].email = r.email /\ c = r.id
      BY <1>4 DEF ClientesCom
    <2>2. r.op = "update"
      <3>1. r.op \in {"store", "update"}
        BY <1>0, <1>1 DEF PedidoOK
      <3>2. r.id # Ninguem /\ c \in Nat
        BY <2>1, ConstantesDoCadastro DEF CadastroInv, TabelasInv, TipoTabelas
      <3>3. r.op = "store" => r.id = Ninguem
        BY <1>0, <1>1 DEF PedidoOK
      <3> QED
        BY <2>1, <3>1, <3>2, <3>3
    <2>3. UsuariosCom(r.email) \subseteq {clientes[c].acesso}
      BY <2>1 DEF UsuariosCom, CadastroInv, TabelasInv, ClienteTemAcesso, EmailsDiferentes
    <2>4. RespostaAtual([r EXCEPT !.pc = "grava"])
      BY <1>2, <1>4, <2>1, <2>2, <2>3 DEF RespostaAtual
    <2>5. DepoisDeVerificar(f) = "grava"
      BY <2>2 DEF DepoisDeVerificar
    <2> QED
      BY <1>0, <1>4, <2>2, <2>4, <2>5, GoesOn
  <1>5. CASE Termina(f)
    BY <1>0, <1>5, Ended
  <1> QED
    BY <1>3, <1>4, <1>5 DEF VerificaCliente

LEMMA UserAsked ==
  ASSUME CadastroInv, NEW f \in Funcionarios, VerificaUsuario(f)
  PROVE  CadastroInv'
PROOF
  <1> DEFINE r == requisicao[f]
             donos == UsuariosCom(r.email)
             pc == DepoisDeVerificar(f)
  <1>0. UNCHANGED <<usuarios, clientes, gravados, username, historiaDoCadastro>> /\ r.pc = "usuario"
    BY DEF VerificaUsuario
  <1>1. r \in TipoRequisicao /\ PedidoOK(r) /\ RespostaAtual(r)
    BY RequestType
  <1>2. LET s == [r EXCEPT !.pc = pc] IN
          s.pc = pc /\ s.op = r.op /\ s.id = r.id /\ s.email = r.email /\ s.atual = r.atual
    BY <1>1 DEF TipoRequisicao
  <1>3. CASE (donos = {} \/ (r.op = "funcionario" /\ donos = {r.id})) /\ Segue(f, pc)
    <2>1. r.op \in {"store", "update", "funcionario"}
      BY <1>0, <1>1 DEF PedidoOK
    <2>2. pc = IF r.op = "store" THEN "nomeia" ELSE "grava"
      BY DEF DepoisDeVerificar
    <2> HIDE DEF pc
    <2>3. RespostaAtual([r EXCEPT !.pc = pc])
      BY <1>0, <1>1, <1>2, <1>3, <2>1, <2>2 DEF RespostaAtual
    <2> QED
      BY <1>0, <1>3, <2>1, <2>2, <2>3, GoesOn
  <1>4. CASE Termina(f)
    BY <1>0, <1>4, Ended
  <1> QED
    BY <1>3, <1>4 DEF VerificaUsuario

LEMMA NameSet ==
  ASSUME CadastroInv, NEW f \in Funcionarios, setUsername(f)
  PROVE  CadastroInv'
PROOF
  <1> DEFINE r == [requisicao[f] EXCEPT !.pc = "grava"]
  <1>0. /\ requisicao[f].pc = "nomeia" /\ username' = EmailInicial[f]
        /\ requisicao' = [requisicao EXCEPT ![f] = r]
        /\ nomeTrocado' = (nomeTrocado \/ \E g \in Funcionarios \ {f} :
                            requisicao[g].pc = "grava" /\ requisicao[g].op = "store")
        /\ UNCHANGED <<usuarios, clientes, gravados, loginPerdido>>
    BY DEF setUsername, Segue
  <1>1. requisicao[f] \in TipoRequisicao /\ PedidoOK(requisicao[f]) /\ RespostaAtual(requisicao[f])
    BY RequestType
  <1>2. /\ r \in TipoRequisicao /\ r.pc = "grava" /\ r.op = requisicao[f].op
        /\ r.id = requisicao[f].id /\ r.email = requisicao[f].email /\ r.atual = requisicao[f].atual
    BY <1>1 DEF TipoRequisicao
  <1>3. PedidoOK(r) /\ RespostaAtual(r)
    BY <1>0, <1>1, <1>2 DEF PedidoOK, RespostaAtual
  <1> HIDE DEF r
  <1>4. nomeTrocado' \in BOOLEAN /\ (~nomeTrocado' => ~nomeTrocado)
    BY <1>0 DEF CadastroInv, RequisicoesInv
  <1>5. TabelasInv'
    BY <1>0, <1>4 DEF CadastroInv, TabelasInv, TipoTabelas, MesmoNumero, EmailsDiferentes, LoginMantido,
       ClienteTemAcesso, AutorSemCruzar, AutorEQuemCadastra
  <1>6. requisicao' \in [Funcionarios -> TipoRequisicao]
    BY <1>0, <1>2 DEF CadastroInv, RequisicoesInv
  <1>7. ASSUME NEW g \in Funcionarios
        PROVE  PedidoOK(requisicao[g])' /\ RespostaAtual(requisicao[g])' /\ NomeDe(g, requisicao[g])'
    <2>1. requisicao'[g] = IF g = f THEN r ELSE requisicao[g]
      BY <1>0 DEF CadastroInv, RequisicoesInv
    <2>2. PedidoOK(requisicao'[g]) /\ RespostaAtual(requisicao'[g])
      BY <1>3, <2>1 DEF CadastroInv, RequisicoesInv
    <2>3. UsuariosCom(requisicao'[g].email) = UsuariosCom(requisicao[g].email)'
          /\ ClientesCom(requisicao'[g].email) = ClientesCom(requisicao[g].email)'
      BY <1>0 DEF UsuariosCom, ClientesCom
    <2>4. RespostaAtual(requisicao[g])'
      BY <1>0, <2>2, <2>3 DEF RespostaAtual
    <2>5. NomeDe(g, requisicao[g])'
      BY <1>0, <1>4, <2>1 DEF NomeDe
    <2>6. PedidoOK(requisicao[g])'
      BY <2>2 DEF PedidoOK
    <2> QED
      BY <2>4, <2>5, <2>6
  <1> QED
    BY <1>4, <1>5, <1>6, <1>7 DEF CadastroInv, RequisicoesInv

\* What is saved ends one request and makes the answers of the others old.
LEMMA Saved ==
  ASSUME CadastroInv, NEW f \in Funcionarios, Conclui(f), UNCHANGED <<username, nomeTrocado>>
  PROVE  RequisicoesInv'
PROOF
  <1>1. ASSUME NEW g \in Funcionarios
        PROVE  /\ requisicao'[g] \in TipoRequisicao
               /\ PedidoOK(requisicao[g])' /\ RespostaAtual(requisicao[g])' /\ NomeDe(g, requisicao[g])'
    <2>1. CASE requisicao'[g] = Parada
      BY <2>1, ParadaOK DEF PedidoOK, RespostaAtual, NomeDe, Parada
    <2>2. CASE requisicao'[g] = [requisicao[g] EXCEPT !.atual = FALSE]
      <3> DEFINE r == requisicao[g]
      <3>1. r \in TipoRequisicao /\ PedidoOK(r) /\ NomeDe(g, r)
        BY RequestType
      <3>2. /\ requisicao'[g] \in TipoRequisicao /\ ~requisicao'[g].atual
            /\ requisicao'[g].pc = r.pc /\ requisicao'[g].op = r.op
            /\ requisicao'[g].id = r.id /\ requisicao'[g].email = r.email
        BY <2>2, <3>1 DEF TipoRequisicao
      <3> QED
        BY <3>1, <3>2 DEF PedidoOK, RespostaAtual, NomeDe
    <2> QED
      BY <2>1, <2>2 DEF Conclui
  <1>2. requisicao' \in [Funcionarios -> TipoRequisicao]
    BY <1>1 DEF Conclui
  <1>3. nomeTrocado' \in BOOLEAN
    BY DEF CadastroInv, RequisicoesInv
  <1> QED
    BY <1>1, <1>2, <1>3 DEF RequisicoesInv

LEMMA RolledBack ==
  ASSUME CadastroInv, NEW f \in Funcionarios, Desfaz(f)
  PROVE  CadastroInv'
  BY Ended DEF Desfaz

\* A row that is inserted, and rows that are taken out.
LEMMA InsertedType ==
  ASSUME NEW S, NEW t, t \in [DOMAIN t -> S], NEW id, NEW linha \in S
  PROVE  Insere(t, id, linha) \in [DOMAIN t \cup {id} -> S]
  BY DEF Insere

LEMMA RemovedType ==
  ASSUME NEW S, NEW t, t \in [DOMAIN t -> S], NEW ids
  PROVE  Remove(t, ids) \in [DOMAIN t \ ids -> S]
  BY DEF Remove

LEMMA Persisted ==
  ASSUME CadastroInv, NEW f \in Funcionarios, persist(f)
  PROVE  CadastroInv'
PROOF
  <1> DEFINE n == gravados + 1
             e == requisicao[f].email
  <1>1. CASE Desfaz(f)
    BY <1>1, RolledBack
  <1>2. ASSUME PodePersistir(f), NEW autor \in Autores(f),
               usuarios' = NovosUsuarios(f),
               clientes' = Insere(clientes, n,
                 [email |-> e, acesso |-> n, autor |-> autor, pedinte |-> f]),
               gravados' = n, Conclui(f), UNCHANGED <<username, historiaDoCadastro>>,
               Grava(f, "store")
        PROVE  CadastroInv'
    <2> DEFINE linha == [email |-> e, acesso |-> n, autor |-> autor, pedinte |-> f]
    <2>1. /\ TipoTabelas /\ MesmoNumero /\ EmailsDiferentes /\ LoginMantido /\ ClienteTemAcesso /\ AutorSemCruzar
      BY DEF CadastroInv, TabelasInv
    <2>2. n \in Nat /\ n \notin 1..gravados /\ n \notin Funcionarios /\ 1..gravados \subseteq 1..n /\ n \in 1..n
      BY <2>1, ConstantesDoCadastro DEF TipoTabelas
    <2>3. e \in Emails
      BY <1>2, RequestType DEF PedidoOK, Grava
    <2>4. usuarios' = Insere(usuarios, n, e)
      BY <1>2 DEF NovosUsuarios
    <2>5. n \notin DOMAIN usuarios /\ n \notin DOMAIN clientes
      BY <2>1, <2>2 DEF TipoTabelas
    <2>6. /\ DOMAIN usuarios' = DOMAIN usuarios \cup {n} /\ usuarios'[n] = e
          /\ \A u \in DOMAIN usuarios : usuarios'[u] = usuarios[u]
          /\ usuarios' \in [DOMAIN usuarios \cup {n} -> Emails]
      <3>1. usuarios' \in [DOMAIN usuarios \cup {n} -> Emails]
        BY <2>1, <2>3, <2>4, InsertedType DEF TipoTabelas
      <3> HIDE DEF n, e
      <3>2. /\ DOMAIN usuarios' = DOMAIN usuarios \cup {n}
            /\ usuarios'[n] = e
            /\ \A u \in DOMAIN usuarios : u # n => usuarios'[u] = usuarios[u]
        BY <2>4 DEF Insere
      <3> QED
        BY <2>5, <3>1, <3>2
    <2>7. \A u \in DOMAIN usuarios : usuarios[u] # e
      BY <1>2 DEF PodePersistir, UsuariosCom
    <2>8. \A c \in DOMAIN clientes : clientes[c].email # e
      BY <1>2 DEF PodePersistir, ClientesCom
    <2>9. autor \in DOMAIN usuarios' /\ usuarios'[autor] = username
      BY <1>2 DEF Autores
    <2>10. linha \in TipoCliente /\ linha.email = e /\ linha.acesso = n /\ linha.autor = autor /\ linha.pedinte = f
      BY <2>1, <2>2, <2>3, <2>6, <2>9 DEF TipoCliente, TipoTabelas
    <2>11. clientes' = Insere(clientes, n, linha)
      BY <1>2
    <2> HIDE DEF linha
    <2>12. /\ DOMAIN clientes' = DOMAIN clientes \cup {n} /\ clientes'[n] = linha
           /\ \A c \in DOMAIN clientes : clientes'[c] = clientes[c]
           /\ clientes' \in [DOMAIN clientes \cup {n} -> TipoCliente]
      <3>1. clientes' \in [DOMAIN clientes \cup {n} -> TipoCliente]
        BY <2>1, <2>10, <2>11, InsertedType DEF TipoTabelas
      <3> HIDE DEF n, e
      <3>2. /\ DOMAIN clientes' = DOMAIN clientes \cup {n}
            /\ clientes'[n] = linha
            /\ \A c \in DOMAIN clientes : c # n => clientes'[c] = clientes[c]
        BY <2>11 DEF Insere
      <3> QED
        BY <2>5, <3>1, <3>2
    <2> HIDE DEF n, e
    <2>13. TipoTabelas'
      BY <1>2, <2>1, <2>2, <2>6, <2>12 DEF TipoTabelas
    <2>14. MesmoNumero' /\ EmailsDiferentes'
      BY <2>1, <2>6, <2>7, <2>10, <2>12 DEF MesmoNumero, EmailsDiferentes
    <2>15. LoginMantido'
      BY <1>2, <2>1, <2>6 DEF LoginMantido, historiaDoCadastro
    <2>16. ClienteTemAcesso'
      <3>1. \A c \in DOMAIN clientes' :
              clientes'[c].acesso \in DOMAIN usuarios' /\ usuarios'[clientes'[c].acesso] = clientes'[c].email
        BY <2>1, <2>6, <2>10, <2>12 DEF ClienteTemAcesso
      <3>2. DOMAIN usuarios' \subseteq Funcionarios \cup {clientes'[c].acesso : c \in DOMAIN clientes'}
        BY <2>1, <2>6, <2>10, <2>12 DEF ClienteTemAcesso
      <3>3. \A c, d \in DOMAIN clientes' : clientes'[c].email = clientes'[d].email => c = d
        BY <2>1, <2>8, <2>10, <2>12 DEF ClienteTemAcesso
      <3> QED
        BY <3>1, <3>2, <3>3 DEF ClienteTemAcesso
    <2>17. AutorSemCruzar'
      <3>1. ASSUME ~nomeTrocado, ~loginPerdido
            PROVE  autor = f
        <4>1. username = EmailInicial[f]
          BY <1>2, <3>1, RequestType DEF NomeDe, Grava
        <4>2. f \in DOMAIN usuarios /\ usuarios[f] = EmailInicial[f]
          BY <2>1, <3>1 DEF LoginMantido
        <4> QED
          BY <2>6, <2>9, <2>14, <4>1, <4>2 DEF EmailsDiferentes
      <3> QED
        BY <1>2, <2>1, <2>10, <2>12, <3>1 DEF AutorSemCruzar, AutorEQuemCadastra, historiaDoCadastro
    <2>18. RequisicoesInv'
      BY <1>2, Saved DEF historiaDoCadastro
    <2> QED
      BY <2>13, <2>14, <2>15, <2>16, <2>17, <2>18 DEF CadastroInv, TabelasInv
  <1> QED
    BY <1>1, <1>2 DEF persist

LEMMA Changed ==
  ASSUME CadastroInv, NEW f \in Funcionarios, altera(f)
  PROVE  CadastroInv'
PROOF
  <1> DEFINE r == requisicao[f]
             id == r.id
  <1>1. CASE Desfaz(f)
    BY <1>1, RolledBack
  <1>2. CASE /\ PodeAlterar(f) /\ Conclui(f) /\ Grava(f, "update")
             /\ usuarios' = [usuarios EXCEPT ![clientes[id].acesso] = r.email]
             /\ clientes' = [clientes EXCEPT ![id].email = r.email]
             /\ UNCHANGED <<gravados, username, historiaDoCadastro>>
    <2>1. /\ TipoTabelas /\ MesmoNumero /\ EmailsDiferentes /\ LoginMantido /\ ClienteTemAcesso /\ AutorSemCruzar
      BY DEF CadastroInv, TabelasInv
    <2>2. id \in DOMAIN clientes /\ clientes[id].acesso = id /\ id \in DOMAIN usuarios /\ id \notin Funcionarios
      <3>1. id \in DOMAIN clientes
        BY <1>2 DEF PodeAlterar
      <3> QED
        BY <2>1, <3>1, ConstantesDoCadastro DEF MesmoNumero, ClienteTemAcesso, TipoTabelas
    <2>3. r.email \in Emails
      BY <1>2, RequestType DEF PedidoOK, Grava
    <2>4. /\ DOMAIN usuarios' = DOMAIN usuarios /\ usuarios'[id] = r.email
          /\ \A u \in DOMAIN usuarios : u # id => usuarios'[u] = usuarios[u]
          /\ usuarios' \in [DOMAIN usuarios -> Emails]
      BY <1>2, <2>1, <2>2, <2>3 DEF TipoTabelas
    <2>5. \A u \in DOMAIN usuarios : u # id => usuarios[u] # r.email
      BY <1>2, <2>2 DEF PodeAlterar, UsuariosCom
    <2>6. \A c \in DOMAIN clientes : c # id => clientes[c].email # r.email
      BY <1>2 DEF PodeAlterar, ClientesCom
    <2>7. [clientes[id] EXCEPT !.email = r.email] \in TipoCliente
      BY <2>1, <2>2, <2>3 DEF TipoTabelas, TipoCliente
    <2>8. /\ DOMAIN clientes' = DOMAIN clientes
          /\ clientes' \in [DOMAIN clientes -> TipoCliente]
          /\ \A c \in DOMAIN clientes : c # id => clientes'[c] = clientes[c]
          /\ clientes'[id] = [clientes[id] EXCEPT !.email = r.email]
      BY <1>2, <2>1, <2>2, <2>7 DEF TipoTabelas
    <2>9. /\ clientes'[id].email = r.email /\ clientes'[id].acesso = id
          /\ clientes'[id].autor = clientes[id].autor /\ clientes'[id].pedinte = clientes[id].pedinte
      BY <2>1, <2>2, <2>8 DEF TipoTabelas, TipoCliente
    <2> HIDE DEF id
    <2>c. /\ DOMAIN clientes' = DOMAIN clientes
          /\ \A c \in DOMAIN clientes : clientes'[c].acesso = c /\ clientes[c].acesso = c
          /\ \A c \in DOMAIN clientes :
               clientes'[c].email = IF c = id THEN r.email ELSE clientes[c].email
      BY <2>1, <2>2, <2>8, <2>9 DEF MesmoNumero
    <2>10. TipoTabelas'
      BY <1>2, <2>1, <2>4, <2>8 DEF TipoTabelas
    <2>11. MesmoNumero' /\ EmailsDiferentes'
      BY <2>1, <2>4, <2>5, <2>8, <2>9 DEF MesmoNumero, EmailsDiferentes
    <2>12. LoginMantido'
      BY <1>2, <2>1, <2>2, <2>4 DEF LoginMantido, historiaDoCadastro
    <2>13. ClienteTemAcesso'
      <3>1. \A c \in DOMAIN clientes' :
              clientes'[c].acesso \in DOMAIN usuarios' /\ usuarios'[clientes'[c].acesso] = clientes'[c].email
        BY <2>1, <2>2, <2>4, <2>c DEF ClienteTemAcesso
      <3>2. DOMAIN usuarios' \subseteq Funcionarios \cup {clientes'[c].acesso : c \in DOMAIN clientes'}
        BY <2>1, <2>2, <2>4, <2>c DEF ClienteTemAcesso
      <3>3. \A c, d \in DOMAIN clientes' : clientes'[c].email = clientes'[d].email => c = d
        BY <2>1, <2>6, <2>c DEF ClienteTemAcesso
      <3> QED
        BY <3>1, <3>2, <3>3 DEF ClienteTemAcesso
    <2>14. AutorSemCruzar'
      <3>1. \A c \in DOMAIN clientes :
              clientes'[c].autor = clientes[c].autor /\ clientes'[c].pedinte = clientes[c].pedinte
        BY <2>8, <2>9
      <3> QED
        BY <1>2, <2>1, <2>8, <3>1 DEF AutorSemCruzar, AutorEQuemCadastra, historiaDoCadastro
    <2>15. RequisicoesInv'
      BY <1>2, Saved DEF historiaDoCadastro
    <2> QED
      BY <2>10, <2>11, <2>12, <2>13, <2>14, <2>15 DEF CadastroInv, TabelasInv
  <1> QED
    BY <1>1, <1>2 DEF altera

LEMMA Deleted ==
  ASSUME CadastroInv, NEW f \in Funcionarios, delete(f)
  PROVE  CadastroInv'
PROOF
  <1> DEFINE id == requisicao[f].id
  <1>1. CASE Desfaz(f)
    BY <1>1, RolledBack
  <1>2. CASE /\ id \in DOMAIN clientes /\ Conclui(f)
             /\ clientes' = Remove(clientes, {id})
             /\ usuarios' = Remove(usuarios, {clientes[id].acesso})
             /\ UNCHANGED <<gravados, username, historiaDoCadastro>>
    <2>1. /\ TipoTabelas /\ MesmoNumero /\ EmailsDiferentes /\ LoginMantido /\ ClienteTemAcesso /\ AutorSemCruzar
      BY DEF CadastroInv, TabelasInv
    <2>2. clientes[id].acesso = id /\ id \notin Funcionarios
      BY <1>2, <2>1, ConstantesDoCadastro DEF MesmoNumero, TipoTabelas
    <2> HIDE DEF id
    <2>3. /\ DOMAIN clientes' = DOMAIN clientes \ {id} /\ DOMAIN usuarios' = DOMAIN usuarios \ {id}
          /\ \A c \in DOMAIN clientes' : clientes'[c] = clientes[c]
          /\ \A u \in DOMAIN usuarios' : usuarios'[u] = usuarios[u]
      BY <1>2, <2>2 DEF Remove
    <2>4. /\ clientes' \in [DOMAIN clientes' -> TipoCliente]
          /\ usuarios' \in [DOMAIN usuarios' -> Emails]
      BY <1>2, <2>1, <2>2, <2>3, RemovedType DEF TipoTabelas
    <2>5. TipoTabelas'
      BY <1>2, <2>1, <2>3, <2>4 DEF TipoTabelas
    <2>6. MesmoNumero' /\ EmailsDiferentes' /\ LoginMantido'
      BY <1>2, <2>1, <2>2, <2>3 DEF MesmoNumero, EmailsDiferentes, LoginMantido, historiaDoCadastro
    <2>7. ClienteTemAcesso'
      <3>1. \A c \in DOMAIN clientes' : clientes'[c].acesso = c /\ clientes[c].acesso = c
        BY <2>1, <2>3 DEF MesmoNumero
      <3>2. \A c \in DOMAIN clientes' : c \in DOMAIN usuarios' /\ usuarios'[c] = clientes'[c].email
        BY <2>1, <2>3, <3>1 DEF ClienteTemAcesso
      <3>3. DOMAIN usuarios' \subseteq Funcionarios \cup {clientes'[c].acesso : c \in DOMAIN clientes'}
        BY <2>1, <2>3, <3>1 DEF ClienteTemAcesso, MesmoNumero
      <3>4. \A c, d \in DOMAIN clientes' : clientes'[c].email = clientes'[d].email => c = d
        BY <2>1, <2>3 DEF ClienteTemAcesso
      <3> QED
        BY <3>1, <3>2, <3>3, <3>4 DEF ClienteTemAcesso
    <2>8. AutorSemCruzar'
      BY <1>2, <2>1, <2>3 DEF AutorSemCruzar, AutorEQuemCadastra, historiaDoCadastro
    <2>9. RequisicoesInv'
      BY <1>2, Saved DEF historiaDoCadastro
    <2> QED
      BY <2>5, <2>6, <2>7, <2>8, <2>9 DEF CadastroInv, TabelasInv
  <1> QED
    BY <1>1, <1>2 DEF delete

LEMMA EmployeeChanged ==
  ASSUME CadastroInv, NEW f \in Funcionarios, alteraFuncionario(f)
  PROVE  CadastroInv'
PROOF
  <1> DEFINE id == requisicao[f].id
             e == requisicao[f].email
  <1>1. CASE Desfaz(f)
    BY <1>1, RolledBack
  <1>2. CASE /\ PodeAlterarFuncionario(f) /\ Conclui(f) /\ Grava(f, "funcionario")
             /\ usuarios' = [usuarios EXCEPT ![id] = e]
             /\ loginPerdido' = (loginPerdido \/ e # EmailInicial[id])
             /\ UNCHANGED <<clientes, gravados, username, nomeTrocado>>
    <2>1. /\ TipoTabelas /\ MesmoNumero /\ EmailsDiferentes /\ LoginMantido /\ ClienteTemAcesso /\ AutorSemCruzar
      BY DEF CadastroInv, TabelasInv
    <2>2. id \in DOMAIN usuarios /\ id \in Funcionarios /\ e \in Emails
      BY <1>2, RequestType DEF PodeAlterarFuncionario, PedidoOK, Grava
    <2>3. \A u \in DOMAIN usuarios : u # id => usuarios[u] # e
      BY <1>2 DEF PodeAlterarFuncionario, UsuariosCom
    <2>4. \A c \in DOMAIN clientes : c # id
      BY <2>1, <2>2, ConstantesDoCadastro DEF TipoTabelas
    <2> HIDE DEF id, e
    <2>5. /\ DOMAIN usuarios' = DOMAIN usuarios /\ usuarios'[id] = e
          /\ \A u \in DOMAIN usuarios : u # id => usuarios'[u] = usuarios[u]
          /\ usuarios' \in [DOMAIN usuarios -> Emails]
      BY <1>2, <2>1, <2>2 DEF TipoTabelas
    <2>6. TipoTabelas'
      BY <1>2, <2>1, <2>5 DEF TipoTabelas
    <2>7. MesmoNumero' /\ EmailsDiferentes' /\ LoginMantido'
      BY <1>2, <2>1, <2>3, <2>5 DEF MesmoNumero, EmailsDiferentes, LoginMantido
    <2>8. ClienteTemAcesso'
      BY <1>2, <2>1, <2>4, <2>5 DEF ClienteTemAcesso, MesmoNumero
    <2>9. AutorSemCruzar'
      BY <1>2, <2>1 DEF AutorSemCruzar, AutorEQuemCadastra
    <2>10. RequisicoesInv'
      BY <1>2, Saved
    <2> QED
      BY <2>6, <2>7, <2>8, <2>9, <2>10 DEF CadastroInv, TabelasInv
  <1> QED
    BY <1>1, <1>2 DEF alteraFuncionario

LEMMA EmployeeDeleted ==
  ASSUME CadastroInv, NEW f \in Funcionarios, demite(f)
  PROVE  CadastroInv'
PROOF
  <1> DEFINE id == requisicao[f].id
  <1>1. CASE Desfaz(f)
    BY <1>1, RolledBack
  <1>2. CASE /\ id \in DOMAIN usuarios /\ Conclui(f) /\ Grava(f, "demite")
             /\ usuarios' = Remove(usuarios, {id})
             /\ loginPerdido' = TRUE
             /\ UNCHANGED <<clientes, gravados, username, nomeTrocado>>
    <2>1. /\ TipoTabelas /\ MesmoNumero /\ EmailsDiferentes /\ LoginMantido /\ ClienteTemAcesso /\ AutorSemCruzar
      BY DEF CadastroInv, TabelasInv
    <2>2. id \in Funcionarios
      BY <1>2, RequestType DEF PedidoOK, Grava
    <2>3. \A c \in DOMAIN clientes : c # id
      BY <2>1, <2>2, ConstantesDoCadastro DEF TipoTabelas
    <2> HIDE DEF id
    <2>4. /\ DOMAIN usuarios' = DOMAIN usuarios \ {id}
          /\ \A u \in DOMAIN usuarios' : usuarios'[u] = usuarios[u]
      BY <1>2 DEF Remove
    <2>5. usuarios' \in [DOMAIN usuarios' -> Emails]
      BY <1>2, <2>1, <2>4, RemovedType DEF TipoTabelas
    <2>6. TipoTabelas'
      BY <1>2, <2>1, <2>4, <2>5 DEF TipoTabelas
    <2>7. MesmoNumero' /\ EmailsDiferentes' /\ LoginMantido'
      BY <1>2, <2>1, <2>4 DEF MesmoNumero, EmailsDiferentes, LoginMantido
    <2>8. ClienteTemAcesso'
      BY <1>2, <2>1, <2>3, <2>4 DEF ClienteTemAcesso, MesmoNumero
    <2>9. AutorSemCruzar'
      BY <1>2 DEF AutorSemCruzar
    <2>10. RequisicoesInv'
      BY <1>2, Saved
    <2> QED
      BY <2>6, <2>7, <2>8, <2>9, <2>10 DEF CadastroInv, TabelasInv
  <1> QED
    BY <1>1, <1>2 DEF demite

LEMMA CadastroStart ==
  ASSUME CadastroInit
  PROVE  CadastroInv
PROOF
  <1>1. DOMAIN clientes = {} /\ clientes \in [DOMAIN clientes -> TipoCliente]
    BY DEF CadastroInit
  <1>2. DOMAIN usuarios = Funcionarios /\ usuarios \in [Funcionarios -> Emails]
        /\ \A f \in Funcionarios : usuarios[f] = EmailInicial[f]
    BY ConstantesDoCadastro DEF CadastroInit, Emails
  <1>3. TabelasInv
    BY <1>1, <1>2, ConstantesDoCadastro DEF CadastroInit, TabelasInv, TipoTabelas, MesmoNumero, EmailsDiferentes,
       LoginMantido, ClienteTemAcesso, AutorSemCruzar, AutorEQuemCadastra, Emails
  <1>4. RequisicoesInv
    BY ParadaOK DEF CadastroInit, RequisicoesInv
  <1> QED
    BY <1>3, <1>4 DEF CadastroInv

LEMMA CadastroStep ==
  ASSUME CadastroInv, CadastroNext
  PROVE  CadastroInv'
  BY FormSent, CustomerAsked, UserAsked, NameSet, Persisted, Changed, Deleted,
     EmployeeChanged, EmployeeDeleted DEF CadastroNext

----------------------------------------------------------------------------
(* The server *)

ServidorInv == CadastroInv /\ ConsultaInv /\ NavegacaoInv

LEMMA ServidorCorrect == Spec => []ServidorInv
PROOF
  <1>1. Init => ServidorInv
    <2> SUFFICES ASSUME Init PROVE ServidorInv
      OBVIOUS
    <2>1. CadastroInv
      BY CadastroStart DEF Init
    <2>2. ConsultaInv
      <3>1. 0 \in Contagens
        BY DEF Contagens
      <3> QED
        BY <3>1 DEF Init, ConsultaInit, ConsultaInv, TipoConsulta, TipoPagina, SemPagina,
           JuntasDaPagina, LinhasCompletas, EmConstrucao
    <2>3. NavegacaoInv
      <3>1. pilha \in Seq(Paginas)
        BY DEF Init, NavegacaoInit
      <3> QED
        BY <3>1, ConstantesDaNavegacao DEF Init, NavegacaoInit, NavegacaoInv, TipoNavegacao, TipoAba,
           VoltaPeloCaminho
    <2> QED
      BY <2>1, <2>2, <2>3 DEF ServidorInv
  <1>2. ServidorInv /\ [Next]_vars => ServidorInv'
    <2> SUFFICES ASSUME ServidorInv, [Next]_vars PROVE ServidorInv'
      OBVIOUS
    <2>1. CadastroInv /\ UNCHANGED cadastroVars => CadastroInv'
      BY DEF CadastroInv, cadastroVars, TabelasInv, TipoTabelas, MesmoNumero, EmailsDiferentes,
         LoginMantido, ClienteTemAcesso, AutorSemCruzar, AutorEQuemCadastra, RequisicoesInv, PedidoOK,
         RespostaAtual, NomeDe, UsuariosCom, ClientesCom
    <2>2. ConsultaInv /\ UNCHANGED consultaVars => ConsultaInv'
      BY DEF ConsultaInv, consultaVars, TipoConsulta, JuntasDaPagina, LinhasCompletas
    <2>3. NavegacaoInv /\ UNCHANGED navegacaoVars => NavegacaoInv'
      BY DEF NavegacaoInv, navegacaoVars, TipoNavegacao, VoltaPeloCaminho, Pagina
    <2>4. CASE Next
      BY <2>1, <2>2, <2>3, <2>4, CadastroStep, ConsultaStep, NavegacaoStep DEF Next, ServidorInv
    <2>5. CASE UNCHANGED vars
      BY <2>1, <2>2, <2>3, <2>5 DEF vars, ServidorInv
    <2> QED
      BY <2>4, <2>5
  <1> QED
    BY <1>1, <1>2, PTL DEF Spec

\* Every customer keeps a user of its own with its e-mail, and every user but
\* the employees has its customer, whatever requests cross.
THEOREM CustomersHaveUsers == Spec => []ClienteTemAcesso
PROOF
  <1>1. ServidorInv => ClienteTemAcesso
    BY DEF ServidorInv, CadastroInv, TabelasInv
  <1> QED
    BY <1>1, ServidorCorrect, PTL

\* What the controller has asked is enough: the database refuses no request
\* that nobody else's came in between of.
THEOREM QuestionsSuffice == Spec => []VerificacaoBasta
PROOF
  <1>1. ServidorInv => VerificacaoBasta
    BY EnoughAsked DEF ServidorInv
  <1> QED
    BY <1>1, ServidorCorrect, PTL

\* The author of a customer is whoever stored it, unless requests met at the
\* one field of the service or an employee has lost the e-mail of the login.
THEOREM AuthorUnlessCrossed == Spec => []AutorSemCruzar
PROOF
  <1>1. ServidorInv => AutorSemCruzar
    BY DEF ServidorInv, CadastroInv, TabelasInv
  <1> QED
    BY <1>1, ServidorCorrect, PTL

\* A page of orders that no other was built during is complete.
THEOREM PagesComplete == Spec => []PaginaCompleta
PROOF
  <1>1. ServidorInv => PaginaCompleta
    BY ConsultaSafe DEF ServidorInv
  <1> QED
    BY <1>1, ServidorCorrect, PTL

\* One tab alone goes back the way it came.
THEOREM BackTheSameWay == Spec => []VoltaPeloCaminho
PROOF
  <1>1. ServidorInv => VoltaPeloCaminho
    BY DEF ServidorInv, NavegacaoInv
  <1> QED
    BY <1>1, ServidorCorrect, PTL

=============================================================================
