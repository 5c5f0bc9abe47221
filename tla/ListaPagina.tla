---------------------------- MODULE ListaPagina ----------------------------
(***************************************************************************)
(* The page that lists products, orders, companies, ...: the table the     *)
(* server renders, the script that asks for another page, order or search, *)
(* the modal that confirms a deletion, and the modal `Carregando` that     *)
(* covers the page during a request.                                       *)
(*                                                                         *)
(* The hidden inputs dataTable_* are part of the table: a table without    *)
(* rows is not rendered, nor are they.  A request is answered from the     *)
(* rows of one moment, and its answer is handled at a later one.           *)
(*                                                                         *)
(* Bootstrap hides a modal in 300 ms: one that is shown again meanwhile    *)
(* gets a second backdrop, and only the last one is ever removed.  Rows    *)
(* are numbers, one column sorts them up or down, and a search finds those *)
(* of a set.  Left out: the messages, and the requests of other users.     *)
(***************************************************************************)
EXTENDS Integers, FiniteSets

CONSTANTS
  Linhas,        \* the rows of the database at first
  Acha,          \* [texts to search -> the rows found], Tudo among them
  Tudo,          \* the empty search
  MAX_RESULTS,   \* rows of a page
  Vazia,         \* there is no table: the server found no row
  Nada,          \* undefined
  MaxPedidos     \* bound: requests of the user and what follows from them

Buscas == DOMAIN Acha

\* Whatever table the server may render.
Tabelas ==
  [offset : Nat, ordem : {"sorting_asc", "sorting_desc"}, query : Buscas, count : Nat,
   linhas : SUBSET Linhas]

\* A page has more rows than one: the script takes the remainder 1 for a last
\* page of one row, and there would be none.
ASSUME ConstantesDaLista ==
  /\ Linhas \subseteq Nat /\ IsFiniteSet(Linhas)
  /\ Tudo \in Buscas /\ Acha[Tudo] = Linhas
  /\ \A q \in Buscas : Acha[q] \subseteq Linhas
  /\ MAX_RESULTS \in Nat \ {0, 1} /\ MaxPedidos \in Nat
  /\ Vazia \notin Tabelas /\ Nada \notin Nat \cup Tabelas \cup {Vazia, "excluida", "erro"}

VARIABLES
  banco,       \* the rows of the database
  tabela,      \* what the page shows: a table or Vazia
  consultas,   \* questions for a table whose answer has not been handled
  enviadas,    \* requests sent so far
  excluir,     \* the row the modal asks about, or Nada
  exclusoes,   \* deletions whose answer has not been handled
  isShown,     \* the modal Carregando is shown, or appearing
  sumindo,     \* it is disappearing, for 300 ms
  fundos,      \* the backdrops of Carregando in the page
  cruzada,     \* history: a request was sent while another was in flight
  reaberta,    \* history: Carregando was shown again while disappearing
  perdida,     \* history: an answer was lost, or no table
  quebrada     \* history: a handler failed before it said `complete`

pedidosVars == <<consultas, exclusoes, enviadas>>
cargaVars == <<isShown, sumindo, fundos, reaberta>>
historia == <<cruzada, perdida, quebrada>>
listaVars == <<banco, tabela, consultas, exclusoes, enviadas, excluir, isShown,
               sumindo, fundos, reaberta, cruzada, perdida, quebrada>>

----------------------------------------------------------------------------
(* Server *)

\* The rows before which a row stands in an order.
Antes(ordem, i, j) == IF ordem = "sorting_asc" THEN i < j ELSE i > j

\* search: the rows from `offset` on, at most a page of them.
PaginaDe(linhas, ordem, offset) ==
  {i \in linhas :
     LET posicao == Cardinality({j \in linhas : Antes(ordem, j, i)})
     IN  offset <= posicao /\ posicao < offset + MAX_RESULTS}

\* list and list.jsp: the rows, and the inputs the next question starts from.
list(c) ==
  LET achadas == banco \cap Acha[c.query] IN
  IF achadas = {} THEN Vazia
  ELSE [offset |-> c.offset, ordem |-> c.ordem, query |-> c.query,
        count |-> Cardinality(achadas),
        linhas |-> PaginaDe(achadas, c.ordem, c.offset)]

getTotalPages(count) ==
  count \div MAX_RESULTS + (IF count % MAX_RESULTS > 0 THEN 1 ELSE 0)

\* PaginationTaglib: the pages, the previous and the next one; a link that is
\* disabled or active leads nowhere, which the script takes for offset 0.
Links(t) ==
  {0} \cup {MAX_RESULTS * p : p \in 0..(getTotalPages(t.count) - 1)}
      \cup {o \in {t.offset - MAX_RESULTS} : t.offset >= MAX_RESULTS}
      \cup {o \in {t.offset + MAX_RESULTS} : o < t.count}

----------------------------------------------------------------------------
(* The modal Carregando *)

\* ajaxSend: a modal that is shown stays so; else it gets a backdrop.
loadingShow ==
  /\ isShown' = TRUE
  /\ fundos' = IF isShown THEN fundos ELSE fundos + 1
  /\ reaberta' = (reaberta \/ (~isShown /\ sumindo))
  /\ UNCHANGED sumindo

\* ajaxComplete, of any request.
loadingHide ==
  /\ isShown' = FALSE
  /\ sumindo' = (sumindo \/ isShown)
  /\ UNCHANGED <<fundos, reaberta>>

\* Mutant: the backdrop stays.
hideModalSemFundo ==
  /\ sumindo
  /\ sumindo' = FALSE
  /\ UNCHANGED <<isShown, fundos, reaberta>>
  /\ UNCHANGED <<banco, tabela, pedidosVars, excluir, historia>>

\* hideModal, after 300 ms, and the 150 ms a backdrop takes: the last one goes,
\* unless the modal has been shown again; then it gets one more.
hideModal ==
  /\ sumindo
  /\ sumindo' = FALSE
  /\ fundos' = IF isShown THEN fundos + 1 ELSE fundos - 1
  /\ UNCHANGED <<isShown, reaberta>>
  /\ UNCHANGED <<banco, tabela, pedidosVars, excluir, historia>>

\* A backdrop takes every click; the modal of a deletion has one too.
Clicavel == fundos = 0 /\ excluir = Nada

----------------------------------------------------------------------------
(* Requests *)

EmVoo == consultas # {} \/ exclusoes # {}

\* The user makes another request.
Envia == enviadas < MaxPedidos /\ enviadas' = enviadas + 1

Cruza == cruzada' = (cruzada \/ EmVoo)

\* Mutant: the page left is that of the table.
OffsetSemRecuo(removida) == IF tabela = Vazia THEN 0 ELSE tabela.offset

\* loadTable without offset: that of the table, less a page if the row just
\* removed was the only one of a last page.
OffsetAtual(removida) ==
  IF tabela = Vazia THEN 0
  ELSE IF removida /\ tabela.offset > 0 /\ tabela.count % MAX_RESULTS = 1
       THEN tabela.offset - MAX_RESULTS
       ELSE tabela.offset

OrdemAtual == IF tabela = Vazia THEN "sorting_desc" ELSE tabela.ordem
BuscaAtual == IF tabela = Vazia THEN Tudo ELSE tabela.query

Consulta(n, offset, ordem, query) ==
  [indice |-> n, offset |-> offset, ordem |-> ordem, query |-> query,
   resposta |-> Nada]

\* loadTable: ask for a table.
loadTable(offset, ordem, query) ==
  /\ Envia
  /\ consultas' = consultas \cup {Consulta(enviadas + 1, offset, ordem, query)}
  /\ loadingShow
  /\ Cruza
  /\ UNCHANGED <<banco, tabela, exclusoes, excluir, perdida, quebrada>>

\* The button of the search keeps the focus, and answers to the key Enter
\* until Carregando has taken the focus.
Procura(query) == excluir = Nada /\ loadTable(0, OrdemAtual, query)

Pagina(offset) ==
  /\ Clicavel /\ tabela # Vazia
  /\ offset \in Links(tabela)
  /\ loadTable(offset, OrdemAtual, BuscaAtual)

Ordena ==
  /\ Clicavel /\ tabela # Vazia
  /\ loadTable(OffsetAtual(FALSE),
               IF tabela.ordem = "sorting_desc" THEN "sorting_asc" ELSE "sorting_desc",
               BuscaAtual)

\* The server looks the rows up.
Responde(c) ==
  /\ c.resposta = Nada
  /\ consultas' = (consultas \ {c}) \cup {[c EXCEPT !.resposta = list(c)]}
  /\ UNCHANGED <<banco, tabela, exclusoes, enviadas, excluir, cargaVars, historia>>

\* The answer replaces the table, whatever has been asked since.
Mostra(c) ==
  /\ c.resposta # Nada
  /\ tabela' = c.resposta
  /\ consultas' = consultas \ {c}
  /\ loadingHide
  /\ UNCHANGED <<banco, exclusoes, enviadas, excluir, historia>>

\* No answer, or an error: the table stays.
SemTabela(c) ==
  /\ consultas' = consultas \ {c}
  /\ loadingHide
  /\ perdida' = TRUE
  /\ UNCHANGED <<banco, tabela, exclusoes, enviadas, excluir, cruzada, quebrada>>

----------------------------------------------------------------------------
(* Deletion *)

AbreExclusao(i) ==
  /\ Clicavel /\ tabela # Vazia
  /\ i \in tabela.linhas
  /\ excluir' = i
  /\ UNCHANGED <<banco, tabela, pedidosVars, cargaVars, historia>>

Cancela ==
  /\ excluir # Nada /\ fundos = 0
  /\ excluir' = Nada
  /\ UNCHANGED <<banco, tabela, pedidosVars, cargaVars, historia>>

\* The modal stays open until the answer.
Confirma ==
  /\ excluir # Nada /\ fundos = 0
  /\ Envia
  /\ exclusoes' = exclusoes \cup
       {[indice |-> enviadas + 1, id |-> excluir, resposta |-> Nada]}
  /\ loadingShow
  /\ Cruza
  /\ UNCHANGED <<banco, tabela, consultas, excluir, perdida, quebrada>>

\* destroy: a row that is gone, or that others refer to, is an error.
Destroi(d) ==
  /\ d.resposta = Nada
  /\ \/ /\ d.id \in banco
        /\ banco' = banco \ {d.id}
        /\ exclusoes' = (exclusoes \ {d}) \cup {[d EXCEPT !.resposta = "excluida"]}
     \/ /\ exclusoes' = (exclusoes \ {d}) \cup {[d EXCEPT !.resposta = "erro"]}
        /\ UNCHANGED banco
  /\ UNCHANGED <<tabela, consultas, enviadas, excluir, cargaVars, historia>>

\* success asks for the table, which shows Carregando if it is not; complete
\* hides whatever deletion the modal asks about; then Carregando goes, although
\* the question for the table is in flight.
Excluida(d) ==
  /\ d.resposta = "excluida"
  /\ exclusoes' = exclusoes \ {d}
  /\ excluir' = Nada
  /\ enviadas' = enviadas + 1
  /\ consultas' = consultas \cup
       {Consulta(enviadas + 1, OffsetAtual(TRUE), OrdemAtual, BuscaAtual)}
  /\ isShown' = FALSE
  /\ sumindo' = TRUE
  /\ fundos' = IF isShown THEN fundos ELSE fundos + 1
  /\ reaberta' = (reaberta \/ (~isShown /\ sumindo))
  /\ cruzada' = (cruzada \/ consultas # {} \/ exclusoes # {d})
  /\ UNCHANGED <<banco, tabela, perdida, quebrada>>

\* Mutant: an error does not complete the request.
NaoExcluidaIncompleta(d) ==
  /\ d.resposta = "erro"
  /\ exclusoes' = exclusoes \ {d}
  /\ UNCHANGED <<banco, tabela, consultas, enviadas, excluir, cargaVars, historia>>

NaoExcluida(d) ==
  /\ d.resposta = "erro"
  /\ exclusoes' = exclusoes \ {d}
  /\ excluir' = Nada
  /\ loadingHide
  /\ UNCHANGED <<banco, tabela, consultas, enviadas, historia>>

\* An error that is no JSON, or no answer at all: reading its message fails, and
\* neither this request nor the page is told that it is complete.
SemJSON(d) ==
  /\ exclusoes' = exclusoes \ {d}
  /\ perdida' = TRUE
  /\ quebrada' = TRUE
  /\ UNCHANGED <<banco, tabela, consultas, enviadas, excluir, cargaVars, cruzada>>

----------------------------------------------------------------------------

ListaInit ==
  /\ banco = Linhas
  /\ tabela = list([offset |-> 0, ordem |-> "sorting_desc", query |-> Tudo])
  /\ consultas = {} /\ exclusoes = {} /\ enviadas = 0
  /\ excluir = Nada
  /\ isShown = FALSE /\ sumindo = FALSE /\ fundos = 0 /\ reaberta = FALSE
  /\ cruzada = FALSE /\ perdida = FALSE /\ quebrada = FALSE

Usuario ==
  \/ \E q \in Buscas : Procura(q)
  \/ \E p \in 0..Cardinality(Linhas) : Pagina(MAX_RESULTS * p)
  \/ Ordena
  \/ \E i \in Linhas : AbreExclusao(i)
  \/ Cancela \/ Confirma

\* The server, and what the page does with its answers.
Atende ==
  \/ \E c \in consultas : Responde(c) \/ Mostra(c)
  \/ \E d \in exclusoes : Destroi(d) \/ Excluida(d) \/ NaoExcluida(d)

Ajax ==
  \/ Atende
  \/ \E c \in consultas : SemTabela(c)
  \/ \E d \in exclusoes : SemJSON(d)
  \/ hideModal

=============================================================================
