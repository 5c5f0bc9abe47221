----------------------------- MODULE Relatorio -----------------------------
(***************************************************************************)
(* The list page with its modal `Intervalo entre as páginas`: which pages  *)
(* of the table go into the report.  The slider's two handles choose them, *)
(* and its limit is the number of pages of the table there was when the    *)
(* modal was opened.                                                       *)
(***************************************************************************)
EXTENDS ListaPagina, Slider

VARIABLES
  aberto,      \* the modal is open
  recarregada  \* history: the table was replaced since the modal was opened

relatorioVars == <<aberto, recarregada>>
vars == <<listaVars, sliderVars, relatorioVars>>

Opcoes == {"todas", "selecionada", "atual"}

\* Mutant: a full last page is counted twice.
TotalDePaginasMaisUma ==
  IF tabela = Vazia THEN NaN ELSE tabela.count \div MAX_RESULTS + 1

\* getTotalPages: no count, no number.
TotalDePaginas == IF tabela = Vazia THEN NaN ELSE getTotalPages(tabela.count)

\* setIntervalos: page 1 to page 1 of those of the table; atualizaIntervalos
\* chooses the option `selecionada`.
setIntervalos ==
  /\ Reinicia(1, TotalDePaginas)
  /\ atualizaIntervalos([i \in Alcas |-> 1])

AbreRelatorio ==
  /\ Clicavel /\ ~aberto /\ ~arrastando
  /\ setIntervalos
  /\ aberto' = TRUE
  /\ recarregada' = FALSE
  /\ UNCHANGED listaVars

\* The handles are reached in the open modal; a drag or a key that began there
\* goes on when it is closed.  Nothing else is clicked during a drag.
Desliza ==
  /\ (aberto /\ NoSlider) \/ NoDocumento
  /\ UNCHANGED <<listaVars, relatorioVars>>

Escolhe(opcao) ==
  /\ aberto /\ ~arrastando
  /\ formulario' = [formulario EXCEPT !.pagina = opcao]
  /\ UNCHANGED <<values, min, max, keySliding, mouseSliding, arrastando,
                 handleIndex, lastChangedValue, foco>>
  /\ UNCHANGED <<listaVars, relatorioVars>>

\* Products and differences with NaN, or without the hidden inputs, are NaN.
getPageFirst ==
  IF tabela = Vazia \/ NaN \in {Valor(0)} THEN NaN ELSE (Valor(0) - 1) * MAX_RESULTS

getPageSize ==
  IF tabela = Vazia \/ NaN \in {Valor(0), Valor(1)} THEN NaN
  ELSE (Valor(1) - Valor(0) + 1) * MAX_RESULTS

\* The rows, the order and the search a report is asked for.
Pedido ==
  [primeira |-> CASE formulario.pagina = "todas" -> 0
                  [] formulario.pagina = "selecionada" -> getPageFirst
                  [] formulario.pagina = "atual" -> IF tabela = Vazia THEN NaN ELSE tabela.offset,
   tamanho |-> CASE formulario.pagina = "todas" -> Nada
                 [] formulario.pagina = "selecionada" -> getPageSize
                 [] formulario.pagina = "atual" -> IF tabela = Vazia THEN NaN ELSE MAX_RESULTS,
   ordem |-> IF tabela = Vazia THEN Nada ELSE tabela.ordem,
   query |-> BuscaAtual]

Fecha ==
  /\ aberto' = FALSE
  /\ foco' = Nenhuma
  /\ UNCHANGED <<values, min, max, keySliding, mouseSliding, arrastando,
                 handleIndex, lastChangedValue, formulario>>

\* The button that asks for the report, which opens in another window; the
\* modal is closed by it as by the other buttons and the key Escape.
Gera ==
  /\ aberto
  /\ Fecha
  /\ UNCHANGED <<listaVars, recarregada>>

Lista ==
  /\ Ajax \/ (~aberto /\ ~arrastando /\ Usuario)
  /\ recarregada' = (recarregada \/ tabela' # tabela)
  /\ UNCHANGED <<sliderVars, aberto>>

Init ==
  /\ ListaInit /\ SliderInit
  /\ aberto = FALSE /\ recarregada = FALSE

Next ==
  \/ Lista \/ AbreRelatorio \/ Desliza
  \/ \E opcao \in Opcoes : Escolhe(opcao)
  \/ Gera

Spec == Init /\ [][Next]_vars

\* Requests are answered, and the browser ends its transitions.
Justica == WF_vars(Lista /\ Atende) /\ WF_vars(Lista /\ hideModal)

FairSpec == Spec /\ Justica

----------------------------------------------------------------------------
(* Properties *)

\* Whoever deletes the last row of the last page sees the page before it: the
\* table shown is not empty, unless requests crossed or an answer was lost.
PaginaComLinhas ==
  tabela # Vazia /\ ~cruzada /\ ~perdida => tabela.linhas # {}

\* No backdrop is left over the page once every request is complete and every
\* modal has disappeared, unless Carregando was shown again while it was.
PaginaLivre ==
  consultas = {} /\ exclusoes = {} /\ ~sumindo /\ ~reaberta /\ ~quebrada
    => fundos = 0 /\ ~isShown

\* In the open modal the handles are in order and within the pages, and the
\* text says where they are, however keys and mouse move them at once.  A
\* modal opened without a table has no pages.
IntervaloConfere ==
  aberto =>
    /\ formulario.intervalo = Valores
    /\ max # NaN => 1 <= Valor(0) /\ Valor(0) <= Valor(1) /\ Valor(1) <= max

\* The report that can be asked for is of rows of the table the page shows,
\* unless the table was replaced after the modal was opened, or there is none.
RelatorioDaTabela ==
  aberto /\ ~recarregada /\ tabela # Vazia =>
    /\ Pedido.primeira < tabela.count \/ formulario.pagina = "atual"
    /\ formulario.pagina = "selecionada" =>
         Pedido.primeira + Pedido.tamanho <= MAX_RESULTS * getTotalPages(tabela.count)

\* Carregando does not stay: every request is complete in the end, unless the
\* handler of one has failed.
CargaTermina == isShown ~> (~isShown \/ quebrada)

=============================================================================
