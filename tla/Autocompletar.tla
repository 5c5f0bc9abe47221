--------------------------- MODULE Autocompletar ---------------------------
(***************************************************************************)
(* The field of the order form that suggests customers while one types:    *)
(* the autocomplete widget of jQuery UI on the input `cliente`, the hidden *)
(* input `cliente_id` that the server reads, and the select `tipoCliente`  *)
(* that decides whether people or companies are suggested.                 *)
(*                                                                         *)
(* The page's script runs one handler at a time; between two of them the   *)
(* user acts, a timer fires or an answer of the server arrives.  Several   *)
(* questions may be in flight, are answered in any order, and some fail.   *)
(* A delay of 0 ms runs before the next act of the user, but not           *)
(* necessarily before an answer or another timer.                          *)
(*                                                                         *)
(* The suggestions form a menu without submenus, of which this module has  *)
(* the part the field uses.  Left out: the event `change`, which no form   *)
(* of the application listens to, the text read aloud, and positions.      *)
(***************************************************************************)
EXTENDS Integers, Sequences, FiniteSets

CONSTANTS
  Tipos,          \* PESSOA_FISICA, PESSOA_JURIDICA: options of tipoCliente
  Sugestoes,      \* [Tipos -> set of items]; an item has an id and its label
  Termos,         \* non-empty texts a user types that are no item's label
  Vazio,          \* the empty text
  Nada,           \* undefined, and the empty hidden field
  RatoParado,     \* may the list open under a mouse at rest?
  MaxItens,       \* bound: items of one answer
  MaxPedidos,     \* bound: questions sent to the server
  MaxFalhas       \* bound: questions that are never answered

Itens == UNION {Sugestoes[tp] : tp \in Tipos}

Textos == Termos \cup Itens \cup {Vazio}

ASSUME ConstantesOK ==
  /\ DOMAIN Sugestoes = Tipos
  /\ \A tp, tq \in Tipos : tp # tq => Sugestoes[tp] \cap Sugestoes[tq] = {}
  /\ Vazio \notin Termos \cup Itens
  /\ Nada \notin Textos \cup Tipos
  /\ RatoParado \in BOOLEAN
  /\ MaxItens \in Nat /\ MaxPedidos \in Nat /\ MaxFalhas \in Nat

VARIABLES
  tipo,          \* the option selected in tipoCliente
  texto,         \* the value of the input
  id,            \* the value of the hidden input
  foco,          \* the input has the focus
  atraso,        \* the 0 ms delay set by a mousedown in the menu is pending
  searching,     \* the search timer: is it armed, by a key with a modifier?
  term,          \* the text of the last search
  requestIndex,  \* questions sent so far
  pending,       \* questions the widget believes unanswered
  emVoo,         \* questions whose answer has not been handled
  cancelSearch,  \* the field was closed after the last question
  menu,          \* the items of the list, also while it is hidden
  visivel,       \* the list is shown
  ativo,         \* position of the active item, 0: none, Fora: not in the list
  isNewMenu,     \* no item has been active since the list was shown
  remexe,        \* the item to be entered again when the mouse moves, likewise
  recolhe,       \* the timer that ends with no active item is armed
  falhas         \* history: questions that will never be answered

formVars == <<tipo, texto, id>>
focoVars == <<foco, atraso>>
buscaVars == <<searching, term, requestIndex, pending, emVoo, cancelSearch, falhas>>
menuVars == <<menu, visivel, ativo, isNewMenu, remexe, recolhe>>
vars == <<tipo, texto, id, foco, atraso, searching, term, requestIndex, pending,
          emVoo, cancelSearch, menu, visivel, ativo, isNewMenu, remexe, recolhe,
          falhas>>

\* An item that was in the list before it was rendered again.
Fora == -1

Timer == {"parado", "armado", "comModificador"}

\* A question: its index, the type it was asked for and the text.
Perguntas == [indice : Nat, tipo : Tipos, termo : Textos]

\* The answer is a JSON object: no id comes twice.
Respostas(tp) ==
  {s \in UNION {[1..n -> Sugestoes[tp]] : n \in 0..MaxItens} :
     \A i, j \in DOMAIN s : s[i] = s[j] => i = j}

----------------------------------------------------------------------------
(* The list *)

\* menu.blur: no item is active, and the timer of the menu is cancelled.
blur == /\ ativo' = 0
        /\ recolhe' = FALSE

\* _close: hide the list.
_close ==
  IF visivel
  THEN /\ visivel' = FALSE
       /\ isNewMenu' = TRUE
       /\ blur
       /\ UNCHANGED <<menu, remexe>>
  ELSE UNCHANGED menuVars

\* Mutant: a question in flight is not cancelled.
closeSemCancelar ==
  /\ UNCHANGED cancelSearch
  /\ _close

\* close: hide the list and let no answer open it again.
close ==
  /\ cancelSearch' = TRUE
  /\ _close

\* Mutant: the menu is not refreshed, its active item is not forgotten.
_suggestSemRefresh(itens) ==
  /\ menu' = itens
  /\ visivel' = TRUE
  /\ isNewMenu' = TRUE
  /\ UNCHANGED <<ativo, recolhe, remexe>>

\* menu.refresh: the old items have left the page; if one of them was active
\* the menu is blurred.
refresh == /\ ativo' = 0
           /\ recolhe' = (recolhe /\ ativo = 0)

\* _suggest: the list is rendered again and shown.
_suggest(itens) ==
  /\ menu' = itens
  /\ visivel' = TRUE
  /\ refresh
  /\ isNewMenu' = TRUE
  /\ remexe' = IF remexe = 0 THEN 0 ELSE Fora

\* A key makes item i active and writes its label into the input.
focusPorTecla(i) ==
  /\ ativo' = i
  /\ recolhe' = FALSE
  /\ isNewMenu' = FALSE
  /\ texto' = menu[i]
  /\ UNCHANGED <<menu, visivel, remexe>>

\* The event mouseenter of item i.  If no item has been active since the list
\* was shown, none becomes so: the item waits for the mouse to move.
focusPorMouse(i) ==
  /\ ativo' = IF isNewMenu THEN 0 ELSE i
  /\ isNewMenu' = FALSE
  /\ recolhe' = FALSE
  /\ UNCHANGED <<menu, visivel>>

----------------------------------------------------------------------------
(* Questions and answers *)

\* _search: another question, about the type selected now.
_search ==
  /\ pending' = pending + 1
  /\ cancelSearch' = FALSE
  /\ requestIndex' = requestIndex + 1
  /\ emVoo' = emVoo \cup
       {[indice |-> requestIndex + 1, tipo |-> tipo, termo |-> texto]}
  /\ UNCHANGED menuVars

search ==
  /\ term' = texto
  /\ UNCHANGED falhas
  /\ \/ /\ texto = Vazio
        /\ close
        /\ UNCHANGED <<pending, requestIndex, emVoo>>
     \/ /\ texto # Vazio
        /\ _search

\* Mutant: no search while the list is shown.
ProcuraSeOculta ==
  /\ searching # "parado"
  /\ searching' = "parado"
  /\ \/ ~visivel /\ search
     \/ visivel /\ UNCHANGED <<term, requestIndex, pending, emVoo, cancelSearch,
                               falhas, menuVars>>
  /\ UNCHANGED <<formVars, focoVars>>

\* The search timer fires.
Procura ==
  /\ searching # "parado"
  /\ searching' = "parado"
  /\ \/ /\ term # texto \/ (~visivel /\ searching = "armado")
        /\ search
     \/ /\ term = texto /\ (visivel \/ searching = "comModificador")
        /\ UNCHANGED <<term, requestIndex, pending, emVoo, cancelSearch, falhas,
                       menuVars>>
  /\ UNCHANGED <<formVars, focoVars>>

\* Mutant: every answer is shown, also one that was overtaken.
RecebeQualquer(p) ==
  /\ emVoo' = emVoo \ {p}
  /\ pending' = pending - 1
  /\ \E itens \in Respostas(p.tipo) :
       \/ itens # <<>> /\ ~cancelSearch /\ _suggest(itens)
       \/ (itens = <<>> \/ cancelSearch) /\ _close
  /\ UNCHANGED <<formVars, focoVars, searching, term, requestIndex, cancelSearch,
                 falhas>>

\* Mutant: an answer that was overtaken is not counted.
RecebeSoUltima(p) ==
  /\ emVoo' = emVoo \ {p}
  /\ pending' = IF p.indice = requestIndex THEN pending - 1 ELSE pending
  /\ UNCHANGED <<formVars, focoVars, menuVars, searching, term, requestIndex,
                 cancelSearch, falhas>>

\* The handler of _response: only the answer to the last question is shown.
Recebe(p) ==
  /\ emVoo' = emVoo \ {p}
  /\ pending' = pending - 1
  /\ \E itens \in Respostas(p.tipo) :
       \/ /\ p.indice = requestIndex /\ itens # <<>> /\ ~cancelSearch
          /\ _suggest(itens)
       \/ /\ p.indice = requestIndex /\ (itens = <<>> \/ cancelSearch)
          /\ _close
       \/ /\ p.indice # requestIndex
          /\ UNCHANGED menuVars
  /\ UNCHANGED <<formVars, focoVars, searching, term, requestIndex, cancelSearch,
                 falhas>>

\* $.getJSON fails: the form has no handler for it and response is not called.
Falha(p) ==
  /\ falhas < MaxFalhas
  /\ falhas' = falhas + 1
  /\ emVoo' = emVoo \ {p}
  /\ UNCHANGED <<formVars, focoVars, menuVars, searching, term, requestIndex,
                 pending, cancelSearch>>

----------------------------------------------------------------------------
(* The user in the field *)

\* Room for one more question, besides the one the timer will ask.
Cabe == requestIndex + 1 < MaxPedidos

\* Typing, erasing, pasting: the event `input` comes last and has no modifier.
Digita ==
  /\ foco /\ ~atraso /\ Cabe
  /\ texto' \in (Termos \cup {Vazio}) \ {texto}
  /\ searching' = "armado"
  /\ UNCHANGED <<tipo, id, focoVars, menuVars, term, requestIndex, pending, emVoo,
                 cancelSearch, falhas>>

\* A key that changes nothing, alone or with Alt, Ctrl, Meta or Shift.
Tecla ==
  /\ foco /\ ~atraso /\ Cabe
  /\ searching' \in {"armado", "comModificador"}
  /\ UNCHANGED <<formVars, focoVars, menuVars, term, requestIndex, pending, emVoo,
                 cancelSearch, falhas>>

\* Items an arrow or page key may lead to, 0: back to the typed text.  A page
\* is as long as the list shows.  An item that is not in the list is alone: the
\* first one and the last one.
Destinos(tecla) ==
  LET n == Len(menu)
      primeiro == ativo \in {1, Fora}
      ultimo == ativo \in {n, Fora}
  IN {i \in 0..n :
        \/ ativo = 0 /\ i = (IF tecla = "previous" THEN n ELSE 1)
        \/ ativo # 0 /\ tecla = "next" /\ i = (IF ultimo THEN 0 ELSE ativo + 1)
        \/ ativo # 0 /\ tecla = "previous" /\ i = (IF primeiro THEN 0 ELSE ativo - 1)
        \/ ativo # 0 /\ tecla = "nextPage" /\ (IF ultimo THEN i = 0 ELSE i > ativo)
        \/ ativo # 0 /\ tecla = "previousPage"
             /\ (IF primeiro THEN i = 0 ELSE i > 0 /\ i < ativo)}

\* _move: with no list shown the key asks for one.
Move(tecla) ==
  /\ foco /\ ~atraso
  /\ \/ /\ ~visivel /\ Cabe
        /\ search
        /\ UNCHANGED <<texto, searching>>
     \/ /\ visivel
        /\ \E i \in Destinos(tecla) :
             \/ i > 0 /\ focusPorTecla(i)
             \/ i = 0 /\ blur /\ texto' = term
                /\ UNCHANGED <<menu, visivel, isNewMenu, remexe>>
        /\ UNCHANGED buscaVars
  /\ UNCHANGED <<tipo, id, focoVars>>

\* menu.select and menuselect: the callback of the form takes the id, the
\* input the label.  The timer of collapseAll is cancelled with the list.
Seleciona(i) ==
  /\ id' = menu[i]
  /\ texto' = menu[i]
  /\ term' = menu[i]
  /\ cancelSearch' = TRUE
  /\ \/ visivel /\ _close
     \/ ~visivel /\ recolhe' = TRUE
        /\ UNCHANGED <<menu, visivel, ativo, isNewMenu, remexe>>
  /\ UNCHANGED <<tipo, focoVars, searching, requestIndex, pending, emVoo, falhas>>

\* The data of an item that left the list is gone: the callback of the form
\* throws, after collapseAll has armed its timer.
SelecaoFalha ==
  /\ recolhe' = TRUE
  /\ UNCHANGED <<formVars, focoVars, buscaVars, menu, visivel, ativo, isNewMenu, remexe>>

\* Enter or Tab while an item is active.
Enter ==
  /\ foco /\ ~atraso
  /\ \/ ativo > 0 /\ Seleciona(ativo)
     \/ ativo = Fora /\ SelecaoFalha

\* Escape gives the typed text back.
Escape ==
  /\ foco /\ ~atraso /\ visivel
  /\ texto' = term
  /\ close
  /\ UNCHANGED <<tipo, id, focoVars, searching, term, requestIndex, pending, emVoo,
                 falhas>>

----------------------------------------------------------------------------
(* The mouse and the focus *)

\* The mouse moves into item i: the event mouseenter, and if the item has to
\* wait for a mousemove, that comes next.
MouseEnter(i) ==
  /\ visivel /\ (isNewMenu => remexe = 0)
  /\ ativo' = i
  /\ isNewMenu' = FALSE
  /\ recolhe' = FALSE
  /\ UNCHANGED <<formVars, focoVars, buscaVars, menu, visivel, remexe>>

\* The list opens under a mouse at rest, and the browser sends mouseenter.
\* At most one item waits for the mouse to move: a bound.
MouseEnterParado(i) ==
  /\ RatoParado /\ visivel /\ isNewMenu /\ remexe = 0
  /\ focusPorMouse(i)
  /\ remexe' = i
  /\ UNCHANGED <<formVars, focoVars, buscaVars>>

\* document.one("mousemove"): the item that waits is entered again, be it in
\* the list or not, and be the list shown or not.
MouseMove ==
  /\ remexe # 0
  /\ focusPorMouse(remexe)
  /\ remexe' = IF isNewMenu THEN remexe ELSE 0
  /\ UNCHANGED <<formVars, focoVars, buscaVars>>

\* collapseAll, and its timer.
MouseLeave ==
  /\ visivel
  /\ recolhe' = TRUE
  /\ UNCHANGED <<formVars, focoVars, buscaVars, menu, visivel, ativo, isNewMenu, remexe>>

Recolhe ==
  /\ recolhe
  /\ blur
  /\ UNCHANGED <<formVars, focoVars, buscaVars, menu, visivel, isNewMenu, remexe>>

\* The focus stays in the input, or (Internet Explorer) goes to the menu and
\* comes back with the delay; the event blur is then ignored (cancelBlur).
MouseDown ==
  /\ visivel /\ foco /\ ~atraso
  /\ foco' \in BOOLEAN
  /\ atraso' = TRUE
  /\ UNCHANGED <<formVars, buscaVars, menuVars>>

DepoisDoMouseDown ==
  /\ atraso
  /\ atraso' = FALSE
  /\ foco' = TRUE
  /\ UNCHANGED <<formVars, buscaVars, menuVars>>

\* A click selects the active item, and the clicked one only if none is.
Click(i) ==
  /\ visivel /\ foco /\ ~atraso
  /\ isNewMenu => RatoParado
  /\ \/ ativo >= 0 /\ Seleciona(IF ativo # 0 THEN ativo ELSE i)
     \/ ativo = Fora /\ SelecaoFalha

\* _closeOnClickOutside: the handler is there while the list is shown.
ClickFora ==
  /\ visivel /\ ~atraso
  /\ close
  /\ UNCHANGED <<formVars, focoVars, searching, term, requestIndex, pending, emVoo,
                 falhas>>

\* Mutant: the search timer survives the focus.
PerdeFocoComTimer ==
  /\ foco /\ ~atraso
  /\ foco' = FALSE
  /\ close
  /\ UNCHANGED <<formVars, atraso, searching, term, requestIndex, pending, emVoo,
                 falhas>>

PerdeFoco ==
  /\ foco /\ ~atraso
  /\ foco' = FALSE
  /\ searching' = "parado"
  /\ close
  /\ UNCHANGED <<formVars, atraso, term, requestIndex, pending, emVoo, falhas>>

GanhaFoco ==
  /\ ~foco /\ ~atraso
  /\ foco' = TRUE
  /\ UNCHANGED <<formVars, atraso, buscaVars, menuVars>>

\* The select tipoCliente changes: it has the focus.
MudaTipo ==
  /\ ~foco /\ ~atraso
  /\ tipo' \in Tipos \ {tipo}
  /\ texto' = Vazio
  /\ id' = Nada
  /\ UNCHANGED <<focoVars, buscaVars, menuVars>>

----------------------------------------------------------------------------

\* The page of a new order, or that of an order with its customer.
Init ==
  /\ tipo \in Tipos
  /\ \/ texto = Vazio /\ id = Nada
     \/ \E item \in Sugestoes[tipo] : texto = item /\ id = item
  /\ foco = FALSE /\ atraso = FALSE
  /\ searching = "parado" /\ term = Nada
  /\ requestIndex = 0 /\ pending = 0 /\ emVoo = {} /\ falhas = 0
  /\ cancelSearch = FALSE
  /\ menu = <<>> /\ visivel = FALSE /\ ativo = 0
  /\ isNewMenu = TRUE /\ remexe = 0 /\ recolhe = FALSE

Teclado ==
  \/ Digita \/ Tecla \/ Enter \/ Escape
  \/ \E tecla \in {"next", "previous", "nextPage", "previousPage"} : Move(tecla)

Mouse ==
  \/ \E i \in DOMAIN menu : MouseEnter(i) \/ MouseEnterParado(i) \/ Click(i)
  \/ MouseMove \/ MouseLeave \/ MouseDown \/ ClickFora

Relogio == Procura \/ Recolhe \/ DepoisDoMouseDown

Servidor == \E p \in emVoo : Recebe(p) \/ Falha(p)

Next == Teclado \/ Mouse \/ Relogio \/ Servidor \/ PerdeFoco \/ GanhaFoco \/ MudaTipo

Spec == Init /\ [][Next]_vars

\* The timers fire and the server answers; the user owes nothing.
Justica ==
  /\ WF_vars(Procura) /\ WF_vars(DepoisDoMouseDown) /\ WF_vars(Recolhe)
  /\ \A n \in 1..MaxPedidos : WF_vars(\E p \in emVoo : p.indice = n /\ Recebe(p))

FairSpec == Spec /\ Justica

----------------------------------------------------------------------------
(* Properties *)

TypeForm ==
  /\ tipo \in Tipos /\ texto \in Textos /\ id \in Itens \cup {Nada}
  /\ foco \in BOOLEAN /\ atraso \in BOOLEAN

TypeBusca ==
  /\ searching \in Timer /\ term \in Textos \cup {Nada} /\ cancelSearch \in BOOLEAN
  /\ requestIndex \in Nat /\ pending \in Int /\ falhas \in Nat
  /\ emVoo \subseteq Perguntas

TypeMenu ==
  /\ menu \in Seq(Itens) /\ visivel \in BOOLEAN
  /\ ativo \in {Fora} \cup 0..Len(menu) /\ remexe \in {Fora} \cup 0..Len(menu)
  /\ isNewMenu \in BOOLEAN /\ recolhe \in BOOLEAN

\* The state is always one that the page and the widget can be in: the active
\* item is in the list, or has left it.
TypeOK == TypeForm /\ TypeBusca /\ TypeMenu

\* The list is only shown while the field has the focus, or is about to get it
\* back: no late answer opens it over another field (close, cancelSearch).
MenuSoComFoco == visivel => foco \/ atraso

\* The id the form will send belongs to the type of customer it shows, though
\* questions about the other type may still be answered.
IdDoTipo == id # Nada => id \in Sugestoes[tipo]

\* `pending` counts the questions in flight and those that failed: the field
\* shows that it is loading exactly as long as there is one (_response).
PendenteConta == pending = Cardinality(emVoo) + falhas

\* The last question, while it is in flight.
PerguntaAtual == {p \in emVoo : p.indice = requestIndex}

\* The field keeps what SugestaoContrato promises: with many questions in
\* flight it behaves as if there were only the last one.
Contrato == INSTANCE SugestaoContrato WITH
  oferta <- IF visivel THEN {menu[i] : i \in DOMAIN menu} ELSE {},
  pergunta <- IF cancelSearch \/ PerguntaAtual = {} THEN Nada
              ELSE (CHOOSE p \in PerguntaAtual : TRUE).tipo

KeepsPromise == Contrato!Spec

\* A text that stays in the field is searched for, and the answer is handled:
\* re-arming the timer or overtaking answers do not lose it (_searchTimeout).
TextoProcurado ==
  \A t \in Termos :
    (foco /\ texto = t /\ searching = "armado")
      ~> (~foco \/ texto # t \/ (term = t /\ PerguntaAtual = {}))

=============================================================================
