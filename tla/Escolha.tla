------------------------------ MODULE Escolha ------------------------------
(***************************************************************************)
(* jQuery UI's selectmenu: a button and a menu in the place of a select    *)
(* element, which the page and the form may still change behind them.      *)
(*                                                                         *)
(* Options are numbered in their order; 0 is none.  Letters go to any item *)
(* (module Menu has the search).  Left out: sizes, places, the text        *)
(* selection of the page, and selects without options.                     *)
(***************************************************************************)
EXTENDS Integers

CONSTANTS NOpcoes, Inertes  \* the options that are disabled

ASSUME ConstantesDaEscolha == NOpcoes \in Nat \ {0} /\ Inertes \subseteq 1..NOpcoes

VARIABLE escolha
  \* selectedIndex of the element, to which reset returns; rotulo: the option the
  \* button shows; focusIndex; isOpen; rendered; disabled; foco; reset: a form was
  \* reset a moment ago.  History: mudada, the page changed the element and told
  \* nobody

Opcoes == 1..NOpcoes

----------------------------------------------------------------------------

_select(w, i) ==
  [w EXCEPT !.selectedIndex = i, !.rotulo = i, !.isOpen = FALSE, !.mudada = FALSE]

\* The menu's focus event: with the menu closed it selects.
focusEscolha(w, i) ==
  [(IF w.focusIndex \notin {0, i} /\ ~w.isOpen THEN _select(w, i) ELSE w) EXCEPT !.focusIndex = i]

_refreshMenu(w) == [focusEscolha(w, w.selectedIndex) EXCEPT !.rendered = TRUE]

\* Mutant: the menu's focus is trusted to bring the label along.
refreshSoMenu(w) == [_refreshMenu(w) EXCEPT !.mudada = FALSE]

refreshEscolha(w) == [_refreshMenu(w) EXCEPT !.rotulo = w.selectedIndex, !.mudada = FALSE]

\* The menu gets the focus on what is selected before it opens.
openEscolha(w) ==
  IF w.disabled THEN w
  ELSE [(IF w.rendered THEN focusEscolha(w, w.selectedIndex) ELSE _refreshMenu(w)) EXCEPT !.isOpen = TRUE]

closeEscolha(w) == [w EXCEPT !.isOpen = FALSE]
_toggleEscolha(w) == IF w.isOpen THEN closeEscolha(w) ELSE openEscolha(w)

\* Next and previous, last and first.
_moveEscolha(w, passo, fim) ==
  LET de == IF w.isOpen THEN w.focusIndex ELSE w.selectedIndex
      onde == {i \in (IF w.isOpen THEN Opcoes ELSE Opcoes \ Inertes) : IF passo = 1 THEN i > de ELSE i < de}
      longe(i, j) == IF passo = 1 THEN i >= j ELSE i <= j IN
  IF onde = {} THEN w
  ELSE focusEscolha(w, CHOOSE i \in onde : \A j \in onde : IF fim THEN longe(i, j) ELSE longe(j, i))

_selectFocusedItem(w) == IF w.focusIndex \in Inertes THEN w ELSE _select(w, w.focusIndex)

----------------------------------------------------------------------------
(* Events *)

\* The first focus renders the menu.
focusin ==
  /\ ~escolha.foco /\ ~escolha.disabled
  /\ escolha' = [(IF escolha.rendered THEN escolha ELSE _refreshMenu(escolha)) EXCEPT !.foco = TRUE]

keydownEscolha ==
  LET w == escolha IN
  /\ w.foco /\ ~w.disabled
  /\ \/ escolha' \in {[closeEscolha(w) EXCEPT !.foco = FALSE], closeEscolha(w), _toggleEscolha(w),
                      IF w.isOpen THEN _selectFocusedItem(w) ELSE w,
                      IF w.isOpen THEN _selectFocusedItem(w) ELSE _toggleEscolha(w)}
     \/ \E passo \in {1, -1}, fim \in BOOLEAN :
          escolha' = _moveEscolha(w, passo, fim)
     \/ \E i \in Opcoes : escolha' = focusEscolha(w, i)

\* A click on the button; elsewhere; the mouse over an item, and its click.
clickBotao == ~escolha.disabled /\ escolha.rendered /\ escolha' = [_toggleEscolha(escolha) EXCEPT !.foco = TRUE]

_documentClick == escolha' = [closeEscolha(escolha) EXCEPT !.foco = FALSE]

rato(i) ==
  /\ escolha.isOpen /\ i \notin Inertes
  /\ escolha' \in {focusEscolha(escolha, i), _select(focusEscolha(escolha, i), i)}

\* The page: sets the element, tells the widget, opens and closes it, disables
\* it; a form's reset reaches the widget a moment later.
pagina ==
  \/ \E i \in Opcoes : escolha' = [escolha EXCEPT !.selectedIndex = i, !.mudada = TRUE]
  \/ escolha' \in {refreshEscolha(escolha), openEscolha(escolha), closeEscolha(escolha)}

_setOptionDisabledEscolha(v) ==
  escolha' = [(IF v THEN closeEscolha(escolha) ELSE escolha) EXCEPT !.disabled = v, !.foco = @ /\ ~v]

reset(inicial) == escolha' = [escolha EXCEPT !.selectedIndex = inicial, !.reset = TRUE]

_formResetHandler == escolha.reset /\ escolha' = [refreshEscolha(escolha) EXCEPT !.reset = FALSE]

EscolhaInit ==
  escolha = [selectedIndex |-> 1, rotulo |-> 1, focusIndex |-> 0, isOpen |-> FALSE, rendered |-> FALSE,
             disabled |-> FALSE, foco |-> FALSE, reset |-> FALSE, mudada |-> FALSE]

EscolhaNext ==
  \/ focusin \/ keydownEscolha \/ clickBotao \/ _documentClick \/ pagina \/ reset(1) \/ _formResetHandler
  \/ \E i \in Opcoes : rato(i)
  \/ \E v \in BOOLEAN : _setOptionDisabledEscolha(v)

----------------------------------------------------------------------------
(* Properties *)

\* The button shows what the element has, unless the page has changed it behind
\* the widget or a reset is on its way: also when menu and keys, closed and open,
\* selected one after the other, and after the first of them that follows a change.
RotuloSegue == escolha.rotulo = escolha.selectedIndex \/ escolha.mudada \/ escolha.reset

=============================================================================
