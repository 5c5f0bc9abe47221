-------------------------------- MODULE Menu --------------------------------
(***************************************************************************)
(* jQuery UI's menu with submenus, moved through by mouse and keys.  Every *)
(* opening and closing waits on a timer that the next event may clear,     *)
(* replace or forget.                                                      *)
(*                                                                         *)
(* A menu is known by the item it belongs to, the outermost one as Raiz.   *)
(* Timers of the same delay run out in the order they began.  Left out:    *)
(* disabled items and dividers, scrolling, pages, and icons.               *)
(***************************************************************************)
EXTENDS Integers, SequencesExt

CONSTANTS
  Itens,     \* the items, in a sequence: their order on the page
  MenuDe,    \* [items -> the menu they are in]
  LetraDe,   \* [items -> the letter they begin with]
  Raiz, Nada,
  MaxTimers  \* bound: delays under way when the menu gets the focus

It == {Itens[i] : i \in 1..Len(Itens)}
Submenus == {MenuDe[i] : i \in It} \ {Raiz}

\* A submenu comes after the item it belongs to.
ASSUME ConstantesDoMenu ==
  /\ Itens \in Seq(It) \ {<<>>} /\ IsInjective(Itens)
  /\ Nada \notin It \cup {Raiz} /\ Raiz \notin It
  /\ \A k \in 1..Len(Itens) : MenuDe[Itens[k]] \in {Raiz} \cup {Itens[j] : j \in 1..k - 1}

VARIABLES
  menuCruzado,  \* history: something came between an expansion and its focus, the
                \* focus made the menu forget a delay, or a submenu closed under
                \* the mouse
  menu
  \* active, activeMenu, previousFilter; abertos: the submenus shown; fila: the
  \* delays under way, the last of which is this.timer unless semTimer; logo:
  \* what happens in a moment;
  \* rato: the item the mouse is over, within its parents; noFoco: the menu has
  \* the focus

menuVars == <<menu, menuCruzado>>

\* The places of the items of a menu, and the parents of an item or menu.
De(m) == {k \in 1..Len(Itens) : MenuDe[Itens[k]] = m}
Primeiro(m) == Itens[Min(De(m))]
Acima[m \in It \cup {Raiz}] == IF m = Raiz THEN {} ELSE {m} \cup Acima[MenuDe[m]]
Abaixo(m) == {s \in Submenus : m = Raiz \/ (s # m /\ m \in Acima[s])}

Adia(w, tipo, alvo) == [w EXCEPT !.fila = Append(@, [tipo |-> tipo, alvo |-> alvo]), !.semTimer = FALSE]
clearTimeout(w) == IF w.semTimer THEN w ELSE [w EXCEPT !.fila = Front(@), !.semTimer = TRUE]

----------------------------------------------------------------------------
(* What the handlers are made of, from one state of the menu to the next.  *)

\* Mutant: the submenus of those that are hidden stay.
closeRaso(w, m) == [w EXCEPT !.abertos = {s \in @ : MenuDe[s] # m}]

closeMenu(w, m) == [w EXCEPT !.abertos = @ \ Abaixo(m)]
_close(w) == closeMenu(w, IF w.active = Nada THEN Raiz ELSE MenuDe[w.active])

_openMenu(w, s) == [clearTimeout(w) EXCEPT !.abertos = (@ \cap Acima[s]) \cup {s}]

blurMenu(w, fromFocus) ==
  [(IF fromFocus THEN w ELSE clearTimeout(w)) EXCEPT !.active = Nada]

\* The event is a key, the mouse, a click, or the focus of the menu.
focusMenu(w, item, evento) ==
  LET w1 == [blurMenu(w, evento = "foco") EXCEPT !.active = item, !.activeMenu = MenuDe[item]]
      w2 == IF evento = "tecla" THEN _close(w1) ELSE Adia(w1, "fecha", Nada)
      w3 == clearTimeout(w2) IN
  IF item \notin Submenus \/ evento # "mouse" THEN w2
  ELSE IF item \in w.abertos THEN w3 ELSE Adia(w3, "abre", item)

collapseAll(w, m) == Adia(clearTimeout(w), "colapsa", m)

select(w, item) ==
  LET a == IF w.active = Nada THEN item ELSE w.active
      w1 == [w EXCEPT !.active = a] IN
  IF a \in Submenus THEN w1 ELSE collapseAll(w1, Raiz)

\* The submenu opens at once; its first item is focused a moment later.
expand(w, evento) ==
  IF w.active \notin Submenus THEN w
  ELSE [_openMenu(w, w.active) EXCEPT !.logo = @ \cup {[tipo |-> evento, alvo |-> Primeiro(w.active)]}]

collapse(w) ==
  IF w.active = Nada \/ MenuDe[w.active] = Raiz THEN w
  ELSE focusMenu(_close(w), MenuDe[w.active], "tecla")

Posicao(i) == CHOOSE k \in 1..Len(Itens) : Itens[k] = i

\* The items of the active one's menu after it, and before it.
Depois(w) == IF w.active = Nada THEN {} ELSE {k \in De(MenuDe[w.active]) : k > Posicao(w.active)}
Antecede(w) == IF w.active = Nada THEN {} ELSE {k \in De(MenuDe[w.active]) : k < Posicao(w.active)}

\* _move: from the active item to the next one or to the end, or from there to an
\* end of the active menu.
_moveMenu(w, passo, longe) ==
  LET lado == IF passo = 1 THEN Depois(w) ELSE Antecede(w)
      onde == IF lado # {} THEN lado ELSE De(w.activeMenu) IN
  focusMenu(w, Itens[IF (passo = 1) # longe THEN Min(onde) ELSE Max(onde)], "tecla")

\* What is typed within a second: no item begins with two letters, which leaves
\* the last one.  The first match in the active menu, or the next item if the
\* same letter is typed again.
Achados(w, letra) == {k \in De(w.activeMenu) : LetraDe[Itens[k]] = letra}

Digitado(w, letra) ==
  LET achados == Achados(w, letra)
      repete == w.previousFilter = letra /\ Depois(w) # {} /\ Min(Depois(w)) \in achados
      onde == IF repete THEN Depois(w) ELSE achados IN
  IF onde = {} THEN [w EXCEPT !.previousFilter = Nada]
  ELSE [focusMenu(w, Itens[Min(onde)], "tecla") EXCEPT !.previousFilter = letra]

----------------------------------------------------------------------------
(* Events.  The mouse enters an item, with those it is in; its parents get *)
(* no event of their own.                                                  *)

Visivel(i) == MenuDe[i] = Raiz \/ MenuDe[i] \in menu.abertos

SobOcultado == menu.rato # Nada /\ ~Visivel(menu.rato)

\* Leaving a submenu, or the whole menu: the submenu that was left is the one
\* the collapse is about, the outermost one if it was none.
Saida(w, i) == IF w.rato # Nada /\ MenuDe[w.rato] \notin Acima[i] \cup {Raiz, MenuDe[i]}
               THEN collapseAll(w, MenuDe[w.rato]) ELSE w

mouseenter(i) ==
  LET w == [Saida(menu, i) EXCEPT !.rato = i] IN
  /\ Visivel(i) /\ menu.rato # i
  /\ menu' = IF w.previousFilter # Nada \/ (menu.rato # Nada /\ i \in Acima[menu.rato])
             THEN w ELSE focusMenu(w, i, "mouse")

mouseleave ==
  /\ menu.rato # Nada
  /\ menu' = [collapseAll(menu, MenuDe[menu.rato]) EXCEPT !.rato = Nada]

\* The click selects and expands; then it reaches the document.
clickMenu ==
  LET i == menu.rato IN
  /\ i # Nada /\ Visivel(i)
  /\ menu' = IF i \in Submenus THEN expand(select(menu, i), "clique")
             ELSE IF ~menu.noFoco THEN [select(menu, i) EXCEPT !.noFoco = TRUE] ELSE select(menu, i)

clickFora == menu' = [collapseAll(menu, Raiz) EXCEPT !.noFoco = FALSE]

ganhaFocoMenu ==
  /\ ~menu.noFoco /\ Len(menu.fila) < MaxTimers
  /\ menu' = [focusMenu(menu, IF menu.active = Nada THEN Primeiro(Raiz) ELSE menu.active, "foco")
              EXCEPT !.noFoco = TRUE]

\* The menu loses the focus to something else: a moment later it collapses.
perdeFocoMenu ==
  /\ menu.noFoco
  /\ menu' = [menu EXCEPT !.noFoco = FALSE,
                          !.logo = @ \cup {[tipo |-> "perdeu", alvo |-> Raiz]}]

keydownMenu ==
  /\ menu.noFoco
  /\ \/ \E passo \in {1, -1}, longe \in BOOLEAN : menu' = _moveMenu(menu, passo, longe)
     \/ menu' = collapse(menu)
     \/ menu' = expand(menu, "tecla")
     \/ menu' = IF menu.active = Nada THEN menu
                ELSE IF menu.active \in Submenus THEN expand(menu, "tecla")
                ELSE select(menu, menu.active)
     \/ \E i \in It : menu' = Digitado(menu, LetraDe[i])

\* A timer runs out.
Venceu(w, t) ==
  CASE t.tipo = "fecha" -> _close(w)
    [] t.tipo = "abre" -> _openMenu(_close(w), t.alvo)
    [] t.tipo = "colapsa" -> [blurMenu(closeMenu(w, t.alvo), FALSE) EXCEPT !.activeMenu = t.alvo]
    [] t.tipo \in {"tecla", "clique"} -> focusMenu(w, t.alvo, t.tipo)
    [] t.tipo = "perdeu" -> IF w.noFoco THEN w ELSE collapseAll(w, t.alvo)

\* The moment after an expansion is shorter than any delay that began later.
Expandindo == \E t \in menu.logo : t.tipo \in {"tecla", "clique"}

timeout ==
  \/ /\ menu.fila # <<>> /\ ~(Expandindo /\ Len(menu.fila) = 1 /\ ~menu.semTimer)
     /\ menu' = Venceu([menu EXCEPT !.fila = Tail(@), !.semTimer = @ \/ Len(menu.fila) = 1], menu.fila[1])
  \/ \E t \in menu.logo : menu' = Venceu([menu EXCEPT !.logo = @ \ {t}], t)

filterTimer == menu.previousFilter # Nada /\ menu' = [menu EXCEPT !.previousFilter = Nada]

MenuInit ==
  /\ menuCruzado = FALSE
  /\ menu = [active |-> Nada, activeMenu |-> Raiz, previousFilter |-> Nada,
          fila |-> <<>>, semTimer |-> TRUE, abertos |-> {}, logo |-> {}, rato |-> Nada, noFoco |-> FALSE]

MenuNext ==
  /\ \/ \E i \in It : mouseenter(i)
     \/ mouseleave \/ clickMenu \/ clickFora \/ ganhaFocoMenu \/ perdeFocoMenu \/ keydownMenu
     \/ timeout \/ filterTimer
  /\ menuCruzado' = (menuCruzado \/ (Expandindo /\ Expandindo') \/ Len(menu'.fila) > 1
                     \/ (SobOcultado)')

----------------------------------------------------------------------------
(* Properties *)

\* The submenus shown are one path, and the active item can be seen: unless the
\* first item of a submenu got the focus after something else, the menu forgot a
\* delay, or a submenu closed under the mouse, nothing that runs out late shows a
\* submenu without those it is in, or closes the one the active item is in.
MenuCoerente ==
  ~menuCruzado =>
    /\ \A s \in menu.abertos : Acima[s] \subseteq menu.abertos
         /\ \A r \in menu.abertos : r \in Acima[s] \/ s \in Acima[r]
    /\ menu.active # Nada => Visivel(menu.active)

=============================================================================
