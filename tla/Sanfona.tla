------------------------------- MODULE Sanfona -------------------------------
(***************************************************************************)
(* jQuery UI's accordion: a header may be chosen while the panels of the   *)
(* last choice still move.                                                 *)
(*                                                                         *)
(* Headers and their panels are numbered in their order; 0 is none.  Left  *)
(* out: headers that come or go, icons, heights, and refused choices.      *)
(***************************************************************************)
EXTENDS Integers

CONSTANT NPaineis
ASSUME ConstantesDaSanfona == NPaineis \in Nat \ {0}

VARIABLE sanfona
  \* active; prevShow, prevHide; anima: <<the panel going, the panel coming, the
  \* choice's old panel>> while they move; visiveis; conteudo: the panels with
  \* ui-accordion-content-active; cabecas: the headers with ui-accordion-header-
  \* active; ordem: those with tabIndex 0; selected: aria-selected; foco;
  \* collapsible, animate: options

Paineis == 1..NPaineis
Parada == <<0, 0, 0>>

----------------------------------------------------------------------------

_toggleComplete(w, velho) == [w EXCEPT !.conteudo = @ \ {velho}, !.cabecas = @ \ {velho}]

\* The moving panels arrive, by themselves or at stop(true, true).
chega(w) ==
  IF w.anima = Parada THEN w
  ELSE [_toggleComplete(w, w.anima[3]) EXCEPT !.visiveis = @ \ {w.anima[1]}, !.anima = Parada]

\* Mutant: the last choice's panels go on moving.
_toggleSemParar(w, velho, mostra) ==
  LET esconde == IF w.prevShow # 0 THEN w.prevShow ELSE velho
      w1 == [w EXCEPT !.prevShow = mostra, !.prevHide = esconde,
               !.selected = (@ \ {esconde}) \cup ({mostra} \ {0}),
               !.ordem = IF mostra = 0 THEN @
                         ELSE (IF esconde = 0 THEN {} ELSE @ \ {esconde}) \cup {mostra}] IN
  IF w.animate THEN [w1 EXCEPT !.anima = <<esconde, mostra, velho>>, !.visiveis = @ \cup ({mostra} \ {0})]
  ELSE _toggleComplete([w1 EXCEPT !.visiveis = (@ \ {esconde}) \cup ({mostra} \ {0})], velho)

_toggleSanfona(w, velho, mostra) ==
  LET esconde == IF w.prevShow # 0 THEN w.prevShow ELSE velho
      w1 == [chega(w) EXCEPT !.prevShow = mostra, !.prevHide = esconde,
               !.selected = (@ \ {esconde}) \cup ({mostra} \ {0}),
               !.ordem = IF mostra = 0 THEN @
                         ELSE (IF esconde = 0 THEN {} ELSE @ \ {esconde}) \cup {mostra}] IN
  IF w.animate THEN [w1 EXCEPT !.anima = <<esconde, mostra, velho>>, !.visiveis = @ \cup ({mostra} \ {0})]
  ELSE _toggleComplete([w1 EXCEPT !.visiveis = (@ \ {esconde}) \cup ({mostra} \ {0})], velho)

_eventHandlerSanfona(w, i) ==
  LET repete == w.active = i
      w1 == _toggleSanfona([w EXCEPT !.active = IF repete THEN 0 ELSE i], w.active, IF repete THEN 0 ELSE i) IN
  IF repete /\ ~w.collapsible THEN w
  ELSE [w1 EXCEPT !.cabecas = (@ \ {w.active}) \cup (IF repete THEN {} ELSE {i}),
                  !.conteudo = IF repete THEN @ ELSE @ \cup {i}]

\* Index 0 is false: collapse.
_activateSanfona(w, i) ==
  IF i = w.active THEN w ELSE _eventHandlerSanfona(w, IF i = 0 THEN w.active ELSE i)

----------------------------------------------------------------------------
(* Calls and events *)

clickSanfona(i) == sanfona' = [_eventHandlerSanfona(sanfona, i) EXCEPT !.foco = i]

option(i) == sanfona' = _activateSanfona(sanfona, i)

\* Arrows, Home and End move the focus with its place in the tab order; space
\* and Enter choose.
_keydown ==
  LET f == sanfona.foco
      destinos == {IF f = NPaineis THEN 1 ELSE f + 1, IF f = 1 THEN NPaineis ELSE f - 1, 1, NPaineis} IN
  /\ f # 0
  /\ \/ sanfona' = _eventHandlerSanfona(sanfona, f)
     \/ \E j \in destinos : sanfona' = [sanfona EXCEPT !.ordem = (@ \ {f}) \cup {j}, !.foco = j]

\* The Tab key; Ctrl and up in a panel that is seen.
foca == \E i \in sanfona.ordem \cup sanfona.visiveis \cup {0} : i # sanfona.foco /\ sanfona' = [sanfona EXCEPT !.foco = i]

\* Anything but the options' panel hides, and the active one shows.
refreshSanfona ==
  LET w == sanfona  sel == {w.active} \ {0} IN
  sanfona' = [w EXCEPT !.visiveis = sel, !.conteudo = @ \cup sel, !.cabecas = @ \cup sel, !.selected = sel,
                !.ordem = IF sel = {} THEN {1} ELSE sel]

completeSanfona == sanfona.anima # Parada /\ sanfona' = chega(sanfona)

SanfonaInit ==
  \E collapsible, animate \in BOOLEAN, i \in 0..NPaineis :
    LET sel == {i} \ {0} IN
    /\ i = 0 => collapsible
    /\ sanfona = [active |-> i, prevShow |-> 0, prevHide |-> 0, anima |-> Parada, visiveis |-> sel,
                  conteudo |-> sel, cabecas |-> sel, selected |-> sel,
                  ordem |-> IF i = 0 THEN {1} ELSE sel, foco |-> 0,
                  collapsible |-> collapsible, animate |-> animate]

SanfonaNext ==
  \/ \E i \in Paineis : clickSanfona(i) \/ option(i)
  \/ option(0) \/ _keydown \/ foca \/ refreshSanfona \/ completeSanfona

----------------------------------------------------------------------------
(* Properties *)

\* However fast headers are chosen, when nothing moves the active panel is the
\* one shown, and has the classes alone; no choice leaves two headers marked, and
\* the Tab key always reaches some header, also with all panels closed.
UmPainel ==
  LET w == sanfona  sel == {w.active} \ {0} IN
  /\ w.cabecas = sel /\ w.selected = sel /\ w.ordem # {}
  /\ w.anima = Parada => w.visiveis = sel /\ w.conteudo = sel

=============================================================================
