-------------------------------- MODULE Dica --------------------------------
(***************************************************************************)
(* jQuery UI's tooltip: mouse and focus open one for an element or for one *)
(* around it, whose title attribute is taken away meanwhile and must come  *)
(* back.                                                                   *)
(*                                                                         *)
(* A title is its own text, empty, or absent.  Left out: content that is   *)
(* not the title, places, and the fading of a tooltip that is closed.      *)
(***************************************************************************)
CONSTANTS Elementos, Pai, Ninguem  \* [elements -> the element it is in, or Ninguem]

\* An element and those around it: what is reached going up.
ParaCima(S) == \A x \in S \ {Ninguem} : Pai[x] \in S
Dentro ==
  [e \in Elementos \cup {Ninguem} |->
     {x \in Elementos : \A S \in SUBSET (Elementos \cup {Ninguem}) : e \in S /\ ParaCima(S) => x \in S}]

ASSUME ConstantesDaDica ==
  /\ Ninguem \notin Elementos /\ Pai \in [Elementos -> Elementos \cup {Ninguem}]
  /\ \A e \in Elementos : e \notin Dentro[Pai[e]]

VARIABLES
  dicaDesvio,  \* history: a tooltip was closed by Escape, by the focus, or by disabling
               \* all, and the titles of elements around one are still away
  dica
  \* title: "texto", "vazio" or "sem"; guardado: data ui-tooltip-title; aberta: data
  \* ui-tooltip-open; tooltip: the elements that show one; parents: those whose title
  \* is taken for one inside; eventos: what closes; disabled, disabledTitles

dicaVars == <<dica, dicaDesvio>>

----------------------------------------------------------------------------

\* Elements that close one after the other, each with the title it kept.  The
\* first that the mouse left gives back those of the elements around.
closeDica(w, E, tipo) ==
  LET abertas == E \cap w.tooltip
      delas == {e \in abertas : w.guardado[e] = "texto"}
      deles == IF tipo = "mouseleave" /\ abertas # {} THEN w.parents ELSE {} IN
  [w EXCEPT !.title = [x \in Elementos |-> IF x \in delas \cup deles THEN "texto" ELSE @[x]],
            !.parents = @ \ deles, !.tooltip = @ \ E, !.aberta = @ \ E,
            !.eventos = [x \in Elementos |-> IF x \in abertas THEN {} ELSE @[x]]]

\* Mutant: only the title of an element that shows a tooltip is remembered.
abafaAberta(w, P) ==
  LET w1 == closeDica(w, P \cap w.aberta, "blur")
      com == {p \in P : w1.title[p] = "texto"} IN
  [w1 EXCEPT !.parents = @ \cup (com \cap w.aberta),
             !.title = [x \in Elementos |-> IF x \in com THEN "vazio" ELSE @[x]]]

\* The elements around the one under the mouse, each on its own.
abafa(w, P) ==
  LET w1 == closeDica(w, P \cap w.aberta, "blur")
      com == {p \in P : w1.title[p] = "texto"} IN
  [w1 EXCEPT !.parents = @ \cup com,
             !.title = [x \in Elementos |-> IF x \in com THEN "vazio" ELSE @[x]]]

_registerCloseHandlers(w, e, tipo) ==
  [w EXCEPT !.eventos[e] = @ \cup {"keyup", IF tipo = "mouseover" THEN "mouseleave" ELSE "focusout"}]

_openDica(w, e, tipo) ==
  IF w.title[e] # "texto" THEN w
  ELSE [w EXCEPT !.tooltip = @ \cup {e}, !.title[e] = IF tipo = "mouseover" THEN "vazio" ELSE "sem"]

MaisPerto(E) == CHOOSE e \in E : E \subseteq Dentro[e]

\* The closest element that has a title attribute, unless its tooltip is open.
openDica(w, onde, tipo) ==
  LET com == {e \in Dentro[onde] : w.title[e] # "sem"}
      e == MaisPerto(com)
      w1 == [w EXCEPT !.aberta = @ \cup {e},
                      !.guardado[e] = IF w.title[e] = "texto" THEN "texto" ELSE @]
      w2 == IF tipo = "mouseover" THEN abafa(w1, Dentro[Pai[e]]) ELSE w1 IN
  IF w.disabled \/ com = {} \/ e \in w.tooltip THEN w
  ELSE _openDica(_registerCloseHandlers(w2, e, tipo), e, tipo)

\* An event that bubbles from an element through those around it.
Borbulha(w, E, tipo) == closeDica(w, {e \in E : tipo \in w.eventos[e]}, tipo)

----------------------------------------------------------------------------
(* Events *)

mouse(e) ==
  LET w == [Borbulha(dica, Dentro[dica.rato] \ Dentro[e], "mouseleave") EXCEPT !.rato = e] IN
  /\ e # dica.rato
  /\ dica' = openDica(w, e, "mouseover")

focusDica(e) ==
  LET w == [Borbulha(dica, Dentro[dica.foco], "focusout") EXCEPT !.foco = e] IN
  /\ e # dica.foco
  /\ dica' = openDica(w, e, "focusin")

escape == dica' = Borbulha(dica, Dentro[dica.foco], "keyup")

\* Open tooltips close, and what has a title attribute then loses it.
_disable ==
  LET w == closeDica(dica, dica.tooltip, "blur")
      com == {e \in Elementos : w.title[e] # "sem"} IN
  /\ ~dica.disabled
  /\ dica' = [w EXCEPT !.disabled = TRUE, !.disabledTitles = com,
                !.guardado = [e \in Elementos |-> IF e \in com THEN w.title[e] ELSE @[e]],
                !.title = [e \in Elementos |-> "sem"]]

_enable ==
  /\ dica.disabled
  /\ dica' = [dica EXCEPT !.disabled = FALSE, !.disabledTitles = {},
                !.title = [e \in Elementos |-> IF e \in dica.disabledTitles /\ dica.guardado[e] = "texto"
                                               THEN "texto" ELSE @[e]]]

DicaInit ==
  /\ dicaDesvio = FALSE
  /\ dica = [title |-> [e \in Elementos |-> "texto"], guardado |-> [e \in Elementos |-> "sem"],
             aberta |-> {}, tooltip |-> {}, parents |-> {}, eventos |-> [e \in Elementos |-> {}],
             disabled |-> FALSE, disabledTitles |-> {}, rato |-> Ninguem, foco |-> Ninguem]

DicaNext ==
  \/ \E e \in Elementos \cup {Ninguem} : mouse(e) /\ dicaDesvio' = (dicaDesvio /\ dica'.parents # {})
  \/ /\ escape \/ _disable \/ \E e \in Elementos \cup {Ninguem} : focusDica(e)
     /\ dicaDesvio' = (dicaDesvio \/ (dica.parents # {} /\ ~(dica.tooltip \subseteq dica'.tooltip)))
  \/ _enable /\ UNCHANGED dicaDesvio

----------------------------------------------------------------------------
(* Properties *)

\* Once mouse and focus are gone every element has its title again, however they
\* moved through elements inside each other.  A tooltip that Escape, the focus or
\* disabling closes leaves the titles taken around it to the next one that the
\* mouse leaves, and then they are back too.
TituloVolta ==
  dica.rato = Ninguem /\ dica.foco = Ninguem /\ ~dica.disabled /\ ~dicaDesvio =>
    \A e \in Elementos : dica.title[e] = "texto"

=============================================================================
