------------------------------ MODULE Dialogos ------------------------------
(***************************************************************************)
(* jQuery UI's dialogs: they stack, a modal one puts an overlay under      *)
(* itself, and one handler of the document keeps the focus in a dialog     *)
(* while any modal one is open.                                            *)
(*                                                                         *)
(* The focus is inside a dialog, or Fora in the page, or on nothing: where *)
(* in the dialog is left out, and so are its size, place, buttons and      *)
(* animations, and callbacks that refuse to close it.                      *)
(***************************************************************************)
EXTENDS Integers, SequencesExt

CONSTANTS
  Dialogos, Modais,
  Fora, Corpo,  \* the focus in the page; on nothing
  MaxZ          \* bound: times a dialog is raised

ASSUME ConstantesDosDialogos ==
  /\ IsFiniteSet(Dialogos) /\ Modais \subseteq Dialogos
  /\ Fora \notin Dialogos /\ Corpo \notin Dialogos \cup {Fora} /\ MaxZ \in Nat

VARIABLES
  dialogoDesvio,  \* history: a modal dialog was closed before one it is under, or
                  \* something was closed in the moment a modal one takes to open
  dialogo
  \* instances: the open dialogs tracked; isOpen; opener, zIndex of each dialog;
  \* overlay: z-index of its overlay, -1 for none; overlays: their number;
  \* focusin: the dialogs whose handler the document has, and if it was opening;
  \* foco; confere: the dialogs whose overlay was clicked a moment ago

dialogoVars == <<dialogo, dialogoDesvio>>

Abertos(w) == {d \in Dialogos : w.isOpen[d]}
Cobertos(w) == {w.overlay[d] : d \in Dialogos} \ {-1}

----------------------------------------------------------------------------

_untrackInstance(w, d) ==
  LET exists == {k \in 1..Len(w.instances) : w.instances[k] = d} IN
  IF exists = {} THEN w ELSE [w EXCEPT !.instances = RemoveAt(@, Min(exists))]

_makeFocusTarget(w, d) == [_untrackInstance(w, d) EXCEPT !.instances = <<d>> \o @]

\* focusin of a dialog, which is visible if it can be focused.
_focusTabbable(w, d) == IF w.isOpen[d] THEN _makeFocusTarget([w EXCEPT !.foco = d], d) ELSE w

\* focusin of the page: any handler that is not opening sends the focus back.
focaFora(w) ==
  IF (\E d \in Dialogos : <<d, FALSE>> \in w.focusin) /\ w.instances # <<>>
  THEN _focusTabbable(w, w.instances[1]) ELSE [w EXCEPT !.foco = Fora]

\* Over everything that is seen, its own overlay included.
_moveToTop(w, d) ==
  LET outros == {w.zIndex[e] : e \in Abertos(w) \ {d}} \cup Cobertos(w) IN
  IF \A z \in outros : z < w.zIndex[d] THEN w
  ELSE [w EXCEPT !.zIndex[d] = 1 + CHOOSE z \in outros : \A y \in outros : y <= z]

_createOverlay(w, d) ==
  IF d \notin Modais THEN w
  ELSE [w EXCEPT !.overlays = @ + 1, !.overlay[d] = 0,
                 !.focusin = IF w.overlays = 0 THEN @ \cup {<<d, TRUE>>} ELSE @]

\* Mutant: the handler goes with the first overlay.
_destroyOverlayCedo(w, d) ==
  IF d \notin Modais THEN w
  ELSE [w EXCEPT !.overlays = @ - 1, !.overlay[d] = -1,
                 !.focusin = {}]

_destroyOverlay(w, d) ==
  IF d \notin Modais THEN w
  ELSE [w EXCEPT !.overlays = @ - 1, !.overlay[d] = -1,
                 !.focusin = IF w.overlays = 1 THEN {g \in @ : g[1] # d} ELSE @]

----------------------------------------------------------------------------
(* Calls and events *)

\* A dialog opened again is raised.
openDialogo(d) ==
  LET w0 == [dialogo EXCEPT !.isOpen[d] = TRUE, !.opener[d] = dialogo.foco]
      w1 == _moveToTop(_createOverlay(w0, d), d)
      w2 == IF d \in Modais THEN [w1 EXCEPT !.overlay[d] = w1.zIndex[d] - 1] ELSE w1
      subido == _moveToTop(dialogo, d) IN
  /\ \A e \in Dialogos : dialogo.zIndex[e] < MaxZ
  /\ dialogo' = IF ~dialogo.isOpen[d] THEN _makeFocusTarget(_focusTabbable(w2, d), d)
                ELSE IF subido = dialogo THEN dialogo ELSE _focusTabbable(subido, d)

\* The focus goes back to where it was, if that can still be seen.
devolve(w, d) ==
  LET o == w.opener[d] IN
  IF o = Fora THEN focaFora(w)
  ELSE IF o \in Abertos(w) THEN _focusTabbable(w, o) ELSE [w EXCEPT !.foco = Corpo]

closeDialogo(d) ==
  /\ dialogo.isOpen[d]
  /\ dialogo' = devolve(_untrackInstance(_destroyOverlay([dialogo EXCEPT !.isOpen[d] = FALSE], d), d), d)

\* A click inside a dialog that no overlay covers; in the page, if there is no
\* overlay; and on the highest overlay, whose dialog wants the focus.
mousedownDialogo(d) ==
  LET w == _moveToTop(dialogo, d) IN
  /\ dialogo.isOpen[d] /\ \A z \in Cobertos(dialogo) : z < dialogo.zIndex[d]
  /\ dialogo.zIndex[d] < MaxZ
  /\ dialogo' = _focusTabbable(w, d)

clicaFora == Cobertos(dialogo) = {} /\ dialogo' = focaFora(dialogo)

_keepFocus(d) ==
  /\ dialogo.overlay[d] # -1 /\ \A z \in Cobertos(dialogo) : z <= dialogo.overlay[d]
  /\ dialogo' = _focusTabbable([dialogo EXCEPT !.confere = @ \cup {d}], d)

\* The Tab key stays inside a dialog that has the focus.
tab == /\ dialogo.foco \in {Fora, Corpo}
       /\ \/ dialogo' = focaFora(dialogo)
          \/ \E d \in Abertos(dialogo) : dialogo' = _focusTabbable(dialogo, d)

\* A moment later: the overlay's click is checked again, an opening is over.
checkFocusDialogo(d) ==
  LET w == [dialogo EXCEPT !.confere = @ \ {d}] IN
  /\ d \in dialogo.confere
  /\ dialogo' = IF w.foco = d THEN w ELSE _focusTabbable(w, d)

aberto(d) ==
  /\ <<d, TRUE>> \in dialogo.focusin
  /\ dialogo' = [dialogo EXCEPT !.focusin = (@ \ {<<d, TRUE>>}) \cup {<<d, FALSE>>}]

DialogosInit ==
  /\ dialogoDesvio = FALSE
  /\ dialogo = [instances |-> <<>>, isOpen |-> [d \in Dialogos |-> FALSE],
                opener |-> [d \in Dialogos |-> Corpo], zIndex |-> [d \in Dialogos |-> 0],
                overlay |-> [d \in Dialogos |-> -1], overlays |-> 0, focusin |-> {},
                foco |-> Corpo, confere |-> {}]

\* Dialogs opened later have their overlays higher.
foraDeOrdem(d) == d \in Modais /\ \E z \in Cobertos(dialogo) : z > dialogo.overlay[d]

DialogosNext ==
  \/ /\ \E d \in Dialogos : closeDialogo(d) /\ dialogoDesvio' = (dialogoDesvio \/ foraDeOrdem(d)
                                                   \/ \E e \in Dialogos \ {d} : <<e, TRUE>> \in dialogo.focusin)
  \/ /\ \/ \E d \in Dialogos : openDialogo(d) \/ mousedownDialogo(d) \/ _keepFocus(d) \/ checkFocusDialogo(d) \/ aberto(d)
        \/ clicaFora \/ tab
     /\ UNCHANGED dialogoDesvio

----------------------------------------------------------------------------
(* Properties *)

\* If modal dialogs are closed in the reverse order, as the code's comment asks,
\* the document keeps the focus just as long as one of them is open: then the
\* page has not got it, and afterwards it may have it again.
FocoPreso ==
  ~dialogoDesvio =>
    /\ dialogo.focusin # {} <=> Modais \cap Abertos(dialogo) # {}
    /\ dialogo.focusin # {} => dialogo.foco # Fora

=============================================================================
