------------------------------- MODULE Slider -------------------------------
(***************************************************************************)
(* The slider of jQuery UI with two handles (range: true) and step 1, on   *)
(* the mouse widget it extends.  The mouse and the keyboard act on the     *)
(* handles at the same time; the page writes values and limits whenever it *)
(* likes, also in the middle of a drag, and is told of every slide.        *)
(*                                                                         *)
(* NaN is the limit of a page that does not know how many values there     *)
(* are.  Pixels are abstracted to the value under the mouse.               *)
(***************************************************************************)
EXTENDS Integers

CONSTANTS
  NaN,         \* not a number
  Nenhuma,     \* undefined: no handle
  MaxValor     \* bound: how far a key moves a handle without limit

ASSUME ConstantesDoSlider == NaN \notin Int /\ Nenhuma \notin Int /\ MaxValor \in Nat

Alcas == 0..1

VARIABLES
  values,            \* options.values, as written; `Valor` is how they are read
  min, max,          \* options.min and the limit computed from options.max
  keySliding,        \* a key went down on a handle and none came up on one
  mouseSliding,      \* a mousedown captured a handle, no mouseup released it
  arrastando,        \* _mouseStarted: the document reports mouse moves
  handleIndex,       \* the handle the mouse drags
  lastChangedValue,  \* the handle that changed last
  foco,              \* the handle with the focus
  formulario         \* what the callback `slide` writes: the values as the form
                     \* shows them, and the option that goes with them

sliderVars == <<values, min, max, keySliding, mouseSliding, arrastando,
                handleIndex, lastChangedValue, foco, formulario>>

----------------------------------------------------------------------------
(* Values *)

\* _trimAlignValue of an integer: no comparison with NaN is true.
Trim(v) ==
  IF v = NaN THEN NaN
  ELSE IF v <= min THEN min
  ELSE IF max # NaN /\ v >= max THEN max
  ELSE v

\* values(i): what was written, between today's limits.
Valor(i) == Trim(values[i])

Valores == [i \in Alcas |-> Valor(i)]

\* Math.min and Math.max.
Menor(a, b) == IF NaN \in {a, b} THEN NaN ELSE IF a <= b THEN a ELSE b
Maior(a, b) == IF NaN \in {a, b} THEN NaN ELSE IF a >= b THEN a ELSE b

\* The values the mouse can point at (_normValueFromMouse).
SobOMouse == IF max = NaN THEN {NaN} ELSE min..max

\* cur moved by n fifths of the range and aligned with the step.
Passo(cur, n) ==
  IF NaN \in {cur, max} THEN NaN ELSE Trim(cur + (2 * n * (max - min) + 5) \div 10)

Teclas == {"HOME", "END", "PAGE_UP", "PAGE_DOWN", "UP", "DOWN"}

\* Where a key moves a handle that is at cur.
Destino(tecla, cur) ==
  CASE tecla = "HOME"      -> min
    [] tecla = "END"       -> max
    [] tecla = "PAGE_UP"   -> Passo(cur, 1)
    [] tecla = "PAGE_DOWN" -> Passo(cur, -1)
    [] tecla = "UP"        -> IF cur \in {max, NaN} THEN cur ELSE Trim(cur + 1)
    [] tecla = "DOWN"      -> IF cur \in {min, NaN} THEN cur ELSE Trim(cur - 1)

----------------------------------------------------------------------------
(* What the handlers are made of *)

\* _slide with range: true: a handle stops at the other one.
limita(i, novo) ==
  IF i = 0 THEN Menor(Valor(1), novo) ELSE Maior(Valor(0), novo)

\* atualizaIntervalos: the form shows the values and their option is chosen.
atualizaIntervalos(valores) ==
  formulario' = [intervalo |-> valores, pagina |-> "selecionada"]

\* Mutant: the callback is told the values before the slide.
avisaAntes(i, v) == atualizaIntervalos(Valores)

\* The event `slide`.
avisa(i, v) == atualizaIntervalos([Valores EXCEPT ![i] = v])

\* _slide: nothing happens if the handle stays; NaN never equals itself.
slide(i, novo) ==
  LET v == limita(i, novo) IN
  IF v = Valor(i) /\ v # NaN
  THEN UNCHANGED <<values, formulario>>
  ELSE /\ avisa(i, v)
       /\ values' = [values EXCEPT ![i] = Trim(v)]

\* _change: during a slide nothing is said to have changed.
change(i) ==
  lastChangedValue' = IF keySliding' \/ mouseSliding' THEN lastChangedValue ELSE i

Distancia(x, i) == IF x <= Valor(i) THEN Valor(i) - x ELSE x - Valor(i)

\* _mouseCapture: the handle nearest to x; of two equally near, the second one
\* if it changed last or is at the minimum.
MaisProxima(x) ==
  IF \/ Distancia(x, 1) < Distancia(x, 0)
     \/ Distancia(x, 1) = Distancia(x, 0) /\ (lastChangedValue = 1 \/ Valor(1) = min)
  THEN 1 ELSE 0

----------------------------------------------------------------------------
(* Mouse *)

\* A press on the track moves the nearest handle there; one on a handle does
\* not.  A slider without limits has no nearest handle, and the handler fails
\* after its first assignments.
MouseDown(x, naAlca) ==
  /\ ~arrastando
  /\ mouseSliding' = TRUE
  /\ IF x = NaN
     THEN /\ handleIndex' = Nenhuma
          /\ UNCHANGED <<arrastando, foco, values, formulario>>
     ELSE /\ handleIndex' = MaisProxima(x)
          /\ foco' = MaisProxima(x)
          /\ arrastando' = TRUE
          /\ IF naAlca THEN UNCHANGED <<values, formulario>>
                       ELSE slide(MaisProxima(x), x)
  /\ UNCHANGED <<min, max, keySliding, lastChangedValue>>

MouseMove(x) ==
  /\ arrastando
  /\ slide(handleIndex, x)
  /\ UNCHANGED <<min, max, keySliding, mouseSliding, arrastando, handleIndex,
                 lastChangedValue, foco>>

\* A mouseup, or a move without button after a mouseup outside the window.
MouseUp ==
  /\ arrastando
  /\ arrastando' = FALSE
  /\ mouseSliding' = FALSE
  /\ handleIndex' = Nenhuma
  /\ keySliding' = keySliding
  /\ change(handleIndex)
  /\ UNCHANGED <<values, min, max, foco, formulario>>

----------------------------------------------------------------------------
(* Keyboard *)

KeyDown(tecla) ==
  /\ foco \in Alcas
  /\ tecla = "UP" => Valor(foco) # MaxValor
  /\ keySliding' = TRUE
  /\ slide(foco, Destino(tecla, Valor(foco)))
  /\ UNCHANGED <<min, max, mouseSliding, arrastando, handleIndex,
                 lastChangedValue, foco>>

\* Any key that comes up, on the handle that has the focus by then.
KeyUp ==
  /\ foco \in Alcas
  /\ keySliding
  /\ keySliding' = FALSE
  /\ mouseSliding' = mouseSliding
  /\ change(foco)
  /\ UNCHANGED <<values, min, max, arrastando, handleIndex, foco, formulario>>

Foca(i) ==
  /\ foco' = i
  /\ UNCHANGED <<values, min, max, keySliding, mouseSliding, arrastando,
                 handleIndex, lastChangedValue, formulario>>

----------------------------------------------------------------------------
(* The page *)

\* slider('values', 0, v), slider('values', 1, v) and then
\* slider('option', {min: 1, max: total}).
Reinicia(v, total) ==
  /\ values' = [i \in Alcas |-> Trim(v)]
  /\ min' = 1
  /\ max' = total
  /\ keySliding' = keySliding
  /\ mouseSliding' = mouseSliding
  /\ change(1)
  /\ UNCHANGED <<arrastando, handleIndex, foco>>

SliderInit ==
  /\ values = [i \in Alcas |-> 0]
  /\ min = 0 /\ max = 100
  /\ keySliding = FALSE /\ mouseSliding = FALSE /\ arrastando = FALSE
  /\ handleIndex = Nenhuma /\ lastChangedValue = Nenhuma /\ foco = Nenhuma
  /\ formulario = [intervalo |-> values, pagina |-> "todas"]

\* What reaches the slider itself, and what the document reports to it.
NoSlider ==
  \/ \E x \in SobOMouse, naAlca \in BOOLEAN : MouseDown(x, naAlca)
  \/ \E tecla \in Teclas : KeyDown(tecla)
  \/ KeyUp
  \/ \E i \in Alcas \cup {Nenhuma} : Foca(i)

NoDocumento == (\E x \in SobOMouse : MouseMove(x)) \/ MouseUp

=============================================================================
