-------------------------------- MODULE Giro --------------------------------
(***************************************************************************)
(* jQuery UI's spinner: buttons, keys and the wheel change a number again  *)
(* and again, until what began it ends.                                    *)
(*                                                                         *)
(* The number is whole, or Vazio for a text that is none.  Left out:       *)
(* formats and decimals, callbacks that refuse, options that change, and   *)
(* presses that follow each other within a moment.                         *)
(***************************************************************************)
EXTENDS Integers

CONSTANTS
  Minimo, Maximo, Passo, Pagina,
  Digitados,  \* what may be typed
  Vazio,
  MaxConta    \* bound: repetitions that are counted

ASSUME ConstantesDoGiro ==
  /\ {Minimo, Maximo} \subseteq Int /\ Minimo <= Maximo /\ {Passo, Pagina, MaxConta} \subseteq Nat \ {0}
  /\ Digitados \subseteq Int \cup {Vazio} /\ Vazio \notin Int

VARIABLES
  giroDesvio,  \* history: the spinner was disabled as it turned, or a focus was lost
               \* in the moment after a button was pressed
  giro
  \* val; previous; guardado: the previous that a press keeps for its moment; spinning;
  \* counter; timer: the steps of the next repetition, 0 for none; roda: the wheel's
  \* timer; cancelBlur; momento: the timer of a press; foco; disabled; botao, tecla:
  \* what is held down, 0 for nothing.  History: avisado, the value that the last
  \* change event told the page of; calado: a change since then has no event, made by
  \* the wheel without the focus or by typing until the field was disabled, or the
  \* event came during a visit, whose end compares with the value at its beginning

giroVars == <<giro, giroDesvio>>

Menor(a, b) == IF a < b THEN a ELSE b

----------------------------------------------------------------------------

\* The nearest step from the least value, within the bounds: the greatest value
\* itself need not be a step.
_adjustValue(v) ==
  LET r == Minimo + ((2 * (v - Minimo) + Passo) \div (2 * Passo)) * Passo IN
  IF r > Maximo THEN Maximo ELSE IF r < Minimo THEN Minimo ELSE r

_increment(i) == (i * i * i - 100 * i * i + 4250 * i + 50000) \div 50000

_value(w, v) == [w EXCEPT !.val = _adjustValue(v)]

_spin(w, passos) ==
  LET n == IF w.counter = 0 THEN 1 ELSE w.counter
      v == (IF w.val = Vazio THEN 0 ELSE w.val) + passos * Passo * _increment(n) IN
  [_value(w, _adjustValue(v)) EXCEPT !.counter = Menor(n + 1, MaxConta)]

_start(w) == [w EXCEPT !.spinning = TRUE, !.counter = IF @ = 0 THEN 1 ELSE @]
_repeat(w, passos) == [_spin(w, passos) EXCEPT !.timer = passos]

\* Mutant: only the events end.
_stopSemRelogio(w) == IF ~w.spinning THEN w ELSE [w EXCEPT !.roda = FALSE, !.counter = 0, !.spinning = FALSE]

_stop(w) == IF ~w.spinning THEN w
            ELSE [w EXCEPT !.timer = 0, !.roda = FALSE, !.counter = 0, !.spinning = FALSE]

\* checkFocus: the focus event keeps the value, then the button's is taken.  A
\* disabled field does not get the focus.
checkFocusGiro(w) == IF w.foco THEN w ELSE [w EXCEPT !.foco = ~w.disabled, !.previous = w.guardado]

\* A call tells the page of the change it made, with or without the focus.
spinnerModifer(w) == IF w.val = giro.val THEN w ELSE [w EXCEPT !.avisado = w.val, !.calado = giro.foco]

----------------------------------------------------------------------------
(* Events; those of a disabled spinner are ignored. *)

keydownGiro(k) ==
  LET w == _start([giro EXCEPT !.tecla = 2]) IN
  /\ giro.foco /\ ~giro.disabled
  /\ giro' = IF k = 0 THEN w ELSE _repeat(w, k)

keyup == giro.tecla # 0 /\ giro' = IF giro.foco /\ ~giro.disabled THEN _stop([giro EXCEPT !.tecla = 0])
                                   ELSE [giro EXCEPT !.tecla = 0]

digita(v) == giro.foco /\ giro' = [giro EXCEPT !.val = v]

\* Mutant: the value the field is entered with is not kept.
focusSemGuardar == ~giro.foco /\ ~giro.disabled /\ giro' = [giro EXCEPT !.foco = TRUE]

focusGiro == ~giro.foco /\ ~giro.disabled /\ giro' = [giro EXCEPT !.foco = TRUE, !.previous = giro.val]

blurGiro ==
  /\ giro.foco /\ ~giro.disabled
  /\ giro' = IF giro.cancelBlur THEN [giro EXCEPT !.cancelBlur = FALSE, !.foco = FALSE]
             ELSE LET w == [_stop(giro) EXCEPT !.foco = FALSE] IN
                  IF giro.previous = giro.val THEN w ELSE [w EXCEPT !.avisado = w.val, !.calado = FALSE]

mousewheel(s) ==
  LET w == [_spin(IF giro.spinning THEN giro ELSE _start(giro), s) EXCEPT !.roda = TRUE] IN
  /\ ~giro.disabled
  /\ giro' = [w EXCEPT !.calado = @ \/ (~giro.foco /\ w.val # giro.val)]

mousedownGiro(s) ==
  LET w == checkFocusGiro([giro EXCEPT !.guardado = IF giro.foco THEN giro.previous ELSE giro.val, !.botao = s]) IN
  /\ giro.botao = 0 /\ ~giro.momento
  /\ giro' = IF giro.disabled THEN [giro EXCEPT !.botao = s]
             ELSE _repeat(_start([w EXCEPT !.cancelBlur = TRUE, !.momento = TRUE]), s)

\* mouseup and mouseleave.
solta == giro.botao # 0 /\ giro' = IF giro.disabled THEN [giro EXCEPT !.botao = 0] ELSE _stop([giro EXCEPT !.botao = 0])

_stepUp(s) == giro' = spinnerModifer(_stop(_spin(_start(giro), s)))

value(v) == giro' = spinnerModifer(IF v = Vazio THEN [giro EXCEPT !.val = v] ELSE _value(giro, v))

\* A disabled field loses the focus and has no blur event.
_setOptionDisabledGiro ==
  giro' = [giro EXCEPT !.disabled = ~@, !.foco = FALSE,
             !.calado = @ \/ (giro.foco /\ giro.previous # giro.val)]

\* Timers: a repetition, the end of the wheel, the moment after a button.
repete == giro.timer # 0 /\ giro' = _repeat(giro, giro.timer)
fimDaRoda == giro.roda /\ giro' = _stop([giro EXCEPT !.roda = FALSE])
passouMomento ==
  /\ giro.momento
  /\ giro' = [checkFocusGiro([giro EXCEPT !.cancelBlur = FALSE, !.momento = FALSE]) EXCEPT !.guardado = Vazio]

GiroInit ==
  /\ giroDesvio = FALSE
  /\ \E v \in Digitados :
       giro = [val |-> v, previous |-> v, guardado |-> Vazio, spinning |-> FALSE, counter |-> 0, timer |-> 0,
               roda |-> FALSE, cancelBlur |-> FALSE, momento |-> FALSE, foco |-> FALSE, disabled |-> FALSE,
               botao |-> 0, tecla |-> 0, avisado |-> v, calado |-> FALSE]

GiroNext ==
  \/ /\ \/ \E k \in {1, -1, Pagina, -Pagina, 0} : keydownGiro(k)
        \/ \E v \in Digitados : digita(v) \/ value(v)
        \/ \E s \in {1, -1} : mousewheel(s) \/ mousedownGiro(s) \/ _stepUp(s)
        \/ keyup \/ focusGiro \/ solta \/ repete \/ fimDaRoda \/ passouMomento
     /\ UNCHANGED giroDesvio
  \/ blurGiro /\ giroDesvio' = (giroDesvio \/ giro.cancelBlur)
  \/ _setOptionDisabledGiro /\ giroDesvio' = (giroDesvio \/ giro.spinning \/ giro.cancelBlur)

----------------------------------------------------------------------------
(* Properties *)

\* The number changes by itself only while a button or a key of the field is held
\* down: every way to let go, and every other use of the spinner meanwhile, ends
\* it, but for being disabled, when what would end it is ignored.
GiroPara == ~giroDesvio /\ giro.timer # 0 => giro.spinning /\ (giro.botao # 0 \/ (giro.tecla # 0 /\ giro.foco))

\* When the field is left, however its value came about, by typing, turning, calls
\* and more than one press, the last change event told the page of the value it has,
\* but for the changes that the code has no event for, or none when it is left.
GiroAvisa == ~giroDesvio /\ ~giro.calado /\ ~giro.foco => giro.avisado = giro.val

=============================================================================
