------------------------------ MODULE Calendario ------------------------------
(***************************************************************************)
(* jQuery UI's datepicker: one calendar on the page serves every date      *)
(* field, and whose it is lies in the fields of one object, $.datepicker.  *)
(*                                                                         *)
(* A date is the number of its day in a calendar of a few short months; a  *)
(* text is a date, 0 for the empty one, -1 for one that is no date, and -2 *)
(* for null.  Years are left out with what differs from months only by its *)
(* step, and so are inline calendars, dialogs, several months at a time,   *)
(* callbacks, places and animations.                                       *)
(***************************************************************************)
EXTENDS Integers, Sequences

CONSTANTS
  Campos,
  Dias,       \* the lengths of the months, in a sequence
  Hoje,
  Limites,    \* [Campos -> set of <<minDate, maxDate>>]
  Digitadas,  \* [Campos -> what may be typed]
  Nenhum

\* The number of the day; months and days beyond the ends run over, as in a Date.
Antes[m \in 1..Len(Dias) + 1] == IF m = 1 THEN 0 ELSE Antes[m - 1] + Dias[m - 1]
Data(m, d) == Antes[m] + d
MesDe(n) == CHOOSE m \in 1..Len(Dias) : Antes[m] < n /\ n <= Antes[m + 1]
Par(n) == [m |-> MesDe(n), d |-> n - Antes[MesDe(n)]]

\* A month before and after what a field may offer; no month is longer than two.
ASSUME ConstantesDoCalendario ==
  /\ Nenhum \notin Campos /\ Dias \in Seq(Nat \ {0}) /\ Len(Dias) > 2
  /\ \A m \in 1..Len(Dias) : Dias[m] <= Dias[Len(Dias) - 1] + Dias[Len(Dias)]
  /\ \A n \in {Hoje} \cup UNION {{l[1], l[2]} : l \in UNION {Limites[i] : i \in Campos}} :
       n \in Antes[2] + 1..Antes[Len(Dias)]
  /\ \A i \in Campos : \A l \in Limites[i] : l[1] <= l[2]
  /\ \A i \in Campos : Digitadas[i] \subseteq -1..Antes[Len(Dias) + 1]

VARIABLES
  calDesvio,  \* history: since it was opened, the calendar was redrawn for a field that
              \* is not its own, its field was disabled, or the page read a text that
              \* the calendar had not heard of
  calendario
  \* showing, curInst, lastInput, disabledInputs, of $.datepicker; conteudo: what the
  \* calendar was drawn with; of each field sel, curr (0 for none), keyEvent, lastVal,
  \* limite, texto; foco.  History: errada: a choice went to another field, or was
  \* out of limits; retipado: the text was typed that it was last parsed from, though
  \* another date has been chosen since

calVars == <<calendario, calDesvio>>

EmBranco == [campo |-> Nenhum, mes |-> 1, over |-> 0, atual |-> 0, dias |-> {}]

----------------------------------------------------------------------------

\* What the page sets, or the default.
_determineDate(date) == IF date = 0 THEN Hoje ELSE date

_isInRange(w, i, n) == n \in w.limite[i][1]..w.limite[i][2]

_restrictMinMax(w, i, n) ==
  LET l == w.limite[i] IN IF n < l[1] THEN l[1] ELSE IF n > l[2] THEN l[2] ELSE n

_getDefaultDate(w, i) == _restrictMinMax(w, i, _determineDate(0))

\* The arrow leads to a month that has a day in the limits; the list has them all.
_canAdjustMonth(w, i, mes, passo) ==
  _isInRange(w, i, IF passo < 0 THEN Antes[mes] ELSE Antes[mes + 1] + 1)
_generateMonthYearHeader(w, i) == MesDe(w.limite[i][1])..MesDe(w.limite[i][2])

_getDaysInMonth(m) == Dias[m]

\* A step of months or of days from what is selected.
_adjustInstDate(w, i, meses, dias) ==
  LET m == w.sel[i].m + meses
      dim == _getDaysInMonth(m)
      d == (IF w.sel[i].d > dim THEN dim ELSE w.sel[i].d) + dias IN
  [w EXCEPT !.sel[i] = Par(_restrictMinMax(w, i, Data(m, d)))]

\* Mutant: every day of the month may be chosen.
_generateHTMLSemLimites(w, i) ==
  LET mes == w.sel[i].m
      s == Data(mes, w.sel[i].d)
      over == w.keyEvent[i] \/ s = _getDefaultDate(w, i) IN
  [campo |-> i, mes |-> mes, over |-> IF over THEN s ELSE 0, atual |-> w.curr[i],
   dias |-> {n \in 1..Antes[Len(Dias) + 1] : MesDe(n) = mes}]

\* The month of the selection, or the last one there may be; the day under the
\* keys, the current one, and those that may be chosen.
_generateHTML(w, i) ==
  LET l == w.limite[i]
      mes == IF Data(w.sel[i].m, 1) > l[2] THEN MesDe(l[2]) ELSE w.sel[i].m
      s == Data(mes, w.sel[i].d)
      over == (mes = w.sel[i].m /\ w.keyEvent[i]) \/ s = _getDefaultDate(w, i) IN
  [campo |-> i, mes |-> mes, over |-> IF over THEN s ELSE 0, atual |-> w.curr[i],
   dias |-> {n \in l[1]..l[2] : MesDe(n) = mes}]

_shouldFocusInput(w, i) == i \notin w.disabledInputs

\* The one calendar, whoever's it is; its own field gets the focus.
_updateDatepicker(w, i) ==
  LET dim == _getDaysInMonth(w.sel[i].m)
      w1 == [w EXCEPT !.sel[i].d = IF @ > dim THEN dim ELSE @] IN
  [w1 EXCEPT !.conteudo = IF w.showing THEN _generateHTML(w1, i) ELSE @, !.keyEvent[i] = FALSE,
             !.foco = IF i = w.curInst /\ w.showing /\ _shouldFocusInput(w, i) THEN i ELSE @]

_setDateFromField(w, i, noDefault) ==
  LET t == w.texto[i]
      date == IF t > 0 THEN t ELSE _getDefaultDate(w, i)
      nada == t = 0 \/ (t = -1 /\ noDefault) IN
  IF t = w.lastVal[i] THEN w
  ELSE _adjustInstDate([w EXCEPT !.lastVal[i] = t, !.sel[i] = Par(date), !.retipado[i] = FALSE,
                                 !.curr[i] = IF nada THEN 0 ELSE date], i, 0, 0)

_setDate(w, i, date) ==
  LET n == _restrictMinMax(w, i, _determineDate(date)) IN
  [w EXCEPT !.sel[i] = Par(n), !.curr[i] = n, !.texto[i] = IF date = 0 THEN 0 ELSE n, !.retipado[i] = FALSE]

_getDate(w, i) == IF w.texto[i] = 0 THEN 0 ELSE w.curr[i]

\* Mutant: the field the calendar was opened for is not forgotten.
_hideDatepickerLembra(w, i) ==
  IF w.curInst = Nenhum \/ i \notin {Nenhum, w.curInst} \/ ~w.showing THEN w
  ELSE [w EXCEPT !.showing = FALSE, !.conteudo = EmBranco]

\* Of a given field, or whoever's it is.
_hideDatepicker(w, i) ==
  IF w.curInst = Nenhum \/ i \notin {Nenhum, w.curInst} \/ ~w.showing THEN w
  ELSE [w EXCEPT !.showing = FALSE, !.lastInput = Nenhum, !.conteudo = EmBranco]

_showDatepicker(w, i) ==
  LET w1 == IF w.curInst # i /\ w.showing THEN _hideDatepicker(w, w.curInst) ELSE w
      w2 == _setDateFromField([w1 EXCEPT !.lastVal[i] = -2, !.lastInput = i], i, FALSE) IN
  IF i \in w.disabledInputs \/ w.lastInput = i THEN w
  ELSE [_updateDatepicker([w2 EXCEPT !.showing = TRUE], i) EXCEPT !.foco = i, !.curInst = i]

_selectDate(w, i, t) ==
  [_hideDatepicker([w EXCEPT !.texto[i] = t, !.retipado[i] = FALSE], Nenhum) EXCEPT !.lastInput = Nenhum]

\* Mutant: what is current is left to the next reading of the field.
_selectDayDepois(w, i, m, d) ==
  IF i \in w.disabledInputs THEN w
  ELSE _selectDate([w EXCEPT !.sel[i] = [m |-> m, d |-> d]], i, Data(m, d))

_selectDay(w, i, m, d) ==
  LET n == Data(m, d)  l == w.limite[i] IN
  IF i \in w.disabledInputs THEN w
  ELSE _selectDate([w EXCEPT !.sel[i] = [m |-> m, d |-> d], !.curr[i] = n,
             !.errada = @ \/ (~calDesvio /\ (i # w.curInst \/ n \notin l[1]..l[2]))], i, n)

_adjustDate(w, i, meses, dias) ==
  IF i \in w.disabledInputs THEN w ELSE _updateDatepicker(_adjustInstDate(w, i, meses, dias), i)

_gotoToday(w, i) == _adjustDate([w EXCEPT !.sel[i] = Par(Hoje)], i, 0, 0)

_selectMonthYear(w, i, m) == _adjustDate([w EXCEPT !.sel[i].m = m], i, 0, 0)

----------------------------------------------------------------------------
(* Events *)

\* The mouse in a field; Tab, from field to field or away; the mouse elsewhere.
clicaCampo(i) ==
  LET w == IF calendario.curInst \notin {Nenhum, i} THEN _hideDatepicker(calendario, Nenhum) ELSE calendario IN
  /\ i \notin calendario.disabledInputs /\ calendario.foco # i
  /\ calendario' = _showDatepicker([w EXCEPT !.foco = i], i)

tabulacao ==
  LET w == IF calendario.foco = Nenhum THEN calendario
           ELSE _hideDatepicker([calendario EXCEPT !.keyEvent[calendario.foco] = TRUE], Nenhum) IN
  \/ \E i \in Campos \ (w.disabledInputs \cup {w.foco}) : calendario' = _showDatepicker([w EXCEPT !.foco = i], i)
  \/ calendario' = [w EXCEPT !.foco = Nenhum]

_checkExternalClick == calendario' = [_hideDatepicker(calendario, Nenhum) EXCEPT !.foco = Nenhum]

_doKeyDown ==
  LET i == calendario.foco
      w == [calendario EXCEPT !.keyEvent[i] = TRUE]
      over == w.conteudo.over IN
  /\ i # Nenhum
  /\ \/ ~w.showing /\ calendario' = _showDatepicker(w, i)
     \/ /\ w.showing
        /\ calendario' \in
             {_hideDatepicker(w, Nenhum), _selectDate(w, i, 0), _gotoToday(w, i),
              IF over = 0 \/ over = w.conteudo.atual \/ over \notin w.conteudo.dias THEN _hideDatepicker(w, Nenhum)
              ELSE _hideDatepicker(_selectDay(w, i, w.sel[i].m, Par(over).d), Nenhum)}
             \cup {_adjustDate(w, i, passo, 0) : passo \in {1, -1}}
             \cup {_adjustDate(w, i, 0, passo) : passo \in {1, -1}}

\* A key that changes the text; the key goes up.
digitaData(i, t) ==
  /\ calendario.foco = i /\ calendario.texto[i] # t
  /\ calendario' = [calendario EXCEPT !.keyEvent[i] = TRUE, !.texto[i] = t,
                       !.retipado[i] = t = calendario.lastVal[i] /\ t # calendario.curr[i]]

_doKeyUp(i) ==
  /\ calendario.foco = i /\ calendario.texto[i] > 0 /\ calendario.texto[i] # calendario.lastVal[i]
  /\ calendario' = _updateDatepicker(_setDateFromField(calendario, i, FALSE), i)

\* The mouse in the calendar, which takes the focus: a day, the arrows, the list
\* of months, and the buttons.  All are about the field it was drawn for.
_attachHandlers ==
  LET c == calendario.conteudo  i == c.campo  w == [calendario EXCEPT !.foco = Nenhum] IN
  /\ w.showing
  /\ \/ \E n \in c.dias : calendario' = _selectDay(w, i, c.mes, Par(n).d)
     \/ \E passo \in {1, -1} : _canAdjustMonth(w, i, c.mes, passo) /\ calendario' = _adjustDate(w, i, passo, 0)
     \/ \E m \in _generateMonthYearHeader(w, i) \ {c.mes} : calendario' = _selectMonthYear(w, i, m)
     \/ _isInRange(w, i, Hoje) /\ calendario' = _gotoToday(w, i)
     \/ calendario' = _hideDatepicker(w, Nenhum)

----------------------------------------------------------------------------
(* Calls of the page *)

_setDateDatepicker(i, date) == calendario' = _updateDatepicker(_setDate(calendario, i, date), i)

_getDateDatepicker(i) == calendario' = _setDateFromField(calendario, i, FALSE)

\* The calendar is hidden if it is this field's; the field is written anew.
_optionDatepicker(i, l) ==
  LET w == IF calendario.curInst = i THEN _hideDatepicker(calendario, Nenhum) ELSE calendario
      w1 == _setDateFromField(w, i, TRUE) IN
  calendario' = _updateDatepicker(_setDate([w1 EXCEPT !.limite[i] = l], i, _getDate(w1, i)), i)

_refreshDatepicker(i) == calendario' = _updateDatepicker(calendario, i)

\* A disabled field loses the focus.
_disableDatepicker(i) ==
  /\ i \notin calendario.disabledInputs
  /\ calendario' = [calendario EXCEPT !.disabledInputs = @ \cup {i}, !.foco = IF @ = i THEN Nenhum ELSE @]

_enableDatepicker(i) ==
  i \in calendario.disabledInputs /\ calendario' = [calendario EXCEPT !.disabledInputs = @ \ {i}]

CalendarioInit ==
  /\ calDesvio = FALSE
  /\ \E limite \in [Campos -> UNION {Limites[i] : i \in Campos}] :
       /\ \A i \in Campos : limite[i] \in Limites[i]
       /\ calendario =
            [showing |-> FALSE, curInst |-> Nenhum, lastInput |-> Nenhum, disabledInputs |-> {},
             conteudo |-> EmBranco,
             sel |-> [i \in Campos |-> [m |-> 2, d |-> 1]], curr |-> [i \in Campos |-> 0],
             keyEvent |-> [i \in Campos |-> FALSE], lastVal |-> [i \in Campos |-> -2], limite |-> limite,
             texto |-> [i \in Campos |-> 0], foco |-> Nenhum,
             errada |-> FALSE, retipado |-> [i \in Campos |-> FALSE]]

CalendarioPasso ==
  \/ \E i \in Campos :
       \/ clicaCampo(i) \/ _doKeyUp(i) \/ _getDateDatepicker(i) \/ _refreshDatepicker(i)
       \/ _disableDatepicker(i) \/ _enableDatepicker(i)
       \/ \E t \in Digitadas[i] : digitaData(i, t) \/ (t # -1 /\ _setDateDatepicker(i, t))
       \/ \E l \in Limites[i] : _optionDatepicker(i, l)
       \/ calendario' = _showDatepicker(calendario, i) \/ calendario' = _hideDatepicker(calendario, i)
  \/ tabulacao \/ _checkExternalClick \/ _doKeyDown \/ _attachHandlers

CalendarioNext ==
  /\ CalendarioPasso
  /\ calDesvio' = (calendario'.showing /\
       (\/ calDesvio /\ calendario'.curInst = calendario.curInst
        \/ calendario'.curInst # calendario'.conteudo.campo
        \/ calendario'.curInst \in calendario'.disabledInputs
        \/ \E i \in Campos : calendario'.lastVal[i] # calendario.lastVal[i] /\ calendario.showing
                             /\ calendario'.conteudo.campo = i /\ calendario'.conteudo = calendario.conteudo))

----------------------------------------------------------------------------
(* Properties *)

\* An open calendar is that of the field it was last opened for, which shows the
\* month of what is selected there, within its limits; a closed one is nobody's,
\* so that the field can open it again.
CalendarioDoCampo ==
  LET w == calendario IN
  /\ w.showing <=> w.lastInput # Nenhum
  /\ w.showing =>
       /\ w.lastInput = w.curInst
       /\ ~calDesvio => LET i == w.curInst  n == Data(w.sel[i].m, w.sel[i].d) IN
            w.conteudo.campo = i /\ n \in w.limite[i][1]..w.limite[i][2] /\ MesDe(n) = w.conteudo.mes

\* What is chosen with keys or mouse goes to the field the calendar was opened for
\* and keeps to its limits, though these may change between one opening and another.
EscolhaCerta == ~calendario.errada

\* The date the page reads is the one in the field, but for a text that is typed
\* again after another date was chosen: it is taken for the one parsed last.
CampoEmDia ==
  \A i \in Campos :
    LET t == calendario.texto[i] IN
    t > 0 /\ t = calendario.lastVal[i] /\ ~calendario.retipado[i] => calendario.curr[i] = t

=============================================================================
