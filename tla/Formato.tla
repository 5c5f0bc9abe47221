------------------------------- MODULE Formato -------------------------------
(***************************************************************************)
(* How jQuery UI's datepicker writes a date into its field and reads it    *)
(* back: the format says no more than what comes after what, and numbers   *)
(* and names end where they may.                                           *)
(*                                                                         *)
(* A format is a sequence of parts <<letter, doubled>> and literals <<"'", *)
(* character>>; names are short ones.  Left out: upper and lower case,     *)
(* timestamps (@ and !), and formats that have a quoted quote.             *)
(***************************************************************************)
EXTENDS Integers, Sequences, SequencesExt, TLC

CONSTANTS
  Formatos,
  Datas,      \* dates, [y, m, d]
  EsteAno,    \* what the clock may say
  NomesMeses, NomesDias  \* sequences of characters, from January and from Sunday

VARIABLE formato
  \* format, date, hoje (the year); texto; lida: the date that was read from it, or
  \* Erro; fase: data, texto, lido, or
  \* editado, relido if somebody changed the text

Erro == [y |-> 0, m |-> 0, d |-> 0]

ASSUME ConstantesDoFormato ==
  /\ Len(NomesMeses) = 12 /\ Len(NomesDias) = 7
  /\ EsteAno \subseteq Nat /\ \A d \in Datas : d.m \in 1..12 /\ d.d \in 1..31 /\ d.y \in Nat

Algarismo(c) == \E n \in 0..9 : c = ToString(n)

Bissexto(y) == y % 4 = 0 /\ (y % 100 # 0 \/ y % 400 = 0)
DiasNoMes(y, m) == IF m = 2 THEN (IF Bissexto(y) THEN 29 ELSE 28) ELSE IF m \in {4, 6, 9, 11} THEN 30 ELSE 31

\* Days of the year before a month; of the week, 0 for Sunday.
AntesDoMes(y, m) ==
  <<0, 31, 59, 90, 120, 151, 181, 212, 243, 273, 304, 334, 365>>[m] + (IF m > 2 /\ Bissexto(y) THEN 1 ELSE 0)
DiaDaSemana(d) ==
  LET a == d.y - 1 IN (365 * a + a \div 4 - a \div 100 + a \div 400 + AntesDoMes(d.y, d.m) + d.d) % 7

----------------------------------------------------------------------------
(* Writing *)

Cifras(n, k) == [i \in 1..k |-> ToString((n \div 10^(k - i)) % 10)]

\* Without leading zeros, or with as many as there must be.
formatNumber(n, dobrado, len) ==
  Cifras(n, IF dobrado THEN len ELSE CHOOSE k \in 1..4 : n < 10^k /\ (k = 1 \/ n >= 10^(k - 1)))

formatName(i, nomes) == nomes[i]

formatDate(f, d) ==
  FoldLeft(LAMBDA saida, p : saida \o
      CASE p[1] = "d" -> formatNumber(d.d, p[2], 2)
        [] p[1] = "m" -> formatNumber(d.m, p[2], 2)
        [] p[1] = "o" -> formatNumber(AntesDoMes(d.y, d.m) + d.d, p[2], 3)
        [] p[1] = "y" -> IF p[2] THEN formatNumber(d.y, FALSE, 4) ELSE formatNumber(d.y % 100, TRUE, 2)
        [] p[1] = "D" -> formatName(DiaDaSemana(d) + 1, NomesDias)
        [] p[1] = "M" -> formatName(d.m, NomesMeses)
        [] OTHER -> <<p[2]>>, <<>>, f)

----------------------------------------------------------------------------
(* Reading: what has been read, up to a position in the text. *)

Falhou(r) == [r EXCEPT !.erro = TRUE]

\* How many digits follow, at most so many.
Seguem(v, pos, size) ==
  CHOOSE k \in 0..size :
    /\ pos + k <= Len(v) + 1 /\ \A i \in pos..pos + k - 1 : Algarismo(v[i])
    /\ k = size \/ pos + k > Len(v) \/ ~Algarismo(v[pos + k])

ParaNumero(s) == FoldLeft(LAMBDA n, c : 10 * n + CHOOSE d \in 0..9 : ToString(d) = c, 0, s)

\* Mutant: the number goes on as far as there are digits.
getNumberGuloso(v, r, campo, minSize, size) ==
  LET k == Seguem(v, r.pos, 8) IN
  IF k < minSize THEN Falhou(r)
  ELSE [r EXCEPT ![campo] = ParaNumero(SubSeq(v, r.pos, r.pos + k - 1)), !.pos = @ + k]

getNumber(v, r, campo, minSize, size) ==
  LET k == Seguem(v, r.pos, size) IN
  IF k < minSize THEN Falhou(r)
  ELSE [r EXCEPT ![campo] = ParaNumero(SubSeq(v, r.pos, r.pos + k - 1)), !.pos = @ + k]

\* The longest of the names that the text goes on with.
getName(v, r, campo, nomes) ==
  LET cabem == {i \in 1..Len(nomes) : IsPrefix(nomes[i], SubSeq(v, r.pos, Len(v)))}
      i == CHOOSE i \in cabem : \A j \in cabem : Len(nomes[j]) <= Len(nomes[i]) IN
  IF cabem = {} THEN Falhou(r) ELSE [r EXCEPT ![campo] = i, !.pos = @ + Len(nomes[i])]

checkLiteral(v, r, c) ==
  IF r.pos > Len(v) \/ v[r.pos] # c THEN Falhou(r) ELSE [r EXCEPT !.pos = @ + 1]

LeParte(v, r, p) ==
  IF r.erro THEN r
  ELSE CASE p[1] = "d" -> getNumber(v, r, "day", 1, 2)
         [] p[1] = "m" -> getNumber(v, r, "month", 1, 2)
         [] p[1] = "o" -> getNumber(v, r, "doy", 1, 3)
         [] p[1] = "y" -> IF p[2] THEN getNumber(v, r, "year", 4, 4) ELSE getNumber(v, r, "year", 2, 2)
         [] p[1] = "D" -> getName(v, r, "semana", NomesDias)
         [] p[1] = "M" -> getName(v, r, "month", NomesMeses)
         [] OTHER -> checkLiteral(v, r, p[2])

\* shortYearCutoff is ten years from now.
Seculo(year, hoje) ==
  IF year = -1 THEN hoje ELSE IF year >= 100 THEN year
  ELSE year + hoje - (hoje % 100) + (IF year <= (hoje % 100) + 10 THEN 0 ELSE -100)

LeTudo(f, v) ==
  FoldLeft(LAMBDA r, p : LeParte(v, r, p),
    [pos |-> 1, year |-> -1, month |-> -1, day |-> -1, doy |-> -1, semana |-> -1, erro |-> FALSE], f)

\* The day of the year, which comes after all, is a day of some month.
parseDate(f, v, hoje) ==
  LET r == LeTudo(f, v)
      y == Seculo(r.year, hoje)
      meses == {m \in 1..12 : AntesDoMes(y, m) < r.doy /\ r.doy <= AntesDoMes(y, m + 1)}
      m == IF r.doy <= 0 THEN r.month ELSE IF meses = {} THEN 13 ELSE CHOOSE k \in meses : TRUE
      d == IF r.doy <= 0 \/ m = 13 THEN r.day ELSE r.doy - AntesDoMes(y, m) IN
  IF r.erro \/ (r.pos <= Len(v) /\ v[r.pos] # " ") \/ m \notin 1..12 \/ d \notin 1..DiasNoMes(y, m) \/ r.doy = 0
  THEN Erro ELSE [y |-> y, m |-> m, d |-> d]

----------------------------------------------------------------------------

escreve ==
  /\ formato.fase = "data"
  /\ formato' = [formato EXCEPT !.texto = formatDate(formato.format, formato.date), !.fase = "texto"]

\* The user takes a character away.
apaga ==
  /\ formato.fase = "texto"
  /\ \E i \in 1..Len(formato.texto) :
       formato' = [formato EXCEPT !.texto = RemoveAt(@, i), !.fase = "editado"]

\* The page and the keys read it as often as they like.
le ==
  /\ formato.fase # "data"
  /\ formato' = [formato EXCEPT !.lida = parseDate(formato.format, formato.texto, formato.hoje),
                   !.fase = IF @ \in {"texto", "lido"} THEN "lido" ELSE "relido"]

FormatoInit ==
  \E f \in Formatos, d \in Datas, hoje \in EsteAno :
    formato = [format |-> f, date |-> d, hoje |-> hoje, texto |-> <<>>, lida |-> Erro, fase |-> "data"]

FormatoNext == escreve \/ apaga \/ le

----------------------------------------------------------------------------
(* Properties *)

\* A number that has no fixed length is not followed by another.
Separado(f) ==
  \A i \in 1..Len(f) - 1 : f[i][1] \in {"d", "m", "o"} /\ ~f[i][2] => f[i + 1][1] \notin {"d", "m", "y", "o"}

\* The years that two digits stand for: up to ten from now, and a hundred of them,
\* but none of the next century.
DoisDigitos(y, hoje) ==
  LET ate == IF hoje % 100 > 89 THEN hoje + 99 - (hoje % 100) ELSE hoje + 10 IN y \in ate - 99..ate

\* A date comes back as it was written: padded numbers that touch are told apart,
\* of names that begin alike the longer one is tried first, and two digits of a
\* year are the year they were, if they may stand for it.  Whatever somebody has
\* made of the text, what is read is a day of the calendar.
VoltaIgual ==
  LET w == formato IN
  /\ w.fase = "lido" /\ Separado(w.format) /\ (<<"y", FALSE>> \in ToSet(w.format) => DoisDigitos(w.date.y, w.hoje))
       => w.lida = w.date
  /\ w.lida # Erro => w.lida.m \in 1..12 /\ w.lida.d \in 1..DiasNoMes(w.lida.y, w.lida.m)

=============================================================================
