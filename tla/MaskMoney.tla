----------------------------- MODULE MaskMoney -----------------------------
(***************************************************************************)
(* The price field of the product form: maskMoney rewrites its text after  *)
(* every key, and MoneyEditor reads it when the form is sent.              *)
(*                                                                         *)
(* Texts are sequences of characters: where the caret stands among them is *)
(* what the mask is about.  The page's options: symbol `R$ ' shown, comma, *)
(* point, two decimals, no negative numbers.  The plugin's last step when  *)
(* the field is left asks for $.browser, which the page's jQuery does not  *)
(* have: the handler fails there.  Left out: values pasted by the mouse,   *)
(* read-only fields, and Internet Explorer.                                *)
(***************************************************************************)
EXTENDS Integers, Sequences, SequencesExt

CONSTANTS
  Algarismos,   \* digits that are typed
  Gravado,      \* cents of the product whose price is changed
  MaxCentavos,  \* bound: cents in the field, below a second point
  Desconhecido  \* what the user expects after changing the text elsewhere

ASSUME ConstantesDoPreco ==
  /\ Algarismos \subseteq 0..9
  /\ Gravado \in Nat /\ Gravado < 1000000 /\ MaxCentavos \in Nat /\ MaxCentavos < 1000000
  /\ Desconhecido \notin Nat \cup {-1}

VARIABLE preco  \* texto, selection [ini, fim), foco, dirty; history: esperado,
                \* the cents typed at the end of the field, -1 for none

Simbolo == <<"R", "$", " ">>
Letra == <<"0", "1", "2", "3", "4", "5", "6", "7", "8", "9">>
Digitos == {Letra[i] : i \in 1..10}
Valor(c) == CHOOSE d \in 0..9 : Letra[d + 1] = c

Corta(s, ini, fim) == SubSeq(s, 1, ini) \o SubSeq(s, fim + 1, Len(s))

\* v.replace(settings.symbol, '')
SemSimbolo(v) ==
  LET onde == {i \in 1..Len(v) - 2 : SubSeq(v, i, i + 2) = Simbolo} IN
  IF onde = {} THEN v
  ELSE LET i == CHOOSE k \in onde : \A j \in onde : k <= j IN Corta(v, i - 1, i + 2)

\* The number that the digits up to each place make, whatever is between them.
NumeroAte(v) ==
  LET ate[i \in 0..Len(v)] ==
        IF i = 0 THEN 0
        ELSE IF v[i] \in Digitos THEN 10 * ate[i - 1] + Valor(v[i]) ELSE ate[i - 1] IN
  ate

Numero(v) == NumeroAte(v)[Len(v)]

Casas(n, k) == [i \in 1..k |-> Letra[((n \div 10^(k - i)) % 10) + 1]]

Inteiro(n) ==
  LET k == CHOOSE k \in 1..3 : n % 1000 < 10^k /\ (k = 1 \/ n % 1000 >= 10^(k - 1)) IN
  IF n < 1000 THEN Casas(n, k) ELSE Casas(n \div 1000, 1) \o <<".">> \o Casas(n, 3)

setSymbol(v) == IF IsPrefix(Simbolo, v) THEN v ELSE Simbolo \o v

maskValue(v) ==
  LET n == Numero(SemSimbolo(v)) IN
  setSymbol(Inteiro(n \div 100) \o <<",">> \o Casas(n, 2))

getDefaultMask == <<"0", ",", "0", "0">>

Cursor(p, i) == [p EXCEPT !.ini = i, !.fim = i]

\* The browser keeps the position inside the text.
maskAndPosition(p, v, pos) ==
  LET novo == maskValue(v)  i == pos - (Len(v) - Len(novo)) IN
  Cursor([p EXCEPT !.texto = novo], IF i < 0 THEN 0 ELSE i)

NoFim(p) == p.ini = Len(p.texto) /\ p.fim = p.ini

----------------------------------------------------------------------------

\* keypress of 0-9.
Digita(d) ==
  LET p == preco
      v == SubSeq(p.texto, 1, p.ini) \o <<Letra[d + 1]>> \o SubSeq(p.texto, p.fim + 1, Len(p.texto)) IN
  /\ p.foco /\ Numero(SemSimbolo(v)) <= MaxCentavos
  /\ preco' = [maskAndPosition(p, v, p.ini + 1) EXCEPT !.dirty = TRUE,
       !.esperado = IF NoFim(p) /\ p.esperado # Desconhecido
                    THEN (IF p.esperado = -1 THEN 0 ELSE 10 * p.esperado) + d ELSE Desconhecido]

\* keypress of % and ', whose codes are taken for those of the arrow keys.
DigitaSeta ==
  LET p == preco IN
  /\ p.foco /\ "%" \notin ToSet(p.texto)
  /\ preco' = Cursor([p EXCEPT !.texto = SubSeq(p.texto, 1, p.ini) \o <<"%">> \o SubSeq(p.texto, p.fim + 1, Len(p.texto)),
                !.esperado = IF NoFim(p) /\ p.texto # <<>> THEN @ ELSE Desconhecido], p.ini + 1)

\* keydown of Backspace; of Delete.
Backspace ==
  LET p == preco  um == IF p.ini = p.fim /\ p.ini > 0 THEN 1 ELSE 0 IN
  /\ p.foco
  /\ preco' = [maskAndPosition(p, Corta(p.texto, p.ini - um, p.fim), p.ini - um) EXCEPT !.dirty = TRUE,
       !.esperado = IF NoFim(p) /\ p.texto # <<>> /\ p.texto[Len(p.texto)] \in Digitos /\ @ # Desconhecido
                    THEN @ \div 10 ELSE Desconhecido]

Delete ==
  LET p == preco IN
  /\ p.foco
  /\ preco' = [maskAndPosition(p, Corta(p.texto, p.ini, IF p.ini = p.fim THEN p.fim + 1 ELSE p.fim), p.ini)
       EXCEPT !.dirty = TRUE, !.esperado = IF NoFim(p) /\ p.texto # <<>> THEN @ ELSE Desconhecido]

\* Arrow keys and the mouse: a place in the text, or all of it.
Seleciona(i, j) ==
  /\ preco.foco /\ (i = j \/ (i = 0 /\ j = Len(preco.texto)))
  /\ preco' = [preco EXCEPT !.ini = i, !.fim = j]

\* The caret goes to the end of a text that is set.
focusEvent ==
  LET p == preco
      v == IF p.texto = getDefaultMask THEN <<>>
           ELSE IF p.texto = <<>> THEN setSymbol(getDefaultMask) ELSE setSymbol(p.texto) IN
  /\ ~p.foco
  /\ preco' = Cursor([p EXCEPT !.texto = v, !.foco = TRUE,
       !.esperado = IF p.texto = <<>> /\ @ = -1 THEN 0 ELSE @], Len(v))

\* Mutant: the handler goes on, as with a jQuery that knows the browser.
blurEventCompleto ==
  LET p == preco IN
  /\ p.foco
  /\ preco' = [p EXCEPT !.foco = FALSE, !.dirty = FALSE,
       !.texto = IF @ \in {<<>>, setSymbol(getDefaultMask), Simbolo} THEN <<>> ELSE SemSimbolo(@)]

\* Tab announces a change first.
blurEvent ==
  /\ preco.foco
  /\ \E tab \in BOOLEAN : preco' = [preco EXCEPT !.foco = FALSE, !.dirty = @ /\ ~tab]

----------------------------------------------------------------------------

\* The digits, points and commas behind the symbol, up to the first other character.
Numeral(v) ==
  LET resto == SubSeq(v, 4, Len(v))
      fora == {i \in 1..Len(resto) : resto[i] \notin Digitos \cup {".", ","}} IN
  SubSeq(resto, 1, IF fora = {} THEN Len(resto) ELSE (CHOOSE i \in fora : \A j \in fora : i <= j) - 1)

\* MoneyEditor.setAsText: what stands before the comma and after; -1 for null.  In
\* hundredths of a cent, as there may be one decimal or more than two.
setAsText(v) ==
  LET numero == Numeral(v)
      virgulas == {i \in 1..Len(numero) : numero[i] = ","}
      v1 == IF virgulas = {} THEN Len(numero) + 1 ELSE CHOOSE i \in virgulas : \A j \in virgulas : i <= j
      decimais == SubSeq(SubSeq(numero, v1 + 1, Len(numero)) \o <<"0", "0", "0", "0">>, 1, 4) IN
  IF ~IsPrefix(Simbolo, v) \/ ToSet(numero) \cap Digitos = {} THEN -1
  ELSE 10000 * Numero(SubSeq(numero, 1, v1 - 1)) + Numero(decimais)

\* A new product's form, or one with the price getAsText has written.
PrecoInit ==
  \E n \in {-1, Gravado} :
    preco = [texto |-> IF n = -1 THEN <<>> ELSE maskValue(Casas(n, 6)), ini |-> 0, fim |-> 0,
             foco |-> FALSE, dirty |-> FALSE, esperado |-> n]

PrecoNext ==
  \/ \E d \in Algarismos : Digita(d)
  \/ DigitaSeta \/ Backspace \/ Delete \/ focusEvent \/ blurEvent
  \/ \E i, j \in 0..Len(preco.texto) : Seleciona(i, j)

----------------------------------------------------------------------------
(* Properties *)

\* What is typed at the end of the field, and taken back there, is the price
\* the server reads when the form is sent.
PrecoChega ==
  preco.esperado # Desconhecido =>
    setAsText(preco.texto) = IF preco.esperado = -1 THEN -1 ELSE 100 * preco.esperado

=============================================================================
