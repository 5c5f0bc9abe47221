---------------------------- MODULE MCComponentes ----------------------------
EXTENDS Componentes

\* A menu with two items, one of which has a submenu in a submenu.
MCItens == <<"a", "b", "a1", "a11">>
MCMenuDe == "a" :> "raiz" @@ "b" :> "raiz" @@ "a1" :> "a" @@ "a11" :> "a1"
MCLetraDe == "a" :> "x" @@ "b" :> "y" @@ "a1" :> "x" @@ "a11" :> "y"

\* Three elements inside each other, and one beside the second.
MCPai == "p" :> "nada" @@ "c" :> "p" @@ "n" :> "c" @@ "x" :> "p"

\* The third month has one day less than the second.
MCDias == <<1, 2, 1, 1>>
MCLimites == "ida" :> {<<2, 4>>, <<3, 3>>} @@ "volta" :> {<<3, 3>>}
MCDigitadas == "ida" :> {-1, 2} @@ "volta" :> {}

\* Some names begin like others; the last format but one has numbers that touch.
Barra == <<"'", "/">>
MCFormatos ==
  { <<<<"d", TRUE>>, Barra, <<"m", TRUE>>, Barra, <<"y", TRUE>>>>,
    <<<<"d", FALSE>>, Barra, <<"m", FALSE>>, Barra, <<"y", FALSE>>>>,
    <<<<"y", FALSE>>, <<"m", TRUE>>, <<"d", TRUE>>>>,
    <<<<"D", FALSE>>, <<"'", " ">>, <<"d", FALSE>>, <<"M", FALSE>>, <<"y", TRUE>>>>,
    <<<<"d", FALSE>>, <<"m", FALSE>>, <<"y", TRUE>>>>,
    <<<<"y", TRUE>>, <<"o", TRUE>>>> }
MCDatas ==
  {[y |-> y, m |-> m, d |-> d] : y \in {1999, 2000, 2024, 2026}, m \in {1, 2, 12}, d \in {1, 9, 12, 28}}
  \cup {[y |-> 2024, m |-> 2, d |-> 29], [y |-> 2027, m |-> 12, d |-> 31], [y |-> 1937, m |-> 3, d |-> 31]}
MCNomesMeses ==
  << <<"j", "a">>, <<"f">>, <<"m", "a", "r">>, <<"a", "b">>, <<"m", "a">>, <<"j", "u", "n">>,
     <<"j", "u", "l">>, <<"a", "g">>, <<"s">>, <<"o">>, <<"n">>, <<"d">> >>
MCNomesDias == << <<"d">>, <<"s">>, <<"t">>, <<"q">>, <<"q", "u">>, <<"s", "e">>, <<"s", "a">> >>

=============================================================================
