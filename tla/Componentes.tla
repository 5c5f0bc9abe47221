----------------------------- MODULE Componentes -----------------------------
(***************************************************************************)
(* The widgets of the page's libraries that share nothing with each other: *)
(* each keeps its own record and hears the events of its own elements, so  *)
(* that a page is as good with one of them at a time.                      *)
(***************************************************************************)
EXTENDS MaskMoney, Menu, Abas, Dialogos, Dica, Sanfona, Giro, Escolha,
        Calendario, Formato

VARIABLE tela  \* the widget in use

vars == <<tela, preco, menuVars, aba, dialogoVars, dicaVars, sanfona, giroVars, escolha, calVars, formato>>

Telas == {"preco", "menu", "abas", "dialogos", "dica", "sanfona", "giro", "escolha",
          "calendario", "formato"}

Um(S) == CHOOSE x \in S : TRUE

\* A widget that is not in use has one beginning.
Init ==
  /\ tela \in Telas
  /\ PrecoInit /\ (tela # "preco" => preco.texto = <<>>)
  /\ AbasInit /\ (tela # "abas" => aba.active = 0 /\ aba.animada)
  /\ SanfonaInit /\ (tela # "sanfona" => sanfona.active = 0 /\ sanfona.animate)
  /\ GiroInit /\ (tela # "giro" => giro.val = Vazio)
  /\ CalendarioInit /\ (tela # "calendario" => \A i \in Campos : calendario.limite[i] = Um(Limites[i]))
  /\ MenuInit /\ DialogosInit /\ DicaInit /\ EscolhaInit
  /\ FormatoInit
  /\ tela # "formato" => formato.format = Um(Formatos) /\ formato.date = Um(Datas) /\ formato.hoje = Um(EsteAno)

Next ==
  \/ tela = "preco" /\ PrecoNext
     /\ UNCHANGED <<tela, menuVars, aba, dialogoVars, dicaVars, sanfona, giroVars, escolha, calVars, formato>>
  \/ tela = "menu" /\ MenuNext
     /\ UNCHANGED <<tela, preco, aba, dialogoVars, dicaVars, sanfona, giroVars, escolha, calVars, formato>>
  \/ tela = "abas" /\ AbasNext
     /\ UNCHANGED <<tela, preco, menuVars, dialogoVars, dicaVars, sanfona, giroVars, escolha, calVars, formato>>
  \/ tela = "dialogos" /\ DialogosNext
     /\ UNCHANGED <<tela, preco, menuVars, aba, dicaVars, sanfona, giroVars, escolha, calVars, formato>>
  \/ tela = "dica" /\ DicaNext
     /\ UNCHANGED <<tela, preco, menuVars, aba, dialogoVars, sanfona, giroVars, escolha, calVars, formato>>
  \/ tela = "sanfona" /\ SanfonaNext
     /\ UNCHANGED <<tela, preco, menuVars, aba, dialogoVars, dicaVars, giroVars, escolha, calVars, formato>>
  \/ tela = "giro" /\ GiroNext
     /\ UNCHANGED <<tela, preco, menuVars, aba, dialogoVars, dicaVars, sanfona, escolha, calVars, formato>>
  \/ tela = "escolha" /\ EscolhaNext
     /\ UNCHANGED <<tela, preco, menuVars, aba, dialogoVars, dicaVars, sanfona, giroVars, calVars, formato>>
  \/ tela = "calendario" /\ CalendarioNext
     /\ UNCHANGED <<tela, preco, menuVars, aba, dialogoVars, dicaVars, sanfona, giroVars, escolha, formato>>
  \/ tela = "formato" /\ FormatoNext
     /\ UNCHANGED <<tela, preco, menuVars, aba, dialogoVars, dicaVars, sanfona, giroVars, escolha, calVars>>

Spec == Init /\ [][Next]_vars

=============================================================================
