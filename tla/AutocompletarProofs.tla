------------------------ MODULE AutocompletarProofs ------------------------
(***************************************************************************)
(* Theorems of Autocompletar, for any types, suggestions, texts and bounds.*)
(***************************************************************************)
EXTENDS Autocompletar, FiniteSetTheorems, TLAPS

\* What is shown or asked has a text it was searched with, and is not empty.
BuscaFeita ==
  /\ visivel => menu # <<>> /\ term # Nada
  /\ emVoo # {} => term # Nada

\* Each question in flight has an index of its own, already given.
IndicesOK ==
  /\ \A p \in emVoo : p.indice <= requestIndex
  /\ \A p, q \in emVoo : p.indice = q.indice => p = q

\* A field without the focus has no timer armed, shows nothing and will not.
SemFocoQuieto ==
  ~foco /\ ~atraso =>
    /\ searching = "parado"
    /\ ~visivel
    /\ cancelSearch \/ PerguntaAtual = {}

BaseInv == TypeOK /\ BuscaFeita /\ IndicesOK /\ SemFocoQuieto

\* What is shown, what will be shown and the id are of the selected type.
TudoDoTipo ==
  /\ visivel => \A i \in DOMAIN menu : menu[i] \in Sugestoes[tipo]
  /\ ~cancelSearch => \A p \in PerguntaAtual : p.tipo = tipo
  /\ IdDoTipo

\* With a mouse that moves, no item of a hidden list is or gets active.
SoAtivoSeVisivel ==
  /\ remexe = 0
  /\ ativo # 0 => visivel /\ ativo \in DOMAIN menu

TipoInv == BaseInv /\ TudoDoTipo /\ SoAtivoSeVisivel

LEMMA AnswerIsList ==
  ASSUME NEW tp \in Tipos, NEW itens \in Respostas(tp)
  PROVE  /\ itens \in Seq(Sugestoes[tp])
         /\ itens \in Seq(Itens)
         /\ \A i \in DOMAIN itens : itens[i] \in Sugestoes[tp]
  BY ConstantesOK DEF Respostas, Itens

LEMMA MenuLength ==
  ASSUME TypeMenu
  PROVE  /\ Len(menu) \in Nat
         /\ DOMAIN menu = 1..Len(menu)
         /\ \A i \in 1..Len(menu) : menu[i] \in Itens
  BY DEF TypeMenu

LEMMA SameList ==
  ASSUME TypeMenu, UNCHANGED menu,
         visivel' \in BOOLEAN, isNewMenu' \in BOOLEAN, recolhe' \in BOOLEAN,
         ativo' \in {Fora} \cup 0..Len(menu), remexe' \in {Fora} \cup 0..Len(menu)
  PROVE  TypeMenu'
  BY DEF TypeMenu

LEMMA BlurType ==
  ASSUME TypeMenu, blur, UNCHANGED <<menu, visivel, isNewMenu, remexe>>
  PROVE  TypeMenu'
PROOF
  <1>1. ativo' \in {Fora} \cup 0..Len(menu)
    BY MenuLength DEF blur
  <1>3. recolhe' \in BOOLEAN
    BY DEF blur
  <1>2. visivel' \in BOOLEAN /\ isNewMenu' \in BOOLEAN
        /\ remexe' \in {Fora} \cup 0..Len(menu)
    BY DEF TypeMenu
  <1> QED
    BY <1>1, <1>2, <1>3, SameList

LEMMA ClosesList ==
  ASSUME TypeMenu, _close
  PROVE  TypeMenu' /\ ~visivel' /\ menu' = menu
PROOF
  <1>1. CASE visivel
    <2>1. ativo' \in {Fora} \cup 0..Len(menu)
      BY <1>1, MenuLength DEF _close, blur
    <2>3. recolhe' \in BOOLEAN
      BY <1>1 DEF _close, blur
    <2>2. visivel' \in BOOLEAN /\ isNewMenu' \in BOOLEAN
          /\ remexe' \in {Fora} \cup 0..Len(menu)
      BY <1>1 DEF TypeMenu, _close
    <2> QED
      BY <1>1, <2>1, <2>2, <2>3, SameList DEF _close
  <1>2. CASE ~visivel
    BY <1>2 DEF TypeMenu, _close, menuVars
  <1> QED
    BY <1>1, <1>2

LEMMA SelectsItem ==
  ASSUME TypeMenu, NEW i \in 1..Len(menu), Seleciona(i)
  PROVE  /\ TypeMenu' /\ ~visivel' /\ cancelSearch' = TRUE
         /\ id' = menu[i] /\ texto' = menu[i] /\ term' = menu[i] /\ menu[i] \in Itens
         /\ UNCHANGED <<tipo, foco, atraso, searching, requestIndex, pending, emVoo, falhas>>
PROOF
  <1>1. menu[i] \in Itens
    BY DEF TypeMenu
  <1>2. CASE visivel /\ _close
    BY <1>1, <1>2, ClosesList DEF Seleciona, focoVars
  <1>3. CASE ~visivel /\ recolhe' = TRUE /\ UNCHANGED <<menu, visivel, ativo, isNewMenu, remexe>>
    BY <1>1, <1>3 DEF Seleciona, focoVars, TypeMenu
  <1> QED
    BY <1>2, <1>3 DEF Seleciona

LEMMA SelectionFails ==
  ASSUME TypeMenu, SelecaoFalha
  PROVE  /\ TypeMenu'
         /\ UNCHANGED <<formVars, focoVars, buscaVars, menu, visivel, ativo, isNewMenu, remexe>>
  BY DEF SelecaoFalha, TypeMenu

\* A key or a click that selects takes an item of the list, or fails.
LEMMA SelectionCases ==
  ASSUME TypeMenu, Enter \/ \E i \in DOMAIN menu : Click(i)
  PROVE  SelecaoFalha \/ \E i \in 1..Len(menu) : Seleciona(i)
PROOF
  <1>1. DOMAIN menu = 1..Len(menu) /\ Len(menu) \in Nat
    BY MenuLength
  <1>2. CASE Enter
    <2>1. ativo > 0 => ativo \in 1..Len(menu)
      BY <1>1 DEF TypeMenu, Fora
    <2> QED
      BY <1>2, <2>1 DEF Enter
  <1>3. ASSUME NEW i \in DOMAIN menu, Click(i)
        PROVE  SelecaoFalha \/ \E j \in 1..Len(menu) : Seleciona(j)
    <2>1. CASE ativo = Fora /\ SelecaoFalha
      BY <2>1
    <2>2. CASE ativo >= 0 /\ Seleciona(IF ativo # 0 THEN ativo ELSE i)
      <3>1. (IF ativo # 0 THEN ativo ELSE i) \in 1..Len(menu)
        BY <1>1, <2>2 DEF TypeMenu, Fora
      <3> QED
        BY <2>2, <3>1
    <2> QED
      BY <1>3, <2>1, <2>2 DEF Click
  <1> QED
    BY <1>2, <1>3

LEMMA SearchType ==
  ASSUME TypeOK, search
  PROVE  TypeMenu' /\ term' = texto /\ cancelSearch' \in BOOLEAN /\ requestIndex' \in Nat
         /\ pending' \in Int /\ falhas' \in Nat /\ emVoo' \subseteq Perguntas
PROOF
  <1>1. CASE texto = Vazio /\ close /\ UNCHANGED <<pending, requestIndex, emVoo>>
    BY <1>1, ClosesList DEF search, close, TypeOK, TypeBusca
  <1>2. CASE texto # Vazio /\ _search
    <2>1. [indice |-> requestIndex + 1, tipo |-> tipo, termo |-> texto] \in Perguntas
      BY DEF TypeOK, TypeForm, TypeBusca, Perguntas
    <2>2. emVoo' \subseteq Perguntas
      BY <1>2, <2>1 DEF _search, TypeOK, TypeBusca
    <2>3. TypeMenu'
      BY <1>2 DEF _search, TypeOK, TypeMenu, menuVars
    <2>4. requestIndex' \in Nat /\ pending' \in Int
      BY <1>2 DEF _search, TypeOK, TypeBusca
    <2>5. cancelSearch' \in BOOLEAN
      BY <1>2 DEF _search
    <2> QED
      BY <2>2, <2>3, <2>4, <2>5 DEF search, TypeOK, TypeBusca
  <1> QED
    BY <1>1, <1>2 DEF search

LEMMA TypeFormStep ==
  ASSUME TypeOK, BuscaFeita, [Next]_vars
  PROVE  TypeForm'
PROOF
  <1> USE DEF formVars, focoVars, buscaVars, menuVars, TypeOK, TypeForm, TypeBusca, TypeMenu, BuscaFeita, Textos
  <1>1. CASE Digita
    BY <1>1 DEF Digita
  <1>2. CASE Tecla
    BY <1>2 DEF Tecla
  <1>3. CASE Enter \/ \E i \in DOMAIN menu : Click(i)
    BY <1>3, SelectionCases, SelectsItem, SelectionFails
  <1>4. CASE Escape
    BY <1>4, ClosesList DEF Escape, close
  <1>5. CASE \E tecla \in {"next", "previous", "nextPage", "previousPage"} : Move(tecla)
    BY <1>5, ClosesList DEF Move, search, _search, close, focusPorTecla, Destinos
  <1>6. CASE \E i \in DOMAIN menu : MouseEnter(i)
    BY <1>6 DEF MouseEnter
  <1>7. CASE \E i \in DOMAIN menu : MouseEnterParado(i)
    BY <1>7 DEF MouseEnterParado, focusPorMouse
  <1>8. CASE MouseMove
    BY <1>8 DEF MouseMove, focusPorMouse
  <1>9. CASE MouseLeave
    BY <1>9 DEF MouseLeave
  <1>10. CASE MouseDown
    BY <1>10 DEF MouseDown
  <1>11. CASE ClickFora
    BY <1>11, ClosesList DEF ClickFora, close
  <1>12. CASE Procura
    BY <1>12, ClosesList DEF Procura, search, _search, close
  <1>13. CASE Recolhe
    BY <1>13, BlurType DEF Recolhe
  <1>14. CASE DepoisDoMouseDown
    BY <1>14 DEF DepoisDoMouseDown
  <1>15. CASE \E p \in emVoo : Recebe(p)
    BY <1>15, ClosesList DEF Recebe, _suggest, refresh
  <1>16. CASE \E p \in emVoo : Falha(p)
    BY <1>16 DEF Falha
  <1>17. CASE PerdeFoco
    BY <1>17, ClosesList DEF PerdeFoco, close
  <1>18. CASE GanhaFoco
    BY <1>18 DEF GanhaFoco
  <1>19. CASE MudaTipo
    BY <1>19 DEF MudaTipo
  <1>20. CASE UNCHANGED vars
    BY <1>20 DEF vars
  <1> QED
    BY <1>1, <1>2, <1>3, <1>4, <1>5, <1>6, <1>7, <1>8, <1>9, <1>10, <1>11, <1>12, <1>13, <1>14, <1>15, <1>16, <1>17, <1>18, <1>19, <1>20 DEF Next, Teclado, Mouse, Relogio, Servidor

LEMMA TypeBuscaStep ==
  ASSUME TypeOK, BuscaFeita, [Next]_vars
  PROVE  TypeBusca'
PROOF
  <1> USE DEF formVars, focoVars, buscaVars, menuVars, TypeOK, TypeForm, TypeBusca, BuscaFeita, Textos, Perguntas, Timer
  <1>1. CASE Digita
    BY <1>1 DEF Digita
  <1>2. CASE Tecla
    BY <1>2 DEF Tecla
  <1>3. CASE Enter \/ \E i \in DOMAIN menu : Click(i)
    BY <1>3, SelectionCases, SelectsItem, SelectionFails
  <1>4. CASE Escape
    BY <1>4, ClosesList DEF Escape, close
  <1>5. CASE \E tecla \in {"next", "previous", "nextPage", "previousPage"} : Move(tecla)
    BY <1>5, SearchType DEF Move
  <1>6. CASE \E i \in DOMAIN menu : MouseEnter(i)
    BY <1>6 DEF MouseEnter
  <1>7. CASE \E i \in DOMAIN menu : MouseEnterParado(i)
    BY <1>7 DEF MouseEnterParado, focusPorMouse
  <1>8. CASE MouseMove
    BY <1>8 DEF MouseMove, focusPorMouse
  <1>9. CASE MouseLeave
    BY <1>9 DEF MouseLeave
  <1>10. CASE MouseDown
    BY <1>10 DEF MouseDown
  <1>11. CASE ClickFora
    BY <1>11, ClosesList DEF ClickFora, close
  <1>12. CASE Procura
    BY <1>12, SearchType DEF Procura
  <1>13. CASE Recolhe
    BY <1>13, BlurType DEF Recolhe
  <1>14. CASE DepoisDoMouseDown
    BY <1>14 DEF DepoisDoMouseDown
  <1>15. CASE \E p \in emVoo : Recebe(p)
    BY <1>15, ClosesList DEF Recebe, _suggest, refresh
  <1>16. CASE \E p \in emVoo : Falha(p)
    BY <1>16 DEF Falha
  <1>17. CASE PerdeFoco
    BY <1>17, ClosesList DEF PerdeFoco, close
  <1>18. CASE GanhaFoco
    BY <1>18 DEF GanhaFoco
  <1>19. CASE MudaTipo
    BY <1>19 DEF MudaTipo
  <1>20. CASE UNCHANGED vars
    BY <1>20 DEF vars
  <1> QED
    BY <1>1, <1>2, <1>3, <1>4, <1>5, <1>6, <1>7, <1>8, <1>9, <1>10, <1>11, <1>12, <1>13, <1>14, <1>15, <1>16, <1>17, <1>18, <1>19, <1>20 DEF Next, Teclado, Mouse, Relogio, Servidor

LEMMA TypeMenuStep ==
  ASSUME TypeOK, BuscaFeita, [Next]_vars
  PROVE  TypeMenu'
PROOF
  <1> USE MenuLength DEF formVars, focoVars, buscaVars, menuVars, TypeOK, TypeBusca, TypeMenu, Fora, Perguntas
  <1>1. CASE Digita
    BY <1>1 DEF Digita
  <1>2. CASE Tecla
    BY <1>2 DEF Tecla
  <1>3. CASE Enter \/ \E i \in DOMAIN menu : Click(i)
    BY <1>3, SelectionCases, SelectsItem, SelectionFails
  <1>4. CASE Escape
    BY <1>4, ClosesList DEF Escape, close
  <1>5. CASE \E tecla \in {"next", "previous", "nextPage", "previousPage"} : Move(tecla)
    <2>1. search => TypeMenu'
      BY SearchType
    <2>2. ASSUME NEW i \in 0..Len(menu), i > 0, focusPorTecla(i)
          PROVE  TypeMenu'
      BY <2>2 DEF focusPorTecla
    <2> QED
      BY <1>5, <2>1, <2>2, BlurType DEF Move, Destinos
  <1>6. CASE \E i \in DOMAIN menu : MouseEnter(i)
    <2>1. ativo' \in {Fora} \cup 0..Len(menu) /\ remexe' \in {Fora} \cup 0..Len(menu)
      BY <1>6 DEF MouseEnter
    <2>2. visivel' \in BOOLEAN /\ isNewMenu' \in BOOLEAN /\ recolhe' \in BOOLEAN /\ menu' = menu
      BY <1>6 DEF MouseEnter
    <2> QED
      BY <2>1, <2>2, SameList
  <1>7. CASE \E i \in DOMAIN menu : MouseEnterParado(i)
    <2>1. ativo' \in {Fora} \cup 0..Len(menu) /\ remexe' \in {Fora} \cup 0..Len(menu)
      BY <1>7 DEF MouseEnterParado, focusPorMouse
    <2>2. visivel' \in BOOLEAN /\ isNewMenu' \in BOOLEAN /\ recolhe' \in BOOLEAN /\ menu' = menu
      BY <1>7 DEF MouseEnterParado, focusPorMouse
    <2> QED
      BY <2>1, <2>2, SameList
  <1>8. CASE MouseMove
    <2>1. ativo' \in {Fora} \cup 0..Len(menu) /\ remexe' \in {Fora} \cup 0..Len(menu)
      BY <1>8 DEF MouseMove, focusPorMouse
    <2>2. visivel' \in BOOLEAN /\ isNewMenu' \in BOOLEAN /\ recolhe' \in BOOLEAN /\ menu' = menu
      BY <1>8 DEF MouseMove, focusPorMouse
    <2> QED
      BY <2>1, <2>2, SameList
  <1>9. CASE MouseLeave
    BY <1>9 DEF MouseLeave
  <1>10. CASE MouseDown
    BY <1>10 DEF MouseDown
  <1>11. CASE ClickFora
    BY <1>11, ClosesList DEF ClickFora, close
  <1>12. CASE Procura
    BY <1>12, ClosesList DEF Procura, search, _search, close
  <1>13. CASE Recolhe
    BY <1>13, BlurType DEF Recolhe
  <1>14. CASE DepoisDoMouseDown
    BY <1>14 DEF DepoisDoMouseDown
  <1>15. CASE \E p \in emVoo : Recebe(p)
    <2>1. ASSUME NEW p \in emVoo, NEW itens \in Respostas(p.tipo), _suggest(itens)
          PROVE  TypeMenu'
      <3>1. itens \in Seq(Itens) /\ Len(itens) \in Nat
        BY AnswerIsList
      <3> QED
        BY <2>1, <3>1 DEF _suggest, refresh
    <2> QED
      BY <1>15, <2>1, ClosesList DEF Recebe
  <1>16. CASE \E p \in emVoo : Falha(p)
    BY <1>16 DEF Falha
  <1>17. CASE PerdeFoco
    BY <1>17, ClosesList DEF PerdeFoco, close
  <1>18. CASE GanhaFoco
    BY <1>18 DEF GanhaFoco
  <1>19. CASE MudaTipo
    BY <1>19 DEF MudaTipo
  <1>20. CASE UNCHANGED vars
    BY <1>20 DEF vars
  <1> QED
    BY <1>1, <1>2, <1>3, <1>4, <1>5, <1>6, <1>7, <1>8, <1>9, <1>10, <1>11, <1>12, <1>13, <1>14, <1>15, <1>16, <1>17, <1>18, <1>19, <1>20 DEF Next, Teclado, Mouse, Relogio, Servidor

LEMMA BuscaStep ==
  ASSUME TypeOK, BuscaFeita, [Next]_vars
  PROVE  BuscaFeita'
PROOF
  <1> USE ConstantesOK DEF formVars, focoVars, buscaVars, menuVars, TypeOK, TypeForm, TypeMenu, TypeBusca, BuscaFeita, Textos
  <1>1. CASE Digita
    BY <1>1 DEF Digita
  <1>2. CASE Tecla
    BY <1>2 DEF Tecla
  <1>3. CASE Enter \/ \E i \in DOMAIN menu : Click(i)
    <2>1. SelecaoFalha => BuscaFeita'
      BY SelectionFails
    <2>2. ASSUME NEW i \in 1..Len(menu), Seleciona(i)
          PROVE  BuscaFeita'
      BY <2>2, SelectsItem
    <2> QED
      BY <1>3, <2>1, <2>2, SelectionCases
  <1>4. CASE Escape
    BY <1>4, ClosesList DEF Escape, close
  <1>5. CASE \E tecla \in {"next", "previous", "nextPage", "previousPage"} : Move(tecla)
    BY <1>5, ClosesList DEF Move, search, _search, close, focusPorTecla, Destinos
  <1>6. CASE \E i \in DOMAIN menu : MouseEnter(i)
    BY <1>6 DEF MouseEnter
  <1>7. CASE \E i \in DOMAIN menu : MouseEnterParado(i)
    BY <1>7 DEF MouseEnterParado, focusPorMouse
  <1>8. CASE MouseMove
    BY <1>8 DEF MouseMove, focusPorMouse
  <1>9. CASE MouseLeave
    BY <1>9 DEF MouseLeave
  <1>10. CASE MouseDown
    BY <1>10 DEF MouseDown
  <1>11. CASE ClickFora
    BY <1>11, ClosesList DEF ClickFora, close
  <1>12. CASE Procura
    BY <1>12, ClosesList DEF Procura, search, _search, close
  <1>13. CASE Recolhe
    BY <1>13, BlurType DEF Recolhe
  <1>14. CASE DepoisDoMouseDown
    BY <1>14 DEF DepoisDoMouseDown
  <1>15. CASE \E p \in emVoo : Recebe(p)
    BY <1>15, ClosesList DEF Recebe, _suggest, refresh
  <1>16. CASE \E p \in emVoo : Falha(p)
    BY <1>16 DEF Falha
  <1>17. CASE PerdeFoco
    BY <1>17, ClosesList DEF PerdeFoco, close
  <1>18. CASE GanhaFoco
    BY <1>18 DEF GanhaFoco
  <1>19. CASE MudaTipo
    BY <1>19 DEF MudaTipo
  <1>20. CASE UNCHANGED vars
    BY <1>20 DEF vars
  <1> QED
    BY <1>1, <1>2, <1>3, <1>4, <1>5, <1>6, <1>7, <1>8, <1>9, <1>10, <1>11, <1>12, <1>13, <1>14, <1>15, <1>16, <1>17, <1>18, <1>19, <1>20 DEF Next, Teclado, Mouse, Relogio, Servidor

LEMMA IndicesStep ==
  ASSUME TypeOK, IndicesOK, [Next]_vars
  PROVE  IndicesOK'
PROOF
  <1> USE DEF formVars, focoVars, buscaVars, menuVars, TypeOK, TypeBusca, IndicesOK, Perguntas
  <1>1. CASE Digita
    BY <1>1 DEF Digita
  <1>2. CASE Tecla
    BY <1>2 DEF Tecla
  <1>3. CASE Enter \/ \E i \in DOMAIN menu : Click(i)
    BY <1>3, SelectionCases, SelectsItem, SelectionFails
  <1>4. CASE Escape
    BY <1>4, ClosesList DEF Escape, close
  <1>5. CASE \E tecla \in {"next", "previous", "nextPage", "previousPage"} : Move(tecla)
    BY <1>5, ClosesList DEF Move, search, _search, close, focusPorTecla, Destinos
  <1>6. CASE \E i \in DOMAIN menu : MouseEnter(i)
    BY <1>6 DEF MouseEnter
  <1>7. CASE \E i \in DOMAIN menu : MouseEnterParado(i)
    BY <1>7 DEF MouseEnterParado, focusPorMouse
  <1>8. CASE MouseMove
    BY <1>8 DEF MouseMove, focusPorMouse
  <1>9. CASE MouseLeave
    BY <1>9 DEF MouseLeave
  <1>10. CASE MouseDown
    BY <1>10 DEF MouseDown
  <1>11. CASE ClickFora
    BY <1>11, ClosesList DEF ClickFora, close
  <1>12. CASE Procura
    BY <1>12, ClosesList DEF Procura, search, _search, close
  <1>13. CASE Recolhe
    BY <1>13, BlurType DEF Recolhe
  <1>14. CASE DepoisDoMouseDown
    BY <1>14 DEF DepoisDoMouseDown
  <1>15. CASE \E p \in emVoo : Recebe(p)
    BY <1>15, ClosesList DEF Recebe, _suggest, refresh
  <1>16. CASE \E p \in emVoo : Falha(p)
    BY <1>16 DEF Falha
  <1>17. CASE PerdeFoco
    BY <1>17, ClosesList DEF PerdeFoco, close
  <1>18. CASE GanhaFoco
    BY <1>18 DEF GanhaFoco
  <1>19. CASE MudaTipo
    BY <1>19 DEF MudaTipo
  <1>20. CASE UNCHANGED vars
    BY <1>20 DEF vars
  <1> QED
    BY <1>1, <1>2, <1>3, <1>4, <1>5, <1>6, <1>7, <1>8, <1>9, <1>10, <1>11, <1>12, <1>13, <1>14, <1>15, <1>16, <1>17, <1>18, <1>19, <1>20 DEF Next, Teclado, Mouse, Relogio, Servidor

LEMMA QuietoStep ==
  ASSUME TypeOK, SemFocoQuieto, [Next]_vars
  PROVE  SemFocoQuieto'
PROOF
  <1> USE DEF formVars, focoVars, buscaVars, menuVars, TypeOK, TypeForm, TypeBusca, SemFocoQuieto, PerguntaAtual, Perguntas
  <1>1. CASE Digita
    BY <1>1 DEF Digita
  <1>2. CASE Tecla
    BY <1>2 DEF Tecla
  <1>3. CASE Enter \/ \E i \in DOMAIN menu : Click(i)
    BY <1>3, SelectionCases, SelectsItem, SelectionFails
  <1>4. CASE Escape
    BY <1>4, ClosesList DEF Escape, close
  <1>5. CASE \E tecla \in {"next", "previous", "nextPage", "previousPage"} : Move(tecla)
    BY <1>5, ClosesList DEF Move, search, _search, close, focusPorTecla, Destinos
  <1>6. CASE \E i \in DOMAIN menu : MouseEnter(i)
    BY <1>6 DEF MouseEnter
  <1>7. CASE \E i \in DOMAIN menu : MouseEnterParado(i)
    BY <1>7 DEF MouseEnterParado, focusPorMouse
  <1>8. CASE MouseMove
    BY <1>8 DEF MouseMove, focusPorMouse
  <1>9. CASE MouseLeave
    BY <1>9 DEF MouseLeave
  <1>10. CASE MouseDown
    BY <1>10 DEF MouseDown
  <1>11. CASE ClickFora
    BY <1>11, ClosesList DEF ClickFora, close
  <1>12. CASE Procura
    BY <1>12, ClosesList DEF Procura, search, _search, close
  <1>13. CASE Recolhe
    BY <1>13, BlurType DEF Recolhe
  <1>14. CASE DepoisDoMouseDown
    BY <1>14 DEF DepoisDoMouseDown
  <1>15. CASE \E p \in emVoo : Recebe(p)
    BY <1>15, ClosesList DEF Recebe, _suggest, refresh
  <1>16. CASE \E p \in emVoo : Falha(p)
    BY <1>16 DEF Falha
  <1>17. CASE PerdeFoco
    BY <1>17, ClosesList DEF PerdeFoco, close
  <1>18. CASE GanhaFoco
    BY <1>18 DEF GanhaFoco
  <1>19. CASE MudaTipo
    BY <1>19 DEF MudaTipo
  <1>20. CASE UNCHANGED vars
    BY <1>20 DEF vars
  <1> QED
    BY <1>1, <1>2, <1>3, <1>4, <1>5, <1>6, <1>7, <1>8, <1>9, <1>10, <1>11, <1>12, <1>13, <1>14, <1>15, <1>16, <1>17, <1>18, <1>19, <1>20 DEF Next, Teclado, Mouse, Relogio, Servidor

LEMMA InitBase == Init => BaseInv
PROOF
  <1> SUFFICES ASSUME Init PROVE BaseInv
    OBVIOUS
  <1>1. TypeForm
    BY ConstantesOK DEF Init, TypeForm, Textos, Itens
  <1>2. TypeBusca
    <2>1. requestIndex \in Nat /\ pending \in Int /\ falhas \in Nat /\ emVoo \subseteq Perguntas
      BY DEF Init
    <2>2. searching \in Timer /\ term \in Textos \cup {Nada} /\ cancelSearch \in BOOLEAN
      BY DEF Init, Timer
    <2> QED
      BY <2>1, <2>2 DEF TypeBusca
  <1>3. menu \in Seq(Itens) /\ Len(menu) = 0
    BY DEF Init
  <1>4. TypeMenu
    <2>1. ativo \in {Fora} \cup 0..Len(menu) /\ remexe \in {Fora} \cup 0..Len(menu)
      BY <1>3 DEF Init
    <2>2. visivel \in BOOLEAN /\ isNewMenu \in BOOLEAN /\ recolhe \in BOOLEAN
      BY DEF Init
    <2> QED
      BY <1>3, <2>1, <2>2 DEF TypeMenu
  <1> QED
    BY <1>1, <1>2, <1>4 DEF Init, BaseInv, TypeOK, BuscaFeita, IndicesOK, SemFocoQuieto,
       PerguntaAtual

\* BaseInv always holds: the four parts are preserved by every step.
THEOREM BaseCorrect == Spec => []BaseInv
PROOF
  <1>1. Init => BaseInv
    BY InitBase
  <1>2. BaseInv /\ [Next]_vars => BaseInv'
    BY TypeFormStep, TypeBuscaStep, TypeMenuStep, BuscaStep, IndicesStep, QuietoStep
    DEF BaseInv, TypeOK
  <1> QED
    BY <1>1, <1>2, PTL DEF Spec

\* The state of the page and the widget is always well formed: in particular
\* the active item is in the list, or is an item that has left it.
THEOREM TypeCorrect == Spec => []TypeOK
  BY BaseCorrect, PTL DEF BaseInv

\* No answer, however late, opens the list over another field.
THEOREM ListNeedsFocus == Spec => []MenuSoComFoco
PROOF
  <1>1. BaseInv => MenuSoComFoco
    BY DEF BaseInv, SemFocoQuieto, MenuSoComFoco, TypeOK, TypeForm, TypeMenu
  <1> QED
    BY <1>1, BaseCorrect, PTL

----------------------------------------------------------------------------
(* The count of pending questions *)

PendenteInv == BaseInv /\ IsFiniteSet(emVoo) /\ PendenteConta

\* A question enters or leaves emVoo exactly when it is counted.
LEMMA PendingStep ==
  ASSUME PendenteInv, [Next]_vars
  PROVE  IsFiniteSet(emVoo)' /\ PendenteConta'
PROOF
  <1> USE DEF PendenteInv, PendenteConta
  <1>1. Cardinality(emVoo) \in Nat /\ pending \in Int /\ falhas \in Nat
    BY FS_CardinalityType DEF BaseInv, TypeOK, TypeBusca
  <1>2. CASE UNCHANGED <<emVoo, pending, falhas>>
    BY <1>2
  <1>3. ASSUME search
        PROVE  IsFiniteSet(emVoo)' /\ PendenteConta'
    <2>1. CASE UNCHANGED <<pending, emVoo>>
      BY <1>3, <2>1 DEF search
    <2>2. CASE _search
      <3> DEFINE p == [indice |-> requestIndex + 1, tipo |-> tipo, termo |-> texto]
      <3>1. p \notin emVoo
        BY DEF BaseInv, IndicesOK, TypeOK, TypeBusca
      <3>2. IsFiniteSet(emVoo') /\ Cardinality(emVoo') = Cardinality(emVoo) + 1
        BY <2>2, <3>1, FS_AddElement DEF _search
      <3> QED
        BY <1>1, <1>3, <2>2, <3>2 DEF search, _search
    <2> QED
      BY <1>3, <2>1, <2>2 DEF search
  <1>4. ASSUME NEW p \in emVoo
        PROVE  IsFiniteSet(emVoo \ {p}) /\ Cardinality(emVoo \ {p}) = Cardinality(emVoo) - 1
    BY FS_RemoveElement
  <1>5. ASSUME NEW p \in emVoo, Recebe(p)
        PROVE  IsFiniteSet(emVoo)' /\ PendenteConta'
    BY <1>1, <1>4, <1>5 DEF Recebe
  <1>6. ASSUME NEW p \in emVoo, Falha(p)
        PROVE  IsFiniteSet(emVoo)' /\ PendenteConta'
    BY <1>1, <1>4, <1>6 DEF Falha
  <1>7. CASE Procura
    BY <1>2, <1>3, <1>7 DEF Procura
  <1>8. CASE \E tecla \in {"next", "previous", "nextPage", "previousPage"} : Move(tecla)
    BY <1>2, <1>3, <1>8 DEF Move, buscaVars
  <1>9. CASE Enter \/ \E i \in DOMAIN menu : Click(i)
    BY <1>2, <1>9 DEF Enter, Click, Seleciona, SelecaoFalha, buscaVars
  <1> QED
    BY <1>2, <1>5, <1>6, <1>7, <1>8, <1>9
    DEF Next, Teclado, Mouse, Relogio, Servidor, vars, buscaVars, Digita, Tecla, Escape,
        MouseEnter, MouseEnterParado, MouseMove, MouseLeave, MouseDown, ClickFora, Recolhe,
        DepoisDoMouseDown, PerdeFoco, GanhaFoco, MudaTipo

\* The field shows that it is loading exactly while a question is in flight or
\* was lost, however the answers overtake each other.
THEOREM PendingCounts == Spec => []PendenteConta
PROOF
  <1>1. Init => PendenteInv
    BY InitBase, FS_EmptySet DEF Init, PendenteInv, PendenteConta
  <1>2. PendenteInv /\ [Next]_vars => PendenteInv'
    BY PendingStep, TypeFormStep, TypeBuscaStep, TypeMenuStep, BuscaStep, IndicesStep,
       QuietoStep
    DEF PendenteInv, BaseInv, TypeOK
  <1>3. PendenteInv => PendenteConta
    BY DEF PendenteInv
  <1> QED
    BY <1>1, <1>2, <1>3, PTL DEF Spec

----------------------------------------------------------------------------
(* The type of the customer, and the contract, for a mouse that moves *)

\* A selection takes an item of the list that is shown, and closes it.
LEMMA SelectionTakesShown ==
  ASSUME TipoInv, Enter \/ \E i \in DOMAIN menu : Click(i)
  PROVE  /\ visivel /\ _close /\ cancelSearch' = TRUE
         /\ \E i \in DOMAIN menu : id' = menu[i]
         /\ UNCHANGED <<tipo, requestIndex, emVoo>>
PROOF
  <1> USE DEF TipoInv, SoAtivoSeVisivel
  <1>1. ativo # Fora /\ ativo \in {Fora} \cup 0..Len(menu)
    BY MenuLength DEF BaseInv, TypeOK, TypeMenu, Fora
  <1>2. ASSUME NEW i \in DOMAIN menu, Seleciona(i), visivel
        PROVE  /\ _close /\ cancelSearch' = TRUE /\ id' = menu[i]
               /\ UNCHANGED <<tipo, requestIndex, emVoo>>
    BY <1>2 DEF Seleciona
  <1>3. CASE Enter
    <2>1. ativo > 0 /\ Seleciona(ativo)
      BY <1>1, <1>3 DEF Enter
    <2>2. visivel /\ ativo \in DOMAIN menu
      BY <2>1
    <2> QED
      BY <1>2, <2>1, <2>2
  <1>4. ASSUME NEW i \in DOMAIN menu, Click(i)
        PROVE  visivel /\ \E j \in DOMAIN menu : Seleciona(j)
    <2>1. visivel /\ Seleciona(IF ativo # 0 THEN ativo ELSE i)
      BY <1>1, <1>4 DEF Click
    <2>2. (IF ativo # 0 THEN ativo ELSE i) \in DOMAIN menu
      OBVIOUS
    <2> QED
      BY <2>1, <2>2
  <1> QED
    BY <1>2, <1>3, <1>4

\* The shape of a step that closes the list.
LEMMA CloseKeepsType ==
  ASSUME TipoInv, _close, cancelSearch' = TRUE, tipo' = tipo,
         id' # Nada => id' \in Sugestoes[tipo]
  PROVE  TudoDoTipo' /\ SoAtivoSeVisivel'
PROOF
  <1>1. visivel' = FALSE
    BY ClosesList DEF TipoInv, BaseInv, TypeOK, TypeMenu, _close, menuVars
  <1>2. TudoDoTipo'
    BY <1>1 DEF TudoDoTipo, IdDoTipo
  <1>3. SoAtivoSeVisivel'
    BY <1>1 DEF TipoInv, SoAtivoSeVisivel, _close, blur, menuVars
  <1> QED
    BY <1>2, <1>3

\* A search asks about the selected type, and nothing older is the last question.
LEMMA SearchKeepsType ==
  ASSUME TipoInv, search, UNCHANGED <<tipo, id>>
  PROVE  TudoDoTipo' /\ SoAtivoSeVisivel'
PROOF
  <1>1. CASE texto = Vazio /\ close
    BY <1>1, CloseKeepsType DEF close, TipoInv, TudoDoTipo, IdDoTipo
  <1>2. CASE _search
    <2>1. PerguntaAtual' = {[indice |-> requestIndex + 1, tipo |-> tipo, termo |-> texto]}
      BY <1>2 DEF _search, PerguntaAtual, TipoInv, BaseInv, IndicesOK, TypeOK, TypeBusca
    <2>2. UNCHANGED menuVars
      BY <1>2 DEF _search
    <2> QED
      BY <2>1, <2>2 DEF TipoInv, TudoDoTipo, IdDoTipo, SoAtivoSeVisivel, menuVars
  <1> QED
    BY <1>1, <1>2 DEF search

LEMMA TipoStep ==
  ASSUME ~RatoParado, TipoInv, [Next]_vars
  PROVE  TudoDoTipo' /\ SoAtivoSeVisivel'
PROOF
  <1> USE DEF TipoInv
  <1>1. ASSUME UNCHANGED <<tipo, id, visivel, menu, cancelSearch, requestIndex, emVoo, remexe>>,
               ativo' # 0 => visivel /\ ativo' \in DOMAIN menu
        PROVE  TudoDoTipo' /\ SoAtivoSeVisivel'
    BY <1>1 DEF TudoDoTipo, SoAtivoSeVisivel, PerguntaAtual, IdDoTipo
  <1>2. CASE Digita \/ Tecla \/ MouseLeave \/ MouseDown \/ DepoisDoMouseDown \/ GanhaFoco
             \/ UNCHANGED vars
    <2>1. UNCHANGED <<tipo, id, visivel, menu, cancelSearch, requestIndex, emVoo, remexe, ativo>>
      BY <1>2 DEF Digita, Tecla, MouseLeave, MouseDown, DepoisDoMouseDown, GanhaFoco, vars,
         formVars, focoVars, buscaVars, menuVars
    <2> QED
      BY <1>1, <2>1 DEF SoAtivoSeVisivel
  <1>3. CASE Recolhe \/ \E i \in DOMAIN menu : MouseEnter(i)
    <2>1. UNCHANGED <<tipo, id, visivel, menu, cancelSearch, requestIndex, emVoo, remexe>>
      BY <1>3 DEF Recolhe, MouseEnter, formVars, focoVars, buscaVars
    <2>2. ativo' # 0 => visivel /\ ativo' \in DOMAIN menu
      BY <1>3 DEF Recolhe, MouseEnter, blur
    <2> QED
      BY <1>1, <2>1, <2>2
  <1>4. CASE Enter \/ \E i \in DOMAIN menu : Click(i)
    <2>1. id' \in Sugestoes[tipo]
      BY <1>4, SelectionTakesShown DEF TudoDoTipo
    <2> QED
      BY <1>4, <2>1, SelectionTakesShown, CloseKeepsType
  <1>5. CASE Escape \/ ClickFora \/ PerdeFoco
    BY <1>5, CloseKeepsType DEF Escape, ClickFora, PerdeFoco, close, formVars, TudoDoTipo, IdDoTipo
  <1>6. ASSUME NEW tecla, Move(tecla)
        PROVE  TudoDoTipo' /\ SoAtivoSeVisivel'
    <2>1. CASE search
      BY <1>6, <2>1, SearchKeepsType DEF Move
    <2>2. ASSUME visivel, NEW i \in Destinos(tecla), i > 0, focusPorTecla(i), UNCHANGED buscaVars
          PROVE  TudoDoTipo' /\ SoAtivoSeVisivel'
      <3>1. i \in 0..Len(menu)
        BY DEF Destinos
      <3>2. i \in DOMAIN menu
        BY <2>2, <3>1, MenuLength DEF BaseInv, TypeOK
      <3> QED
        BY <1>1, <1>6, <2>2, <3>2 DEF Move, focusPorTecla, buscaVars
    <2>3. CASE blur /\ UNCHANGED <<menu, visivel, isNewMenu, remexe>> /\ UNCHANGED buscaVars
      BY <1>1, <1>6, <2>3 DEF Move, blur, buscaVars
    <2> QED
      BY <1>6, <2>1, <2>2, <2>3 DEF Move
  <1>7. CASE Procura
    <2>1. CASE search
      BY <1>7, <2>1, SearchKeepsType DEF Procura, formVars
    <2>2. CASE UNCHANGED <<requestIndex, emVoo, cancelSearch, menuVars>>
      BY <1>1, <1>7, <2>2 DEF Procura, formVars, menuVars, SoAtivoSeVisivel
    <2> QED
      BY <1>7, <2>1, <2>2 DEF Procura
  <1>8. ASSUME NEW p \in emVoo, Recebe(p)
        PROVE  TudoDoTipo' /\ SoAtivoSeVisivel'
    <2>1. PerguntaAtual' \subseteq PerguntaAtual /\ UNCHANGED <<tipo, id, cancelSearch>>
      BY <1>8 DEF Recebe, PerguntaAtual, formVars
    <2>2. ASSUME NEW itens \in Respostas(p.tipo), p.indice = requestIndex, ~cancelSearch,
                 _suggest(itens)
          PROVE  TudoDoTipo' /\ SoAtivoSeVisivel'
      <3>1. p.tipo = tipo
        BY <2>2 DEF TudoDoTipo, PerguntaAtual
      <3>2. \A i \in DOMAIN itens : itens[i] \in Sugestoes[tipo]
        BY <3>1, AnswerIsList DEF BaseInv, TypeOK, TypeForm
      <3> QED
        BY <2>1, <2>2, <3>2 DEF TudoDoTipo, IdDoTipo, SoAtivoSeVisivel, _suggest, refresh
    <2>3. ASSUME _close
          PROVE  TudoDoTipo' /\ SoAtivoSeVisivel'
      <3>1. visivel' = FALSE /\ (ativo' = 0 \/ UNCHANGED <<ativo, visivel, menu>>) /\ remexe' = remexe
        BY <2>3, ClosesList DEF BaseInv, TypeOK, TypeMenu, _close, blur, menuVars
      <3> QED
        BY <2>1, <3>1 DEF TudoDoTipo, IdDoTipo, SoAtivoSeVisivel
    <2>4. CASE UNCHANGED menuVars
      BY <2>1, <2>4 DEF TudoDoTipo, IdDoTipo, SoAtivoSeVisivel, menuVars
    <2> QED
      BY <1>8, <2>2, <2>3, <2>4 DEF Recebe
  <1>9. ASSUME NEW p \in emVoo, Falha(p)
        PROVE  TudoDoTipo' /\ SoAtivoSeVisivel'
    BY <1>9 DEF Falha, PerguntaAtual, TudoDoTipo, IdDoTipo, SoAtivoSeVisivel, formVars, menuVars
  <1>10. CASE MudaTipo
    <2>1. ~visivel /\ (cancelSearch \/ PerguntaAtual = {})
      BY <1>10 DEF MudaTipo, BaseInv, SemFocoQuieto
    <2> QED
      BY <1>10, <2>1 DEF MudaTipo, TudoDoTipo, IdDoTipo, SoAtivoSeVisivel, PerguntaAtual,
         buscaVars, menuVars
  <1>11. ~MouseMove /\ ~ \E i \in DOMAIN menu : MouseEnterParado(i)
    BY DEF MouseMove, MouseEnterParado, SoAtivoSeVisivel
  <1> QED
    BY <1>2, <1>3, <1>4, <1>5, <1>6, <1>7, <1>8, <1>9, <1>10, <1>11
    DEF Next, Teclado, Mouse, Relogio, Servidor

LEMMA TipoCorrect ==
  ASSUME ~RatoParado
  PROVE  Spec => []TipoInv
PROOF
  <1>1. Init => TipoInv
    BY InitBase, ConstantesOK
    DEF Init, TipoInv, TudoDoTipo, SoAtivoSeVisivel, IdDoTipo, PerguntaAtual
  <1>2. TipoInv /\ [Next]_vars => TipoInv'
    BY TipoStep, TypeFormStep, TypeBuscaStep, TypeMenuStep, BuscaStep, IndicesStep, QuietoStep
    DEF TipoInv, BaseInv, TypeOK
  <1> QED
    BY <1>1, <1>2, PTL DEF Spec

\* The id that the form sends belongs to the selected type of customer, if the
\* list does not open under a mouse at rest (with one it may not: the run
\* autocompletar_enter).
THEOREM IdOfType ==
  ASSUME ~RatoParado
  PROVE  Spec => []IdDoTipo
  BY TipoCorrect, PTL DEF TipoInv, TudoDoTipo

----------------------------------------------------------------------------
(* The contract *)

\* What the field offers and asks, as SugestaoContrato sees it.
ofertaBar == IF visivel THEN {menu[i] : i \in DOMAIN menu} ELSE {}

perguntaBar ==
  IF cancelSearch \/ PerguntaAtual = {} THEN Nada
  ELSE (CHOOSE p \in PerguntaAtual : TRUE).tipo

\* The question to be answered is always about the selected type.
LEMMA AskedType ==
  ASSUME TipoInv
  PROVE  perguntaBar = IF cancelSearch \/ PerguntaAtual = {} THEN Nada ELSE tipo
  BY DEF TipoInv, TudoDoTipo, perguntaBar

LEMMA ClosingStep ==
  ASSUME TipoInv, _close, cancelSearch' = TRUE, UNCHANGED <<tipo, id>>
  PROVE  Contrato!Fecha
PROOF
  <1>1. ~visivel'
    BY ClosesList DEF TipoInv, BaseInv, TypeOK
  <1> QED
    BY <1>1 DEF Contrato!Fecha

LEMMA SearchingStep ==
  ASSUME TipoInv, TipoInv', search, UNCHANGED <<tipo, id>>
  PROVE  Contrato!Fecha \/ Contrato!Pergunta
PROOF
  <1>1. CASE texto = Vazio /\ close
    BY <1>1, ClosingStep DEF close
  <1>2. CASE _search
    <2> DEFINE p == [indice |-> requestIndex + 1, tipo |-> tipo, termo |-> texto]
    <2>4. p \in emVoo' /\ p.indice = requestIndex' /\ ~cancelSearch'
      BY <1>2 DEF _search
    <2>1. PerguntaAtual' # {} /\ ~cancelSearch'
      BY <2>4 DEF PerguntaAtual
    <2>2. perguntaBar' = tipo
      BY <2>1 DEF TipoInv, TudoDoTipo, perguntaBar
    <2>3. UNCHANGED menuVars
      BY <1>2 DEF _search
    <2> QED
      BY <2>2, <2>3 DEF Contrato!Pergunta, perguntaBar, menuVars
  <1> QED
    BY <1>1, <1>2 DEF search

\* Steps that change neither what is offered nor what is asked.
LEMMA StutteringStep ==
  ASSUME UNCHANGED <<tipo, id, visivel, menu, cancelSearch, PerguntaAtual>>
  PROVE  UNCHANGED Contrato!vars
  BY DEF Contrato!vars

LEMMA ContractStep ==
  ASSUME ~RatoParado, TipoInv, TipoInv', [Next]_vars
  PROVE  [Contrato!Next]_(Contrato!vars)
PROOF
  <1> USE DEF Contrato!Next
  <1>1. ASSUME UNCHANGED <<tipo, id, visivel, menu, cancelSearch, requestIndex, emVoo>>
        PROVE  UNCHANGED Contrato!vars
    BY <1>1, StutteringStep DEF PerguntaAtual
  <1>2. CASE Digita \/ Tecla \/ MouseLeave \/ MouseDown \/ DepoisDoMouseDown \/ GanhaFoco
             \/ UNCHANGED vars
    BY <1>1, <1>2 DEF Digita, Tecla, MouseLeave, MouseDown, DepoisDoMouseDown, GanhaFoco, vars,
       formVars, focoVars, buscaVars, menuVars
  <1>3. CASE Recolhe \/ \E i \in DOMAIN menu : MouseEnter(i)
    BY <1>1, <1>3 DEF Recolhe, MouseEnter, formVars, focoVars, buscaVars
  <1>4. CASE Enter \/ \E i \in DOMAIN menu : Click(i)
    <2>1. id' \in ofertaBar /\ ~visivel' /\ cancelSearch' /\ tipo' = tipo
      BY <1>4, SelectionTakesShown, ClosesList DEF ofertaBar, TipoInv, BaseInv, TypeOK
    <2> QED
      BY <2>1 DEF Contrato!Escolhe, ofertaBar
  <1>5. CASE Escape \/ ClickFora \/ PerdeFoco
    BY <1>5, ClosingStep DEF Escape, ClickFora, PerdeFoco, close, formVars
  <1>6. ASSUME NEW tecla, Move(tecla)
        PROVE  [Contrato!Next]_(Contrato!vars)
    <2>1. CASE search
      BY <1>6, <2>1, SearchingStep DEF Move
    <2>2. CASE visivel /\ UNCHANGED <<menu, visivel>> /\ UNCHANGED buscaVars
      BY <1>1, <1>6, <2>2 DEF Move, buscaVars
    <2> QED
      BY <1>6, <2>1, <2>2 DEF Move, focusPorTecla
  <1>7. CASE Procura
    <2>1. CASE search
      BY <1>7, <2>1, SearchingStep DEF Procura, formVars
    <2>2. CASE UNCHANGED <<requestIndex, emVoo, cancelSearch, menuVars>>
      BY <1>1, <1>7, <2>2 DEF Procura, formVars, menuVars
    <2> QED
      BY <1>7, <2>1, <2>2 DEF Procura
  <1>8. ASSUME NEW p \in emVoo, p.indice # requestIndex, emVoo' = emVoo \ {p},
               UNCHANGED <<tipo, id, visivel, menu, cancelSearch, requestIndex>>
        PROVE  UNCHANGED Contrato!vars
    <2>1. PerguntaAtual' = PerguntaAtual
      BY <1>8 DEF PerguntaAtual
    <2> QED
      BY <1>8, <2>1, StutteringStep
  <1>9. ASSUME NEW p \in emVoo, p.indice = requestIndex, emVoo' = emVoo \ {p},
               UNCHANGED requestIndex
        PROVE  PerguntaAtual' = {} /\ p \in PerguntaAtual
    BY <1>9 DEF PerguntaAtual, TipoInv, BaseInv, IndicesOK
  <1>10. ASSUME NEW p \in emVoo, Recebe(p)
         PROVE  [Contrato!Next]_(Contrato!vars)
    <2>1. CASE p.indice # requestIndex
      BY <1>8, <1>10, <2>1 DEF Recebe, formVars, menuVars
    <2>2. CASE p.indice = requestIndex /\ cancelSearch
      BY <1>10, <2>2, ClosingStep DEF Recebe, formVars
    <2>3. CASE p.indice = requestIndex /\ ~cancelSearch
      <3>1. PerguntaAtual' = {} /\ p \in PerguntaAtual
        BY <1>9, <1>10, <2>3 DEF Recebe
      <3>2. p.tipo = tipo /\ tipo \in Tipos
        BY <2>3, <3>1 DEF TipoInv, TudoDoTipo, BaseInv, TypeOK, TypeForm
      <3>3. perguntaBar = tipo /\ perguntaBar # Nada
        BY <2>3, <3>1, <3>2, AskedType, ConstantesOK
      <3>4. ofertaBar' \subseteq Sugestoes[tipo]
        <4>1. CASE _close
          BY <4>1, ClosesList DEF ofertaBar, TipoInv, BaseInv, TypeOK
        <4>2. ASSUME NEW itens \in Respostas(p.tipo), _suggest(itens)
              PROVE  ofertaBar' \subseteq Sugestoes[tipo]
          <5>1. \A i \in DOMAIN itens : itens[i] \in Sugestoes[tipo]
            BY <3>2, AnswerIsList
          <5> QED
            BY <4>2, <5>1 DEF _suggest, ofertaBar
        <4> QED
          BY <1>10, <2>3, <4>1, <4>2 DEF Recebe
      <3>5. UNCHANGED <<tipo, id>>
        BY <1>10 DEF Recebe, formVars
      <3> QED
        BY <3>1, <3>3, <3>4, <3>5 DEF Contrato!Responde, ofertaBar, perguntaBar
    <2> QED
      BY <2>1, <2>2, <2>3
  <1>11. ASSUME NEW p \in emVoo, Falha(p)
         PROVE  [Contrato!Next]_(Contrato!vars)
    <2>1. CASE p.indice # requestIndex
      BY <1>8, <1>11, <2>1 DEF Falha, formVars, menuVars
    <2>2. CASE p.indice = requestIndex
      BY <1>9, <1>11, <2>2 DEF Falha, Contrato!Desiste, formVars, menuVars
    <2> QED
      BY <2>1, <2>2
  <1>12. CASE MudaTipo
    <2>1. ~visivel /\ (cancelSearch \/ PerguntaAtual = {})
      BY <1>12 DEF MudaTipo, TipoInv, BaseInv, SemFocoQuieto
    <2>2. ~visivel' /\ (cancelSearch' \/ PerguntaAtual' = {}) /\ tipo' \in Tipos /\ id' = Nada
      BY <1>12, <2>1 DEF MudaTipo, PerguntaAtual, buscaVars, menuVars
    <2> QED
      BY <2>1, <2>2 DEF Contrato!MudaTipo
  <1>13. ~MouseMove /\ ~ \E i \in DOMAIN menu : MouseEnterParado(i)
    BY DEF MouseMove, MouseEnterParado, TipoInv, SoAtivoSeVisivel
  <1> QED
    BY <1>2, <1>3, <1>4, <1>5, <1>6, <1>7, <1>10, <1>11, <1>12, <1>13
    DEF Next, Teclado, Mouse, Relogio, Servidor

\* The widget, with its timers and its questions in flight, implements the
\* contract of a field with one question.
THEOREM ContractKept ==
  ASSUME ~RatoParado
  PROVE  Spec => KeepsPromise
PROOF
  <1>1. Init => Contrato!Init
    BY DEF Init, Contrato!Init, PerguntaAtual
  <1>2. TipoInv /\ TipoInv' /\ [Next]_vars => [Contrato!Next]_(Contrato!vars)
    BY ContractStep
  <1> QED
    BY <1>1, <1>2, TipoCorrect, PTL DEF Spec, KeepsPromise, Contrato!Spec

=============================================================================
