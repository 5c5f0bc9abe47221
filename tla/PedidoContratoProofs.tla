------------------------ MODULE PedidoContratoProofs ------------------------
(***************************************************************************)
(* With one tab the order form keeps its promise: PedidoSession implements *)
(* PedidoContrato, for any number of products, orders and answers.         *)
(*                                                                         *)
(* What the tab edits accounts for every row of the order its form names:  *)
(* each row is held by the list, under the order's key, or listed among    *)
(* the removed ones.  So a save replaces the rows by the list, whole.      *)
(***************************************************************************)
EXTENDS PedidoSessionProofs, FiniteSetTheorems, WellFoundedInduction

----------------------------------------------------------------------------
(* The total of an empty list *)

\* An empty list adds up to zero.
LEMMA SomaDaVazia ==
  Soma(Vazia) = 0
<1> DEFINE x(s) == CHOOSE p \in s : TRUE
           Passo(g) == [s \in SUBSET Produtos |-> IF s = {} THEN 0 ELSE Vazia[x(s)] + g[s \ {x(s)}]]
           G == CHOOSE g : g = Passo(g)
           Zero == [s \in SUBSET Produtos |-> 0]
<1>1. Soma(Vazia) = G[Produtos]
  <2>1. DOMAIN Vazia = Produtos
    BY DEF Vazia
  <2> QED
    BY <2>1, Zenon DEF Soma, FoldFunction, FoldFunctionOnSet, MapThenFoldSet
<1>2. \A s \in SUBSET Produtos : s # {} => x(s) \in s /\ Vazia[x(s)] = 0
  BY DEF Vazia
<1> HIDE DEF x
<1>3. G = Passo(G)
  <2>1. Zero = Passo(Zero)
    BY <1>2
  <2> HIDE DEF Passo, Zero
  <2> QED
    BY <2>1
<1> HIDE DEF G
<1>4. \A s \in SUBSET Produtos : G[s] = 0
  <2> DEFINE C == {s \in SUBSET Produtos : G[s] # 0}
  <2> SUFFICES ASSUME C # {} PROVE FALSE
    OBVIOUS
  <2>1. C \subseteq FiniteSubsetsOf(Produtos)
    BY ConstantesOK, FS_Subset DEF FiniteSubsetsOf
  <2>2. PICK m \in C : \A s \in C : ~(<<s, m>> \in StrictSubsetOrdering(Produtos))
    <3> HIDE DEF C
    <3> QED
      BY <2>1, FS_StrictSubsetOrderingWellFounded, WFMin
  <2>0. m \in SUBSET Produtos /\ G[m] # 0
    OBVIOUS
  <2>3. m # {}
    BY <1>3
  <2>4. x(m) \in m /\ Vazia[x(m)] = 0
    BY <1>2, <2>3
  <2>5. <<m \ {x(m)}, m>> \in StrictSubsetOrdering(Produtos)
    BY <2>4 DEF StrictSubsetOrdering
  <2>6. G[m \ {x(m)}] = 0
    BY <2>2, <2>5
  <2>7. G[m] = Vazia[x(m)] + G[m \ {x(m)}]
    <3>1. Passo(G)[m] = Vazia[x(m)] + G[m \ {x(m)}]
      BY <2>0, <2>3
    <3> QED
      BY <1>3, <3>1
  <2> QED
    BY <2>0, <2>4, <2>6, <2>7
<1> QED
  BY <1>1, <1>4

\* A list that can be saved is not empty: its total is positive.
LEMMA SalvaNaoVazia ==
  ASSUME NEW total \in Totais, NEW lista \in Listas, verificaQuantidadeAndCusto(total, lista)
  PROVE  lista # Vazia
<1> SUFFICES ASSUME lista = Vazia PROVE FALSE
  OBVIOUS
<1>1. MeioShort \in Nat /\ MeioShort > 0
  BY ConstantesOK
<1>2. (0 + MeioShort) % (2 * MeioShort) = MeioShort
  BY <1>1
<1>3. getQuantidadeTotal(Vazia) = 0
  BY <1>1, <1>2, SomaDaVazia DEF getQuantidadeTotal, ToShort
<1>4. total = 0 /\ total # Nulo
  BY <1>3 DEF verificaQuantidadeAndCusto
<1>5. \A n : setPedido(n) # 0
  <2>1. Nulo # 0
    BY ConstantesOK
  <2> QED
    BY <2>1 DEF setPedido
<1> QED
  BY <1>4, <1>5 DEF Totais

----------------------------------------------------------------------------
(* The invariant of a single tab *)

UmaAba == \A a, b \in Abas : a = b

\* Each row of the order is held by the list, under the order's key, or removed.
RespondePor(linhas, f, id) ==
  \A p \in Produtos : linhas[p] > 0 =>
    (f.itens[p] > 0 /\ f.dono[p] = id) \/ <<id, p>> \in Range(f.removedItens)

PaginaPrestaContas(a) ==
  /\ form[a].pagina = "create" => form[a].pedido = Nulo
  /\ form[a].pagina = "edit" /\ facade[Sessao[a]].criada
       => RespondePor(pedido_item[form[a].pedido], facade[Sessao[a]], form[a].pedido)

Contas == manchados = {} /\ \A a \in Abas : PaginaPrestaContas(a)

\* The inductive invariant of a single tab.
UmaAbaInv == TypeOK /\ ListInv /\ Contas

LEMMA UmaAbaEUmaPorSessao == UmaAba => UmaAbaCadaSessao
  BY DEF UmaAba, UmaAbaCadaSessao

LEMMA CampoDoBean ==
  ASSUME NEW a \in Abas, TypeOK
  PROVE  Sessao[a] \in Sessoes /\ facade[Sessao[a]] \in Facade /\ form[a] \in Forms
  BY ConstantesOK DEF TypeOK

\* The list of a page that accounts for every row covers the order.
LEMMA ContasCobrem ==
  ASSUME NEW f, NEW id, RespondePor(pedido_item[id], f, id)
  PROVE  Cobre(f, id)
  BY DEF RespondePor, Cobre

\* What a save writes for the order is the list.
LEMMA GravaInteira ==
  ASSUME UmaAbaInv, NEW a \in Abas, Update(a)
  PROVE  LET f == facade[Sessao[a]]
             id == form[a].pedido IN
         /\ id \in PedidoIds /\ f \in Facade
         /\ pedido_item' = [pedido_item EXCEPT ![id] = f.itens]
         /\ manchados' = {}
<1> DEFINE f == facade[Sessao[a]]
           id == form[a].pedido
           gravadas == GravaItens(deleteItens(f.removedItens), id, f)
<1>1. TypeOK /\ f \in Facade /\ id \in PedidoIds /\ form[a].pagina = "edit" /\ f.criada
  BY CampoDoBean DEF UmaAbaInv, Update, PodeAlterar, TypeOK
<1>2. RespondePor(pedido_item[id], f, id)
  BY <1>1 DEF UmaAbaInv, Contas, PaginaPrestaContas
<1>3. \A k \in Range(f.removedItens) : k[1] = id
  BY <1>1 DEF UmaAbaInv, ListInv, ListBelongsToForm
<1>4. pedido_item' = gravadas
  BY DEF Update
<1>5. manchados' = (IF Cobre(f, id) THEN manchados \ {id} ELSE manchados \cup {id})
                     \cup Desfalcados(f, id)
  BY DEF Update
<1> HIDE DEF f, id
<1>6. Cobre(f, id)
  BY <1>2, ContasCobrem
<1>7. Desfalcados(f, id) = {}
  BY <1>3 DEF Desfalcados
<1>8. gravadas[id] = f.itens
  BY <1>1, <1>6, GravaALista
<1>9. \A i \in PedidoIds \ {id} : gravadas[i] = pedido_item[i]
  BY <1>1, <1>7, GravaSoOPedido
<1>10. DOMAIN gravadas = PedidoIds /\ pedido_item \in [PedidoIds -> Listas]
  BY <1>1 DEF GravaItens, deleteItens, TypeOK
<1>11. gravadas = [i \in PedidoIds |-> gravadas[i]]
  BY <1>10 DEF GravaItens, deleteItens
<1> HIDE DEF gravadas
<1>12. gravadas = [pedido_item EXCEPT ![id] = f.itens]
  BY <1>8, <1>9, <1>10, <1>11
<1>13. manchados' = {}
  BY <1>5, <1>6, <1>7 DEF UmaAbaInv, Contas
<1> QED
  BY <1>1, <1>4, <1>12, <1>13 DEF f, id

----------------------------------------------------------------------------
(* What the requests leave in the list *)

LEMMA CarregaTudo ==
  ASSUME NEW f, NEW id \in PedidoIds
  PROVE  RespondePor(pedido_item[id], initUpdate(f, id), id)
  BY DEF RespondePor, initUpdate, DonoCarregado

LEMMA AddItemResponde ==
  ASSUME NEW f \in Facade, NEW q \in Produtos, NEW n \in Quantidades, NEW id, NEW linhas,
         RespondePor(linhas, f, id)
  PROVE  RespondePor(linhas, addItem(f, q, n), id)
<1>1. /\ addItem(f, q, n).itens = [f.itens EXCEPT ![q] = n]
      /\ addItem(f, q, n).dono = f.dono
      /\ addItem(f, q, n).removedItens = f.removedItens
  BY DEF addItem, Facade
<1>2. n > 0
  BY ConstantesOK
<1> QED
  BY <1>1, <1>2 DEF RespondePor, Facade, Listas

LEMMA RangeDaLista ==
  ASSUME NEW r \in Seq(PedidoIds \X Produtos), NEW c \in PedidoIds \X Produtos
  PROVE  Range(Append(r, c)) = Range(r) \cup {c}
<1> DEFINE m == Append(r, c)
<1>1. /\ Len(r) \in Nat /\ Len(m) = Len(r) + 1
      /\ DOMAIN r = 1..Len(r) /\ DOMAIN m = 1..Len(m)
      /\ \A i \in 1..Len(r) : m[i] = r[i]
      /\ m[Len(r) + 1] = c
  BY AppendProperties, LenProperties
<1> HIDE DEF m
<1>2. 1..Len(m) = 1..Len(r) \cup {Len(r) + 1}
  BY <1>1
<1>3. Range(m) = Range(r) \cup {c}
  BY <1>1, <1>2 DEF Range
<1> QED
  BY <1>3 DEF m

\* An item that leaves the list is listed among the removed ones if it has a row.
LEMMA RemoveItemResponde ==
  ASSUME NEW f \in Facade, NEW q \in Produtos, NEW id \in PedidoIds, NEW linhas,
         f.dono[q] \in {Nulo, id}, RespondePor(linhas, f, id)
  PROVE  RespondePor(linhas, removeItem(f, q), id)
<1> DEFINE chave == <<f.dono[q], q>>
           g == removeItem(f, q)
<1>1. /\ g.itens = [f.itens EXCEPT ![q] = 0]
      /\ g.dono = [f.dono EXCEPT ![q] = Nulo]
      /\ g.removedItens = IF f.dono[q] = Nulo THEN f.removedItens
                          ELSE Append(f.removedItens, chave)
  BY DEF removeItem, Facade
<1>2. f.itens \in [Produtos -> Quantidades \cup {0}] /\ DOMAIN f.dono = Produtos
  BY DEF Facade, Listas
<1>3. f.dono[q] # Nulo => Range(Append(f.removedItens, chave)) = Range(f.removedItens) \cup {chave}
  <2>1. f.removedItens \in Seq(PedidoIds \X Produtos)
    BY DEF Facade
  <2>2. f.dono[q] # Nulo => chave \in PedidoIds \X Produtos
    OBVIOUS
  <2> HIDE DEF chave
  <2> QED
    BY <2>1, <2>2, RangeDaLista
<1>4. id # Nulo
  BY ConstantesOK DEF PedidoIds
<1>5. ASSUME NEW p \in Produtos, linhas[p] > 0
      PROVE  (g.itens[p] > 0 /\ g.dono[p] = id) \/ <<id, p>> \in Range(g.removedItens)
  <2>1. (f.itens[p] > 0 /\ f.dono[p] = id) \/ <<id, p>> \in Range(f.removedItens)
    BY <1>5 DEF RespondePor
  <2>2. CASE <<id, p>> \in Range(f.removedItens)
    BY <1>1, <1>3, <2>2
  <2>3. CASE p # q /\ f.itens[p] > 0 /\ f.dono[p] = id
    BY <1>1, <1>2, <2>3
  <2>4. CASE p = q /\ f.dono[p] = id
    BY <1>1, <1>3, <1>4, <2>4
  <2> QED
    BY <2>1, <2>2, <2>3, <2>4
<1> QED
  BY <1>5 DEF RespondePor

LEMMA RechaveiaResponde ==
  ASSUME NEW f \in Facade, NEW id, NEW K, NEW linhas, RespondePor(linhas, f, id)
  PROVE  RespondePor(linhas, Rechaveia(f, id, K), id)
<1>1. /\ Rechaveia(f, id, K).itens = f.itens
      /\ Rechaveia(f, id, K).removedItens = f.removedItens
      /\ Rechaveia(f, id, K).dono = [p \in Produtos |-> IF p \in K THEN id ELSE f.dono[p]]
  BY DEF Rechaveia, Facade
<1> QED
  BY <1>1 DEF RespondePor

\* After the save the rows are the list, and the list has their keys.
LEMMA SalvaResponde ==
  ASSUME NEW f \in Facade, NEW id
  PROVE  RespondePor(f.itens, Rechaveia(f, id, Contidos(f.itens)), id)
<1>1. /\ Rechaveia(f, id, Contidos(f.itens)).itens = f.itens
      /\ Rechaveia(f, id, Contidos(f.itens)).dono
           = [p \in Produtos |-> IF p \in Contidos(f.itens) THEN id ELSE f.dono[p]]
  BY DEF Rechaveia, Facade
<1> QED
  BY <1>1 DEF RespondePor, Contidos

----------------------------------------------------------------------------
(* Every step keeps the accounts *)

LEMMA ContasInit == Init => Contas
  BY OutraPaginaTipo DEF Init, Contas, PaginaPrestaContas

\* A step that leaves the rows alone and gives the tab a page and a bean.
LEMMA ContasLocal ==
  ASSUME UmaAbaInv, UmaAba, NEW a \in Abas, NEW f \in Facade,
         facade' = [facade EXCEPT ![Sessao[a]] = f],
         pedido_item' = pedido_item, manchados' = manchados,
         form'[a].pagina = "create" => form'[a].pedido = Nulo,
         form'[a].pagina = "edit" /\ f.criada
           => RespondePor(pedido_item[form'[a].pedido], f, form'[a].pedido)
  PROVE  Contas'
<1>1. facade'[Sessao[a]] = f
  BY ConstantesOK DEF UmaAbaInv, TypeOK
<1>2. PaginaPrestaContas(a)'
  BY <1>1 DEF PaginaPrestaContas, RespondePor
<1>3. \A b \in Abas : b = a
  BY DEF UmaAba
<1>4. manchados' = {}
  BY DEF UmaAbaInv, Contas
<1> QED
  BY <1>2, <1>3, <1>4 DEF Contas

LEMMA ContasStep ==
  ASSUME UmaAbaInv, UmaAba, [Next]_vars
  PROVE  Contas'
<1>t. TypeOK
  BY DEF UmaAbaInv
<1>b. ASSUME NEW a \in Abas
      PROVE  /\ facade[Sessao[a]] \in Facade /\ PaginaPrestaContas(a)
             /\ \A b \in Abas : b = a
             /\ form[a].pagina = "edit" => form[a].pedido \in PedidoIds
             /\ form[a].pagina = "edit" /\ facade[Sessao[a]].criada
                  => RespondePor(pedido_item[form[a].pedido], facade[Sessao[a]], form[a].pedido)
  BY <1>t, CampoDoBean DEF UmaAbaInv, Contas, UmaAba, PaginaPrestaContas, TypeOK
<1>1. ASSUME NEW a \in Abas, Create(a)
      PROVE  Contas'
  <2> DEFINE f == initCreate(facade[Sessao[a]])
  <2>1. /\ form'[a].pagina # "edit" /\ form'[a].pedido = Nulo
        /\ facade' = [facade EXCEPT ![Sessao[a]] = f]
        /\ pedido_item' = pedido_item /\ manchados' = manchados
    BY <1>1, <1>t DEF Create, PaginaCreate, OutraPagina, Navega, TypeOK, BancoInalterado
  <2>2. f \in Facade
    BY FacadeNovaTipo
  <2> HIDE DEF f
  <2> QED
    BY <2>1, <2>2, ContasLocal
<1>2. ASSUME NEW a \in Abas, Show(a)
      PROVE  Contas'
  <2> DEFINE f == initShow(facade[Sessao[a]])
  <2>1. /\ form'[a].pagina = "outra"
        /\ facade' = [facade EXCEPT ![Sessao[a]] = f]
        /\ pedido_item' = pedido_item /\ manchados' = manchados
    BY <1>2, <1>t DEF Show, OutraPagina, Navega, TypeOK, BancoInalterado
  <2>2. f \in Facade
    BY FacadeNovaTipo
  <2> HIDE DEF f
  <2> QED
    BY <2>1, <2>2, ContasLocal
<1>3. ASSUME NEW a \in Abas, NEW id \in PedidoIds, Edit(a, id)
      PROVE  Contas'
  <2> DEFINE f == initUpdate(facade[Sessao[a]], id)
  <2>1. /\ form'[a] \in {OutraPagina, PaginaEdit(id)}
        /\ facade' = [facade EXCEPT ![Sessao[a]] = f]
        /\ pedido_item' = pedido_item /\ manchados' = manchados
    BY <1>3, <1>t DEF Edit, Navega, TypeOK, BancoInalterado
  <2>2. f \in Facade
    BY <1>t, InitUpdateTipo DEF TypeOK
  <2>3. RespondePor(pedido_item[id], f, id)
    BY CarregaTudo
  <2>4. /\ form'[a].pagina # "create"
        /\ form'[a].pagina = "edit" => form'[a].pedido = id
    BY <2>1 DEF OutraPagina, PaginaEdit
  <2> HIDE DEF f
  <2> QED
    BY <2>1, <2>2, <2>3, <2>4, ContasLocal
<1>4. ASSUME NEW a \in Abas, NEW p \in Produtos, NEW q \in Quantidades, AddItem(a, p, q)
      PROVE  Contas'
  <2> DEFINE f == facade[Sessao[a]]
             g == addItem(f, p, q)
  <2>1. /\ facade' = [facade EXCEPT ![Sessao[a]] = g] /\ form' = form /\ f.criada
        /\ pedido_item' = pedido_item /\ manchados' = manchados
    BY <1>4 DEF AddItem, BancoInalterado
  <2>2. g \in Facade
    BY <1>b, AddItemTipo
  <2>3. form[a].pagina = "edit" => RespondePor(pedido_item[form[a].pedido], g, form[a].pedido)
    BY <1>b, <2>1, AddItemResponde
  <2>4. form[a].pagina = "create" => form[a].pedido = Nulo
    BY <1>b DEF PaginaPrestaContas
  <2> HIDE DEF f, g
  <2> QED
    BY <2>1, <2>2, <2>3, <2>4, ContasLocal
<1>5. ASSUME NEW a \in Abas, NEW p \in Produtos, RemoveItem(a, p)
      PROVE  Contas'
  <2> DEFINE f == facade[Sessao[a]]
             g == removeItem(f, p)
  <2>1. /\ facade' = [facade EXCEPT ![Sessao[a]] = g] /\ form' = form /\ f.criada /\ f.itens[p] > 0
        /\ pedido_item' = pedido_item /\ manchados' = manchados
    BY <1>5 DEF RemoveItem, BancoInalterado
  <2>2. g \in Facade
    BY <1>b, RemoveItemTipo
  <2>3. form[a].pagina = "edit" => f.dono[p] \in {Nulo, form[a].pedido}
    BY <2>1 DEF UmaAbaInv, ListInv, ListBelongsToForm, Contidos
  <2>4. form[a].pagina = "edit" => RespondePor(pedido_item[form[a].pedido], g, form[a].pedido)
    BY <1>b, <2>1, <2>3, RemoveItemResponde
  <2>5. form[a].pagina = "create" => form[a].pedido = Nulo
    BY <1>b DEF PaginaPrestaContas
  <2> HIDE DEF f, g
  <2> QED
    BY <2>1, <2>2, <2>4, <2>5, ContasLocal
<1>6. ASSUME NEW a \in Abas, NEW i \in 1..MaxRespostas, RecebeTotal(a, i) \/ PerdeTotal(a, i)
      PROVE  Contas'
  <2>1. \A b \in Abas : form'[b].pagina = form[b].pagina /\ form'[b].pedido = form[b].pedido
    <3>1. CASE PerdeTotal(a, i)
      BY <3>1 DEF PerdeTotal
    <3>2. CASE RecebeTotal(a, i)
      <4> DEFINE v == [form[a] EXCEPT !.quantidade = respostas[a][i]]
      <4>1. form' = [form EXCEPT ![a] = v]
        BY <3>2 DEF RecebeTotal
      <4>2. v.pagina = form[a].pagina /\ v.pedido = form[a].pedido
        BY <1>t, CampoDoBean DEF Forms
      <4>3. form \in [Abas -> Forms]
        BY <1>t DEF TypeOK
      <4> HIDE DEF v
      <4> QED
        BY <4>1, <4>2, <4>3
    <3> QED
      BY <1>6, <3>1, <3>2
  <2>2. facade' = facade /\ pedido_item' = pedido_item /\ manchados' = manchados
    BY <1>6 DEF RecebeTotal, PerdeTotal, SemResposta, BancoInalterado
  <2> QED
    BY <2>1, <2>2 DEF UmaAbaInv, Contas, PaginaPrestaContas, RespondePor
<1>7. ASSUME NEW a \in Abas, Store(a) \/ StoreFalha(a)
      PROVE  Contas'
  <2>1. form' = form /\ form[a].pagina = "create" /\ manchados' = manchados
    BY <1>7 DEF Store, StoreFalha, PodeCadastrar, Submetido
  <2>2. form[a].pedido = Nulo
    BY <1>b, <2>1 DEF PaginaPrestaContas
  <2> QED
    BY <1>b, <2>1, <2>2 DEF UmaAbaInv, Contas, PaginaPrestaContas
<1>8. ASSUME NEW a \in Abas, Update(a)
      PROVE  Contas'
  <2> DEFINE f == facade[Sessao[a]]
             id == form[a].pedido
             g == Rechaveia(f, id, Contidos(f.itens))
  <2>1. /\ id \in PedidoIds /\ f \in Facade
        /\ pedido_item' = [pedido_item EXCEPT ![id] = f.itens]
        /\ manchados' = {}
    BY <1>8, GravaInteira
  <2>2. form' = form /\ form[a].pagina = "edit" /\ facade' = [facade EXCEPT ![Sessao[a]] = g]
    BY <1>8 DEF Update, PodeAlterar, Submetido
  <2>3. RespondePor(f.itens, g, id)
    BY <2>1, SalvaResponde
  <2>4. pedido_item'[id] = f.itens
    BY <1>t, <2>1 DEF TypeOK
  <2>5. facade'[Sessao[a]] = g
    BY <1>t, <2>2, ConstantesOK DEF TypeOK
  <2>6. form'[a].pedido = id /\ form'[a].pagina # "create"
    BY <2>2
  <2> HIDE DEF f, g, id
  <2>7. PaginaPrestaContas(a)'
    BY <2>3, <2>4, <2>5, <2>6 DEF PaginaPrestaContas, RespondePor
  <2> QED
    BY <1>b, <2>1, <2>7 DEF Contas
<1>9. ASSUME NEW a \in Abas, UpdateFalha(a)
      PROVE  Contas'
  <2> DEFINE f == facade[Sessao[a]]
             id == form[a].pedido
  <2>1. PICK K \in SUBSET Contidos(f.itens) : facade' = [facade EXCEPT ![Sessao[a]] = Rechaveia(f, id, K)]
    BY <1>9 DEF UpdateFalha
  <2> DEFINE g == Rechaveia(f, id, K)
  <2>2. /\ form' = form /\ form[a].pagina = "edit" /\ f.criada
        /\ pedido_item' = pedido_item /\ manchados' = manchados
    BY <1>9 DEF UpdateFalha, PodeAlterar, Submetido
  <2>3. g \in Facade /\ RespondePor(pedido_item[id], g, id)
    BY <1>b, <2>2, RechaveiaTipo, RechaveiaResponde
  <2>4. facade' = [facade EXCEPT ![Sessao[a]] = g] /\ form'[a].pedido = id /\ form'[a].pagina # "create"
    BY <2>1, <2>2
  <2> HIDE DEF f, g, id
  <2> QED
    BY <2>2, <2>3, <2>4, ContasLocal
<1>10. ASSUME NEW id \in PedidoIds, Destroy(id)
       PROVE  Contas'
  <2>1. /\ pedido_item' = [pedido_item EXCEPT ![id] = Vazia]
        /\ facade' = facade /\ form' = form /\ manchados' = manchados
    BY <1>10 DEF Destroy
  <2>2. \A i \in PedidoIds : i # id => pedido_item'[i] = pedido_item[i]
    BY <1>t, <2>1 DEF TypeOK
  <2>3. \A p \in Produtos : ~(pedido_item'[id][p] > 0)
    BY <1>t, <2>1 DEF TypeOK, Vazia
  <2>4. ASSUME NEW a \in Abas
        PROVE  PaginaPrestaContas(a)'
    BY <1>b, <2>1, <2>2, <2>3 DEF PaginaPrestaContas, RespondePor
  <2> QED
    BY <2>1, <2>4 DEF UmaAbaInv, Contas
<1>11. ASSUME NEW s \in Sessoes, SessaoExpira(s)
       PROVE  Contas'
  <2>1. /\ form' = form /\ facade' = [facade EXCEPT ![s] = initShow(@)]
        /\ pedido_item' = pedido_item /\ manchados' = manchados
    BY <1>11 DEF SessaoExpira, BancoInalterado
  <2>2. \A b \in Abas : facade'[Sessao[b]].criada => facade'[Sessao[b]] = facade[Sessao[b]]
    BY <1>t, <2>1, ListNova, ConstantesOK DEF TypeOK
  <2> QED
    BY <2>1, <2>2 DEF UmaAbaInv, Contas, PaginaPrestaContas, RespondePor
<1>12. ASSUME UNCHANGED <<pedido_item, facade, form, manchados>>
       PROVE  Contas'
  BY <1>12 DEF UmaAbaInv, Contas, PaginaPrestaContas, RespondePor
<1> QED
  BY <1>1, <1>2, <1>3, <1>4, <1>5, <1>6, <1>7, <1>8, <1>9, <1>10, <1>11, <1>12
     DEF Next, vars, DestroyProduto

LEMMA UmaAbaInvariant ==
  ASSUME UmaAba
  PROVE  Spec => []UmaAbaInv
<1> USE UmaAbaEUmaPorSessao
<1>1. Init => UmaAbaInv
  BY TypeInit, ListInit, ContasInit DEF UmaAbaInv
<1>2. UmaAbaInv /\ [Next]_vars => UmaAbaInv'
  BY TypeStep, ListStep, ContasStep DEF UmaAbaInv
<1> QED
  BY <1>1, <1>2, PTL DEF Spec

\* With one tab the total stored with an order is that of its rows: no save leaves
\* a row that the list does not account for.
THEOREM OneTabTotals == UmaAba => (Spec => []TotalsAgree)
<1> SUFFICES ASSUME UmaAba PROVE Spec => []TotalsAgree
  OBVIOUS
<1>1. UmaAbaInv /\ TotalsAgreeUnlessStale => TotalsAgree
  BY DEF UmaAbaInv, Contas, TotalsAgreeUnlessStale, TotalsAgree
<1> QED
  BY <1>1, UmaAbaInvariant, TotalsCorrect, PTL

----------------------------------------------------------------------------
(* The steps of the form are steps of the promise *)

\* What the promise sees of the form.
PedidosVistos ==
  [id \in PedidoIds |-> IF pedido[id] = Nulo THEN Nulo
                        ELSE [itens |-> pedido_item[id], total |-> pedido[id]]]
RascunhoDe(a) ==
  IF form[a].pagina # "outra" /\ facade[Sessao[a]].criada
  THEN [numero |-> form[a].pedido, itens |-> facade[Sessao[a]].itens] ELSE Nulo
RascunhosVistos == [a \in Abas |-> RascunhoDe(a)]
UsadosVistos == 1..(pedido_id_seq - 1)

LEMMA ContratoInit == Init => Contrato!Init
<1> SUFFICES ASSUME Init PROVE Contrato!Init
  OBVIOUS
<1>1. \A a \in Abas : RascunhoDe(a) = Nulo
  BY OutraPaginaTipo DEF Init, RascunhoDe
<1>2. PedidosVistos = [id \in PedidoIds |-> Nulo]
  BY DEF Init, PedidosVistos
<1>3. UsadosVistos = {}
  BY DEF Init, UsadosVistos
<1> QED
  BY <1>1, <1>2, <1>3 DEF Contrato!Init, PedidosVistos, RascunhoDe, UsadosVistos

\* An order or a draft that is there is not null.
LEMMA NaoNulos ==
  ASSUME TypeOK
  PROVE  /\ \A id \in PedidoIds : PedidosVistos[id] # Nulo <=> pedido[id] # Nulo
         /\ \A a \in Abas : RascunhoDe(a) # Nulo <=> form[a].pagina # "outra" /\ facade[Sessao[a]].criada
<1>1. ASSUME NEW id \in PedidoIds, pedido[id] # Nulo
      PROVE  PedidosVistos[id] # Nulo
  <2> DEFINE r == [itens |-> pedido_item[id], total |-> pedido[id]]
  <2>1. r \in [itens : Listas, total : Totais]
    BY DEF TypeOK
  <2>2. PedidosVistos[id] = r
    BY <1>1 DEF PedidosVistos
  <2> HIDE DEF r
  <2> QED
    BY <2>1, <2>2, NuloOK
<1>2. ASSUME NEW a \in Abas, form[a].pagina # "outra", facade[Sessao[a]].criada
      PROVE  RascunhoDe(a) # Nulo
  <2> DEFINE r == [numero |-> form[a].pedido, itens |-> facade[Sessao[a]].itens]
  <2>1. r \in [numero : PedidoIds \cup {Nulo}, itens : Listas]
    BY CampoDoBean DEF Forms, Facade
  <2>2. RascunhoDe(a) = r
    BY <1>2 DEF RascunhoDe
  <2> HIDE DEF r
  <2> QED
    BY <2>1, <2>2, NuloOK
<1> QED
  BY <1>1, <1>2 DEF PedidosVistos, RascunhoDe

\* With one tab, the drafts are that tab's.
LEMMA UmRascunho ==
  ASSUME UmaAba, NEW a \in Abas
  PROVE  /\ RascunhosVistos = [b \in Abas |-> RascunhoDe(a)]
         /\ RascunhosVistos' = [b \in Abas |-> RascunhoDe(a)']
         /\ \A r : RascunhoDe(a)' = r => RascunhosVistos' = [RascunhosVistos EXCEPT ![a] = r]
<1>1. \A b \in Abas : b = a
  BY DEF UmaAba
<1>2. RascunhosVistos = [b \in Abas |-> RascunhoDe(a)]
  BY <1>1 DEF RascunhosVistos
<1>3. RascunhosVistos' = [b \in Abas |-> RascunhoDe(a)']
  BY <1>1 DEF RascunhosVistos
<1> HIDE DEF RascunhosVistos
<1>4. \A r : [RascunhosVistos EXCEPT ![a] = r] = [b \in Abas |-> r]
  BY <1>1, <1>2
<1> HIDE DEF RascunhoDe
<1> QED
  BY <1>2, <1>3, <1>4

\* A step that gives the tab another draft, or none, and touches no order.
LEMMA PassoDoRascunho ==
  ASSUME UmaAba, NEW a \in Abas, PedidosVistos' = PedidosVistos, UsadosVistos' = UsadosVistos
  PROVE  /\ RascunhoDe(a)' = Nulo => Contrato!Fecha(a)
         /\ RascunhoDe(a)' = [numero |-> Nulo, itens |-> Vazia] => Contrato!Abre(a)
         /\ \A id \in PedidoIds :
              /\ PedidosVistos[id] # Nulo
              /\ RascunhoDe(a)' = [numero |-> id, itens |-> PedidosVistos[id].itens]
              => Contrato!Reabre(a, id)
         /\ \A lista \in Listas :
              /\ RascunhoDe(a) # Nulo
              /\ RascunhoDe(a)' = [RascunhoDe(a) EXCEPT !.itens = lista]
              => Contrato!Altera(a, lista)
<1> USE UmRascunho
<1>1. RascunhoDe(a)' = Nulo => Contrato!Fecha(a)
  <2> SUFFICES ASSUME RascunhoDe(a)' = Nulo PROVE Contrato!Fecha(a)
    OBVIOUS
  <2>1. RascunhosVistos' = [RascunhosVistos EXCEPT ![a] = Nulo]
    OBVIOUS
  <2> QED
    BY <2>1 DEF Contrato!Fecha, RascunhosVistos, RascunhoDe, PedidosVistos, UsadosVistos
<1>2. RascunhoDe(a)' = [numero |-> Nulo, itens |-> Vazia] => Contrato!Abre(a)
  <2> SUFFICES ASSUME RascunhoDe(a)' = [numero |-> Nulo, itens |-> Vazia] PROVE Contrato!Abre(a)
    OBVIOUS
  <2>1. RascunhosVistos' = [RascunhosVistos EXCEPT ![a] = [numero |-> Nulo, itens |-> Vazia]]
    <3> DEFINE r == [numero |-> Nulo, itens |-> Vazia]
    <3>1. RascunhoDe(a)' = r
      OBVIOUS
    <3> HIDE DEF r
    <3>2. RascunhosVistos' = [RascunhosVistos EXCEPT ![a] = r]
      BY <3>1
    <3> QED
      BY <3>2 DEF r
  <2> QED
    BY <2>1 DEF Contrato!Abre, RascunhosVistos, RascunhoDe, PedidosVistos, UsadosVistos
<1>3. ASSUME NEW id \in PedidoIds, PedidosVistos[id] # Nulo,
             RascunhoDe(a)' = [numero |-> id, itens |-> PedidosVistos[id].itens]
      PROVE  Contrato!Reabre(a, id)
  <2>1. RascunhosVistos' = [RascunhosVistos EXCEPT ![a] = [numero |-> id, itens |-> PedidosVistos[id].itens]]
    <3> DEFINE r == [numero |-> id, itens |-> PedidosVistos[id].itens]
    <3>1. RascunhoDe(a)' = r
      BY <1>3
    <3> HIDE DEF r
    <3>2. RascunhosVistos' = [RascunhosVistos EXCEPT ![a] = r]
      BY <3>1
    <3> QED
      BY <3>2 DEF r
  <2> QED
    BY <1>3, <2>1 DEF Contrato!Reabre, RascunhosVistos, RascunhoDe, PedidosVistos, UsadosVistos
<1>4. ASSUME NEW lista \in Listas, RascunhoDe(a) # Nulo,
             RascunhoDe(a)' = [RascunhoDe(a) EXCEPT !.itens = lista]
      PROVE  Contrato!Altera(a, lista)
  <2>1. RascunhosVistos[a] = RascunhoDe(a)
    OBVIOUS
  <2>2. RascunhosVistos' = [RascunhosVistos EXCEPT ![a] = [RascunhosVistos[a] EXCEPT !.itens = lista]]
    <3> DEFINE r == [RascunhosVistos[a] EXCEPT !.itens = lista]
    <3>1. RascunhoDe(a)' = r
      BY <1>4, <2>1
    <3> HIDE DEF r
    <3>2. RascunhosVistos' = [RascunhosVistos EXCEPT ![a] = r]
      BY <3>1
    <3> QED
      BY <3>2 DEF r
  <2> QED
    BY <1>4, <2>1, <2>2 DEF Contrato!Altera, RascunhosVistos, RascunhoDe, PedidosVistos, UsadosVistos
<1> QED
  BY <1>1, <1>2, <1>3, <1>4

\* A save, whole, of the draft of the tab.
LEMMA PassoDoPedido ==
  ASSUME NEW a \in Abas, RascunhosVistos' = RascunhosVistos, RascunhoDe(a) # Nulo,
         RascunhoDe(a).itens # Vazia
  PROVE  LET c == [itens |-> RascunhoDe(a).itens, total |-> getQuantidadeTotal(RascunhoDe(a).itens)]
             numero == RascunhoDe(a).numero IN
         /\ \A n \in PedidoIds :
              /\ numero = Nulo /\ n \notin UsadosVistos
              /\ PedidosVistos' = [PedidosVistos EXCEPT ![n] = c]
              /\ UsadosVistos' = UsadosVistos \cup {n}
              => Contrato!Cadastra(a, n)
         /\ /\ numero # Nulo /\ PedidosVistos[numero] # Nulo
            /\ PedidosVistos' = [PedidosVistos EXCEPT ![numero] = c]
            /\ UsadosVistos' = UsadosVistos
            => Contrato!Atualiza(a)
<1>1. RascunhosVistos[a] = RascunhoDe(a)
  BY DEF RascunhosVistos
<1>2. ASSUME NEW n \in PedidoIds, RascunhosVistos[a].numero = Nulo, n \notin UsadosVistos,
             PedidosVistos' = [PedidosVistos EXCEPT ![n] =
                                 [itens |-> RascunhosVistos[a].itens,
                                  total |-> getQuantidadeTotal(RascunhosVistos[a].itens)]],
             UsadosVistos' = UsadosVistos \cup {n}
      PROVE  Contrato!Cadastra(a, n)
  BY <1>1, <1>2 DEF Contrato!Cadastra, Contrato!Conteudo, RascunhosVistos, RascunhoDe, PedidosVistos,
                    UsadosVistos
<1>3. ASSUME RascunhosVistos[a].numero # Nulo, PedidosVistos[RascunhosVistos[a].numero] # Nulo,
             PedidosVistos' = [PedidosVistos EXCEPT ![RascunhosVistos[a].numero] =
                                 [itens |-> RascunhosVistos[a].itens,
                                  total |-> getQuantidadeTotal(RascunhosVistos[a].itens)]],
             UsadosVistos' = UsadosVistos
      PROVE  Contrato!Atualiza(a)
  BY <1>1, <1>3 DEF Contrato!Atualiza, Contrato!Conteudo, RascunhosVistos, RascunhoDe, PedidosVistos,
                    UsadosVistos
<1> HIDE DEF RascunhosVistos, RascunhoDe, PedidosVistos, UsadosVistos
<1> QED
  BY <1>1, <1>2, <1>3

LEMMA PassoSemRascunho ==
  ASSUME RascunhosVistos' = RascunhosVistos, NEW n \in PedidoIds
  PROVE  /\ /\ n \notin UsadosVistos /\ PedidosVistos' = PedidosVistos
            /\ UsadosVistos' = UsadosVistos \cup {n}
            => Contrato!Perde(n)
         /\ /\ PedidosVistos[n] # Nulo /\ PedidosVistos' = [PedidosVistos EXCEPT ![n] = Nulo]
            /\ UsadosVistos' = UsadosVistos
            => Contrato!Exclui(n)
  BY DEF Contrato!Perde, Contrato!Exclui, RascunhosVistos, RascunhoDe, PedidosVistos, UsadosVistos

LEMMA NadaVisto ==
  ASSUME RascunhosVistos' = RascunhosVistos, PedidosVistos' = PedidosVistos,
         UsadosVistos' = UsadosVistos
  PROVE  UNCHANGED Contrato!cvars
  BY DEF Contrato!cvars, RascunhosVistos, RascunhoDe, PedidosVistos, UsadosVistos

LEMMA ContratoStep ==
  ASSUME UmaAbaInv, UmaAba, [Next]_vars
  PROVE  Contrato!Next \/ UNCHANGED Contrato!cvars
<1>t. TypeOK
  BY DEF UmaAbaInv
<1>b. ASSUME NEW a \in Abas
      PROVE  Sessao[a] \in Sessoes /\ facade[Sessao[a]] \in Facade /\ form[a] \in Forms
  BY <1>t, CampoDoBean
<1>i. BancoInalterado => PedidosVistos' = PedidosVistos /\ UsadosVistos' = UsadosVistos
  BY DEF BancoInalterado, PedidosVistos, UsadosVistos
<1>n. ASSUME NEW a \in Abas,
             \/ Contrato!Fecha(a) \/ Contrato!Abre(a) \/ Contrato!Atualiza(a)
             \/ \E lista \in Listas : Contrato!Altera(a, lista)
             \/ \E n \in PedidoIds : Contrato!Reabre(a, n) \/ Contrato!Cadastra(a, n)
      PROVE  Contrato!Next
  BY <1>n DEF Contrato!Next
<1>p. ASSUME NEW n \in PedidoIds, Contrato!Perde(n) \/ Contrato!Exclui(n)
      PROVE  Contrato!Next
  BY <1>p DEF Contrato!Next
<1>1. ASSUME NEW a \in Abas, Create(a)
      PROVE  Contrato!Next
  <2>1. /\ facade'[Sessao[a]] = initCreate(facade[Sessao[a]])
        /\ form'[a] \in {PaginaCreate, OutraPagina}
    BY <1>1, <1>b, <1>t DEF Create, Navega, TypeOK
  <2>2. RascunhoDe(a)' \in {Nulo, [numero |-> Nulo, itens |-> Vazia]}
    BY <2>1 DEF RascunhoDe, initCreate, PaginaCreate, OutraPagina
  <2>3. BancoInalterado
    BY <1>1 DEF Create
  <2>4. Contrato!Fecha(a) \/ Contrato!Abre(a)
    BY <1>i, <2>2, <2>3, PassoDoRascunho
  <2> QED
    BY <1>n, <2>4
<1>2. ASSUME NEW a \in Abas, Show(a)
      PROVE  Contrato!Next
  <2>1. form'[a] = OutraPagina /\ BancoInalterado
    BY <1>2, <1>b, <1>t DEF Show, Navega, TypeOK
  <2>2. RascunhoDe(a)' = Nulo
    BY <2>1 DEF RascunhoDe, OutraPagina
  <2> QED
    BY <1>i, <1>n, <2>1, <2>2, PassoDoRascunho
<1>3. ASSUME NEW a \in Abas, NEW id \in PedidoIds, Edit(a, id)
      PROVE  Contrato!Next
  <2>1. facade'[Sessao[a]] = initUpdate(facade[Sessao[a]], id) /\ BancoInalterado
    BY <1>3, <1>b, <1>t DEF Edit, TypeOK
  <2>2. form'[a] = OutraPagina \/ (pedido[id] # Nulo /\ form'[a] = PaginaEdit(id))
    BY <1>3, <1>b, <1>t DEF Edit, Navega, TypeOK
  <2>3. CASE form'[a] = OutraPagina
    <3>1. RascunhoDe(a)' = Nulo
      BY <2>3 DEF RascunhoDe, OutraPagina
    <3> QED
      BY <1>i, <1>n, <2>1, <3>1, PassoDoRascunho
  <2>4. CASE pedido[id] # Nulo /\ form'[a] = PaginaEdit(id)
    <3>1. RascunhoDe(a)' = [numero |-> id, itens |-> pedido_item[id]]
      BY <2>1, <2>4 DEF RascunhoDe, PaginaEdit, initUpdate
    <3>2. PedidosVistos[id] # Nulo /\ PedidosVistos[id].itens = pedido_item[id]
      BY <1>t, <2>4, NaoNulos DEF PedidosVistos
    <3>3. Contrato!Reabre(a, id)
      BY <1>i, <2>1, <3>1, <3>2, PassoDoRascunho
    <3> QED
      BY <1>n, <3>3
  <2> QED
    BY <2>2, <2>3, <2>4
\* The list of the page changes, to one that is a list.
<1>4. ASSUME NEW a \in Abas, NEW g \in Facade, facade' = [facade EXCEPT ![Sessao[a]] = g],
             form' = form, BancoInalterado, form[a].pagina # "outra",
             facade[Sessao[a]].criada, g.criada
      PROVE  Contrato!Next
  <2> DEFINE f == facade[Sessao[a]]
             lista == g.itens
  <2>1. facade'[Sessao[a]] = g /\ lista \in Listas
    BY <1>4, <1>b, <1>t DEF TypeOK, Facade
  <2>2. RascunhoDe(a) = [numero |-> form[a].pedido, itens |-> f.itens]
    BY <1>4 DEF RascunhoDe
  <2>3. RascunhoDe(a)' = [numero |-> form[a].pedido, itens |-> lista]
    BY <1>4, <2>1 DEF RascunhoDe
  <2>4. RascunhoDe(a) # Nulo
    BY <1>4, <1>t, NaoNulos
  <2> HIDE DEF f, lista
  <2>5. RascunhoDe(a)' = [RascunhoDe(a) EXCEPT !.itens = lista]
    BY <2>2, <2>3
  <2>6. Contrato!Altera(a, lista)
    BY <1>4, <1>i, <2>1, <2>4, <2>5, PassoDoRascunho
  <2> QED
    BY <1>n, <2>1, <2>6
<1>5. ASSUME NEW a \in Abas, NEW p \in Produtos, NEW q \in Quantidades, AddItem(a, p, q)
      PROVE  Contrato!Next
  <2> DEFINE g == addItem(facade[Sessao[a]], p, q)
  <2>1. g \in Facade
    BY <1>b, AddItemTipo
  <2>2. g.criada = facade[Sessao[a]].criada
    BY <1>b DEF addItem, Facade
  <2>3. /\ facade' = [facade EXCEPT ![Sessao[a]] = g] /\ form' = form /\ BancoInalterado
        /\ form[a].pagina # "outra" /\ facade[Sessao[a]].criada
    BY <1>5 DEF AddItem
  <2> HIDE DEF g
  <2> QED
    BY <1>4, <2>1, <2>2, <2>3
<1>6. ASSUME NEW a \in Abas, NEW p \in Produtos, RemoveItem(a, p)
      PROVE  Contrato!Next
  <2> DEFINE g == removeItem(facade[Sessao[a]], p)
  <2>1. g \in Facade
    BY <1>b, RemoveItemTipo
  <2>2. g.criada = facade[Sessao[a]].criada
    BY <1>b DEF removeItem, Facade
  <2>3. /\ facade' = [facade EXCEPT ![Sessao[a]] = g] /\ form' = form /\ BancoInalterado
        /\ form[a].pagina # "outra" /\ facade[Sessao[a]].criada
    BY <1>6 DEF RemoveItem
  <2> HIDE DEF g
  <2> QED
    BY <1>4, <2>1, <2>2, <2>3
\* The keys of the list change, and nothing that the promise sees of the page.
<1>7. ASSUME NEW a \in Abas, NEW id, NEW K, form' = form,
             facade' = [facade EXCEPT ![Sessao[a]] = Rechaveia(@, id, K)]
      PROVE  RascunhosVistos' = RascunhosVistos
  <2> DEFINE g == Rechaveia(facade[Sessao[a]], id, K)
  <2>1. g.criada = facade[Sessao[a]].criada /\ g.itens = facade[Sessao[a]].itens
    BY <1>b DEF Rechaveia, Facade
  <2>2. facade'[Sessao[a]] = g
    BY <1>7, <1>b, <1>t DEF TypeOK
  <2> HIDE DEF g
  <2>3. RascunhoDe(a)' = RascunhoDe(a)
    BY <1>7, <2>1, <2>2 DEF RascunhoDe
  <2> QED
    BY <2>3, UmRascunho
\* A page that can be saved has a draft, with something in it and its total.
<1>8. ASSUME NEW a \in Abas, form[a].pagina \in {"create", "edit"}, facade[Sessao[a]].criada,
             verificaQuantidadeAndCusto(form[a].quantidade, facade[Sessao[a]].itens)
      PROVE  /\ RascunhoDe(a) = [numero |-> form[a].pedido, itens |-> facade[Sessao[a]].itens]
             /\ RascunhoDe(a) # Nulo /\ facade[Sessao[a]].itens # Vazia
             /\ form[a].quantidade = getQuantidadeTotal(facade[Sessao[a]].itens)
             /\ form[a].quantidade # Nulo
  <2>1. form[a].quantidade \in Totais /\ facade[Sessao[a]].itens \in Listas
    BY <1>b DEF Forms, Facade
  <2>2. facade[Sessao[a]].itens # Vazia
    BY <1>8, <2>1, SalvaNaoVazia
  <2> QED
    BY <1>8, <1>t, <2>2, NaoNulos DEF RascunhoDe, verificaQuantidadeAndCusto

<1>9. ASSUME NEW a \in Abas, Store(a)
      PROVE  Contrato!Next
  <2>0. pedido_id_seq \in PedidoIds
    BY <1>9, <1>t DEF Store, PodeCadastrar, TypeOK, PedidoIds
  <2>n. PICK novo \in PedidoIds : novo = pedido_id_seq
    BY <2>0
  <2> DEFINE f == facade[Sessao[a]]
             c == [itens |-> f.itens, total |-> getQuantidadeTotal(f.itens)]
  <2>1. novo \in PedidoIds /\ form[a].pagina = "create" /\ f.criada
    BY <1>9, <1>t DEF Store, PodeCadastrar, TypeOK, PedidoIds
  <2>2. /\ RascunhoDe(a) = [numero |-> form[a].pedido, itens |-> f.itens]
        /\ RascunhoDe(a) # Nulo /\ f.itens # Vazia
        /\ form[a].quantidade = getQuantidadeTotal(f.itens) /\ form[a].quantidade # Nulo
    BY <1>8, <1>9, <2>1 DEF Store, PodeCadastrar
  <2>3. form[a].pedido = Nulo
    BY <2>1 DEF UmaAbaInv, Contas, PaginaPrestaContas
  <2>4. RascunhosVistos' = RascunhosVistos
    BY <1>7, <1>9 DEF Store, Submetido
  <2>5. novo \notin UsadosVistos /\ UsadosVistos' = UsadosVistos \cup {novo}
    <3>1. novo \in Nat /\ novo > 0 /\ pedido_id_seq' = novo + 1
      BY <1>9, <2>1, <2>n DEF Store, PedidoIds
    <3> QED
      BY <2>n, <3>1 DEF UsadosVistos
  <2>6. PedidosVistos' = [PedidosVistos EXCEPT ![novo] = c]
    <3>1. /\ pedido' = [pedido EXCEPT ![novo] = form[a].quantidade]
          /\ pedido_item' = [pedido_item EXCEPT ![novo] = f.itens]
      BY <1>9, <2>n DEF Store
    <3> HIDE DEF f
    <3> QED
      BY <1>t, <2>1, <2>2, <3>1 DEF PedidosVistos, TypeOK
  <2> HIDE DEF f
  <2>7. Contrato!Cadastra(a, novo)
    <3> DEFINE r == RascunhoDe(a)
    <3>1. r.itens = f.itens /\ r.numero = Nulo
      BY <2>2, <2>3
    <3> HIDE DEF r
    <3>2. PedidosVistos' = [PedidosVistos EXCEPT ![novo] =
                              [itens |-> r.itens, total |-> getQuantidadeTotal(r.itens)]]
      BY <2>6, <3>1
    <3>3. r.itens # Vazia
      BY <2>2, <3>1
    <3> QED
      BY <2>1, <2>2, <2>4, <2>5, <3>1, <3>2, <3>3, PassoDoPedido DEF r
  <2> QED
    BY <1>n, <2>1, <2>7
<1>10. ASSUME NEW a \in Abas, StoreFalha(a)
       PROVE  Contrato!Next
  <2> DEFINE novo == pedido_id_seq
  <2>1. novo \in PedidoIds
    BY <1>10, <1>t DEF StoreFalha, PodeCadastrar, TypeOK, PedidoIds
  <2>2. RascunhosVistos' = RascunhosVistos
    BY <1>7, <1>10 DEF StoreFalha, Submetido
  <2>3. novo \notin UsadosVistos /\ UsadosVistos' = UsadosVistos \cup {novo}
    <3>1. novo \in Nat /\ novo > 0 /\ pedido_id_seq' = novo + 1
      BY <1>10, <2>1 DEF StoreFalha, PedidoIds
    <3> QED
      BY <3>1 DEF UsadosVistos
  <2>4. PedidosVistos' = PedidosVistos
    BY <1>10 DEF StoreFalha, PedidosVistos
  <2> HIDE DEF novo
  <2>5. Contrato!Perde(novo)
    BY <2>1, <2>2, <2>3, <2>4, PassoSemRascunho
  <2> QED
    BY <1>p, <2>1, <2>5
<1>11. ASSUME NEW a \in Abas, Update(a)
       PROVE  Contrato!Next
  <2> DEFINE f == facade[Sessao[a]]
             id == form[a].pedido
             c == [itens |-> f.itens, total |-> getQuantidadeTotal(f.itens)]
  <2>1. id \in PedidoIds /\ pedido_item' = [pedido_item EXCEPT ![id] = f.itens]
    BY <1>11, GravaInteira
  <2>2. /\ RascunhoDe(a) = [numero |-> id, itens |-> f.itens]
        /\ RascunhoDe(a) # Nulo /\ f.itens # Vazia
        /\ form[a].quantidade = getQuantidadeTotal(f.itens) /\ form[a].quantidade # Nulo
    BY <1>8, <1>11 DEF Update, PodeAlterar
  <2>3. /\ pedido' = [pedido EXCEPT ![id] = form[a].quantidade]
        /\ pedido_id_seq' = pedido_id_seq /\ pedido[id] # Nulo
    BY <1>11 DEF Update, PodeAlterar
  <2>4. RascunhosVistos' = RascunhosVistos
    BY <1>7, <1>11 DEF Update, Submetido
  <2>5. UsadosVistos' = UsadosVistos
    BY <2>3 DEF UsadosVistos
  <2> HIDE DEF f, id
  <2>6. PedidosVistos' = [PedidosVistos EXCEPT ![id] = c]
    BY <1>t, <2>1, <2>2, <2>3 DEF PedidosVistos, TypeOK
  <2>7. id # Nulo /\ PedidosVistos[id] # Nulo
    BY <1>t, <2>1, <2>3, NaoNulos, ConstantesOK DEF PedidoIds
  <2>8. Contrato!Atualiza(a)
    <3> DEFINE r == RascunhoDe(a)
    <3>1. r.itens = f.itens /\ r.numero = id
      BY <2>2
    <3> HIDE DEF r
    <3>2. PedidosVistos' = [PedidosVistos EXCEPT ![r.numero] =
                              [itens |-> r.itens, total |-> getQuantidadeTotal(r.itens)]]
      BY <2>6, <3>1
    <3>3. r.itens # Vazia /\ r.numero # Nulo /\ PedidosVistos[r.numero] # Nulo
      BY <2>2, <2>7, <3>1
    <3> QED
      BY <2>2, <2>4, <2>5, <3>1, <3>2, <3>3, PassoDoPedido DEF r
  <2> QED
    BY <1>n, <2>8
<1>12. ASSUME NEW a \in Abas, UpdateFalha(a)
       PROVE  UNCHANGED Contrato!cvars
  <2>1. RascunhosVistos' = RascunhosVistos
    BY <1>7, <1>12 DEF UpdateFalha, Submetido
  <2>2. PedidosVistos' = PedidosVistos /\ UsadosVistos' = UsadosVistos
    BY <1>12 DEF UpdateFalha, PedidosVistos, UsadosVistos
  <2> QED
    BY <2>1, <2>2, NadaVisto
<1>13. ASSUME NEW a \in Abas, NEW i \in 1..MaxRespostas, RecebeTotal(a, i) \/ PerdeTotal(a, i)
       PROVE  UNCHANGED Contrato!cvars
  <2>1. facade' = facade /\ BancoInalterado
    BY <1>13 DEF RecebeTotal, PerdeTotal, SemResposta
  <2>2. form'[a].pagina = form[a].pagina /\ form'[a].pedido = form[a].pedido
    <3>1. CASE PerdeTotal(a, i)
      BY <3>1 DEF PerdeTotal
    <3>2. CASE RecebeTotal(a, i)
      <4> DEFINE v == [form[a] EXCEPT !.quantidade = respostas[a][i]]
      <4>1. form' = [form EXCEPT ![a] = v]
        BY <3>2 DEF RecebeTotal
      <4>2. v.pagina = form[a].pagina /\ v.pedido = form[a].pedido
        BY <1>b DEF Forms
      <4>3. form \in [Abas -> Forms]
        BY <1>t DEF TypeOK
      <4> HIDE DEF v
      <4> QED
        BY <4>1, <4>2, <4>3
    <3> QED
      BY <1>13, <3>1, <3>2
  <2>3. RascunhoDe(a)' = RascunhoDe(a)
    BY <2>1, <2>2 DEF RascunhoDe
  <2>4. RascunhosVistos' = RascunhosVistos
    BY <2>3, UmRascunho
  <2> QED
    BY <1>i, <2>1, <2>4, NadaVisto
<1>14. ASSUME NEW id \in PedidoIds, Destroy(id)
       PROVE  Contrato!Next
  <2>1. /\ pedido[id] # Nulo /\ UsadosVistos' = UsadosVistos
        /\ pedido' = [pedido EXCEPT ![id] = Nulo] /\ pedido_item' = [pedido_item EXCEPT ![id] = Vazia]
    BY <1>14 DEF Destroy, UsadosVistos
  <2>2. RascunhosVistos' = RascunhosVistos
    BY <1>14 DEF Destroy, RascunhosVistos, RascunhoDe
  <2>3. PedidosVistos' = [PedidosVistos EXCEPT ![id] = Nulo]
    BY <1>t, <2>1 DEF PedidosVistos, TypeOK
  <2>4. PedidosVistos[id] # Nulo
    BY <1>t, <2>1, NaoNulos
  <2>5. Contrato!Exclui(id)
    BY <2>1, <2>2, <2>3, <2>4, PassoSemRascunho
  <2> QED
    BY <1>p, <2>5
<1>15. ASSUME NEW s \in Sessoes, SessaoExpira(s)
       PROVE  Contrato!Next \/ UNCHANGED Contrato!cvars
  <2>1. form' = form /\ facade' = [facade EXCEPT ![s] = initShow(@)] /\ BancoInalterado
    BY <1>15 DEF SessaoExpira
  <2>2. CASE \E a \in Abas : Sessao[a] = s
    <3>1. PICK a \in Abas : Sessao[a] = s
      BY <2>2
    <3>2. ~facade'[Sessao[a]].criada
      BY <1>b, <1>t, <2>1, <3>1, ListNova DEF TypeOK
    <3>3. RascunhoDe(a)' = Nulo
      BY <3>2 DEF RascunhoDe
    <3>4. Contrato!Fecha(a)
      BY <1>i, <2>1, <3>3, PassoDoRascunho
    <3> QED
      BY <1>n, <3>4
  <2>3. CASE ~ \E a \in Abas : Sessao[a] = s
    <3>1. \A a \in Abas : facade'[Sessao[a]] = facade[Sessao[a]]
      BY <1>b, <1>t, <2>1, <2>3 DEF TypeOK
    <3>2. RascunhosVistos' = RascunhosVistos
      BY <2>1, <3>1 DEF RascunhosVistos, RascunhoDe
    <3> QED
      BY <1>i, <2>1, <3>2, NadaVisto
  <2> QED
    BY <2>2, <2>3
<1>16. ASSUME UNCHANGED <<pedido, pedido_item, pedido_id_seq, facade, form>>
       PROVE  UNCHANGED Contrato!cvars
  BY <1>16, NadaVisto DEF PedidosVistos, UsadosVistos, RascunhosVistos, RascunhoDe
<1> QED
  BY <1>1, <1>2, <1>3, <1>5, <1>6, <1>9, <1>10, <1>11, <1>12, <1>13, <1>14, <1>15, <1>16
     DEF Next, vars, DestroyProduto

\* With one tab the form keeps its promise: what is saved is the draft of the page,
\* whole and with its total, under a number of its own or in place of the order it was
\* opened from; no other order changes, and no number is given out twice.
THEOREM PromiseKept == UmaAba => (Spec => KeepsPromise)
<1> SUFFICES ASSUME UmaAba PROVE Spec => KeepsPromise
  OBVIOUS
<1>1. UmaAbaInv /\ [Next]_vars => Contrato!Next \/ UNCHANGED Contrato!cvars
  BY ContratoStep
<1>2. UmaAbaInv /\ [Next]_vars => [Contrato!Next]_(Contrato!cvars)
  BY <1>1
<1> QED
  BY <1>2, ContratoInit, UmaAbaInvariant, PTL DEF Spec, KeepsPromise, Contrato!Spec

=============================================================================
