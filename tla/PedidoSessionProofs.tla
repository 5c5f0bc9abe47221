------------------------ MODULE PedidoSessionProofs ------------------------
(***************************************************************************)
(* Theorems of PedidoSession, for any number of sessions, tabs, products   *)
(* and orders.                                                             *)
(*                                                                         *)
(* The sum of a list stays an opaque value: what is proved of the totals   *)
(* needs which list each of them is the total of, never what it adds up    *)
(* to.                                                                     *)
(***************************************************************************)
EXTENDS PedidoSession, SequenceTheorems, TLAPS

USE DEF PedidoIds

----------------------------------------------------------------------------
(* Types of the operators *)

LEMMA VaziaTipo == Vazia \in Listas /\ SemDono \in [Produtos -> PedidoIds \cup {Nulo}]
  BY DEF Vazia, SemDono, Listas

\* The bean an initialisation leaves is a bean.
LEMMA FacadeNovaTipo ==
  ASSUME NEW f
  PROVE  initCreate(f) \in Facade /\ initShow(f) \in Facade
  BY VaziaTipo, EmptySeq DEF initCreate, initShow, Facade

LEMMA InitUpdateTipo ==
  ASSUME pedido_item \in [PedidoIds -> Listas], NEW f, NEW id \in PedidoIds
  PROVE  initUpdate(f, id) \in Facade
<1>1. pedido_item[id] \in Listas
  OBVIOUS
<1>2. DonoCarregado(id) \in [Produtos -> PedidoIds \cup {Nulo}]
  BY DEF DonoCarregado
<1>3. <<>> \in Seq(PedidoIds \X Produtos)
  BY EmptySeq
<1> QED
  BY <1>1, <1>2, <1>3 DEF initUpdate, Facade

LEMMA AddItemTipo ==
  ASSUME NEW f \in Facade, NEW p \in Produtos, NEW q \in Quantidades
  PROVE  addItem(f, p, q) \in Facade
<1>1. [f.itens EXCEPT ![p] = q] \in Listas
  BY DEF Facade, Listas
<1> QED
  BY <1>1 DEF addItem, Facade

LEMMA RemoveItemTipo ==
  ASSUME NEW f \in Facade, NEW p \in Produtos
  PROVE  removeItem(f, p) \in Facade
<1> DEFINE lista == [f.itens EXCEPT ![p] = 0]
           donos == [f.dono EXCEPT ![p] = Nulo]
           chaves == IF f.dono[p] = Nulo THEN f.removedItens
                     ELSE Append(f.removedItens, <<f.dono[p], p>>)
<1>1. lista \in Listas
  BY DEF Facade, Listas
<1>2. donos \in [Produtos -> PedidoIds \cup {Nulo}]
  BY DEF Facade
<1>3. chaves \in Seq(PedidoIds \X Produtos)
  <2>1. f.removedItens \in Seq(PedidoIds \X Produtos)
    BY DEF Facade
  <2>2. f.dono[p] # Nulo => <<f.dono[p], p>> \in PedidoIds \X Produtos
    BY DEF Facade
  <2> QED
    BY <2>1, <2>2, AppendProperties
<1>4. removeItem(f, p) = [criada |-> f.criada, itens |-> lista, dono |-> donos,
                          removedItens |-> chaves]
  <2>1. f = [criada |-> f.criada, itens |-> f.itens, dono |-> f.dono,
             removedItens |-> f.removedItens]
    BY DEF Facade
  <2>2. removeItem(f, p) = [f EXCEPT !.itens[p] = 0, !.dono[p] = Nulo,
                                     !.removedItens = chaves]
    BY DEF removeItem
  <2> HIDE DEF chaves
  <2> QED
    BY <2>1, <2>2
<1> QED
  BY <1>1, <1>2, <1>3, <1>4 DEF Facade

LEMMA RechaveiaTipo ==
  ASSUME NEW f \in Facade, NEW id \in PedidoIds, NEW K
  PROVE  Rechaveia(f, id, K) \in Facade
<1>1. [p \in Produtos |-> IF p \in K THEN id ELSE f.dono[p]]
        \in [Produtos -> PedidoIds \cup {Nulo}]
  BY DEF Facade
<1> QED
  BY <1>1 DEF Rechaveia, Facade

LEMMA SetPedidoTipo ==
  ASSUME NEW lista \in Listas
  PROVE  setPedido(getQuantidadeTotal(lista)) \in Totais
  BY DEF Totais

LEMMA RecebeTipo ==
  ASSUME NEW s \in Seq(Totais), NEW i \in 1..Len(s)
  PROVE  SubSeq(s, 1, i - 1) \o SubSeq(s, i + 1, Len(s)) \in Seq(Totais)
<1>1. Len(s) \in Nat /\ i \in Nat /\ \A j \in 1..Len(s) : s[j] \in Totais
  BY LenProperties, ElementOfSeq
<1>2. SubSeq(s, 1, i - 1) \in Seq(Totais)
  <2>1. \A j \in 1..(i - 1) : s[j] \in Totais
    BY <1>1
  <2> QED
    BY <1>1, <2>1, SubSeqProperties
<1>3. SubSeq(s, i + 1, Len(s)) \in Seq(Totais)
  <2>1. \A j \in (i + 1)..Len(s) : s[j] \in Totais
    BY <1>1
  <2> QED
    BY <1>1, <2>1, SubSeqProperties
<1> QED
  BY <1>2, <1>3, ConcatProperties

----------------------------------------------------------------------------
(* Type correctness *)

\* The parts of TypeOK that pages and answers make up.
PaginasOK ==
  /\ form \in [Abas -> Forms]
  /\ \A a \in Abas : form[a].pagina = "edit" => form[a].pedido \in PedidoIds
  /\ respostas \in [Abas -> Seq(Totais)]

BancoOK ==
  /\ pedido \in [PedidoIds -> Totais]
  /\ pedido_item \in [PedidoIds -> Listas]
  /\ pedido_id_seq \in 1..(MaxPedidos + 1)
  /\ produto \subseteq Produtos
  /\ manchados \subseteq PedidoIds

LEMMA Partes == TypeOK <=> BancoOK /\ facade \in [Sessoes -> Facade] /\ PaginasOK
  BY DEF TypeOK, BancoOK, PaginasOK

LEMMA NavegaTipo ==
  ASSUME PaginasOK, NEW a \in Abas, NEW pagina \in Forms,
         pagina.pagina = "edit" => pagina.pedido \in PedidoIds,
         Navega(a, pagina)
  PROVE  PaginasOK'
<1>1. <<>> \in Seq(Totais)
  BY EmptySeq
<1> QED
  BY <1>1 DEF PaginasOK, Navega

LEMMA OutraPaginaTipo == OutraPagina \in Forms /\ OutraPagina.pagina = "outra"
  BY DEF OutraPagina, Forms, Totais

LEMMA RespondeTipo ==
  ASSUME PaginasOK, NEW a \in Abas, NEW f \in Facade, Responde(a, f), UNCHANGED form
  PROVE  PaginasOK'
<1>1. setPedido(getQuantidadeTotal(f.itens)) \in Totais
  BY SetPedidoTipo DEF Facade
<1>2. Append(respostas[a], setPedido(getQuantidadeTotal(f.itens))) \in Seq(Totais)
  BY <1>1, AppendProperties DEF PaginasOK
<1> QED
  BY <1>2 DEF PaginasOK, Responde

LEMMA TypeInit == Init => TypeOK
<1> SUFFICES ASSUME Init PROVE TypeOK
  OBVIOUS
<1>1. BancoOK
  BY VaziaTipo, ConstantesOK DEF Init, BancoOK, Totais
<1>2. facade \in [Sessoes -> Facade]
  BY VaziaTipo, EmptySeq DEF Init, Facade
<1>3. PaginasOK
  <2>1. \A a \in Abas : respostas[a] \in Seq(Totais)
    BY EmptySeq DEF Init
  <2> QED
    BY <2>1, OutraPaginaTipo DEF Init, PaginasOK
<1> QED
  BY <1>1, <1>2, <1>3, Partes

\* What an action leaves of the types when it changes neither tables nor pages.
LEMMA BancoInalteradoTipo == BancoOK /\ BancoInalterado => BancoOK'
  BY DEF BancoOK, BancoInalterado

LEMMA FacadeTipo ==
  ASSUME facade \in [Sessoes -> Facade], NEW s \in Sessoes, NEW f \in Facade,
         facade' = [facade EXCEPT ![s] = f]
  PROVE  facade' \in [Sessoes -> Facade]
  OBVIOUS

LEMMA PaginasInalteradasTipo == PaginasOK /\ UNCHANGED <<form, respostas>> => PaginasOK'
  BY DEF PaginasOK

LEMMA TypeStep == TypeOK /\ [Next]_vars => TypeOK'
<1> SUFFICES ASSUME BancoOK, facade \in [Sessoes -> Facade], PaginasOK, [Next]_vars
             PROVE  BancoOK' /\ facade' \in [Sessoes -> Facade] /\ PaginasOK'
  BY DEF TypeOK, BancoOK, PaginasOK
<1> USE ConstantesOK
<1>1. ASSUME NEW a \in Abas, Create(a)
      PROVE  BancoOK' /\ facade' \in [Sessoes -> Facade] /\ PaginasOK'
  <2>1. PaginaCreate \in Forms /\ PaginaCreate.pagina = "create"
    BY DEF PaginaCreate, Forms, Totais
  <2>2. PaginasOK'
    BY <1>1, <2>1, OutraPaginaTipo, NavegaTipo DEF Create
  <2> QED
    BY <1>1, <2>2, BancoInalteradoTipo, FacadeNovaTipo DEF Create
<1>2. ASSUME NEW a \in Abas, Show(a)
      PROVE  BancoOK' /\ facade' \in [Sessoes -> Facade] /\ PaginasOK'
  BY <1>2, BancoInalteradoTipo, FacadeNovaTipo, NavegaTipo, OutraPaginaTipo DEF Show
<1>3. ASSUME NEW a \in Abas, NEW id \in PedidoIds, Edit(a, id)
      PROVE  BancoOK' /\ facade' \in [Sessoes -> Facade] /\ PaginasOK'
  <2>1. pedido[id] # Nulo => PaginaEdit(id) \in Forms /\ PaginaEdit(id).pedido \in PedidoIds
    BY DEF PaginaEdit, Forms, BancoOK
  <2>2. initUpdate(facade[Sessao[a]], id) \in Facade
    BY InitUpdateTipo DEF BancoOK
  <2>3. PaginasOK'
    BY <1>3, <2>1, OutraPaginaTipo, NavegaTipo DEF Edit
  <2> QED
    BY <1>3, <2>2, <2>3, BancoInalteradoTipo DEF Edit
<1>4. ASSUME NEW a \in Abas, NEW p \in Produtos, NEW q \in Quantidades, AddItem(a, p, q)
      PROVE  BancoOK' /\ facade' \in [Sessoes -> Facade] /\ PaginasOK'
  <2>1. addItem(facade[Sessao[a]], p, q) \in Facade
    BY AddItemTipo
  <2> QED
    BY <1>4, <2>1, BancoInalteradoTipo, RespondeTipo DEF AddItem
<1>5. ASSUME NEW a \in Abas, NEW p \in Produtos, RemoveItem(a, p)
      PROVE  BancoOK' /\ facade' \in [Sessoes -> Facade] /\ PaginasOK'
  <2>1. removeItem(facade[Sessao[a]], p) \in Facade
    BY RemoveItemTipo
  <2> QED
    BY <1>5, <2>1, BancoInalteradoTipo, RespondeTipo DEF RemoveItem
<1>6. ASSUME NEW a \in Abas, NEW i \in 1..MaxRespostas, RecebeTotal(a, i) \/ PerdeTotal(a, i)
      PROVE  BancoOK' /\ facade' \in [Sessoes -> Facade] /\ PaginasOK'
  <2> DEFINE s == respostas[a]
             resto == SubSeq(s, 1, i - 1) \o SubSeq(s, i + 1, Len(s))
  <2>1. s \in Seq(Totais) /\ i \in 1..Len(s)
    BY <1>6 DEF PaginasOK, RecebeTotal, PerdeTotal, SemResposta
  <2>2. s[i] \in Totais
    BY <2>1, ElementOfSeq
  <2>3. resto \in Seq(Totais)
    BY <2>1, RecebeTipo
  <2>4. /\ form' = [form EXCEPT ![a].quantidade = s[i]] \/ form' = form
        /\ respostas' = [respostas EXCEPT ![a] = resto]
    BY <1>6 DEF RecebeTotal, PerdeTotal, SemResposta
  <2>5. PaginasOK'
    <3> HIDE DEF s, resto
    <3>1. CASE form' = [form EXCEPT ![a].quantidade = s[i]]
      <4>1. form' \in [Abas -> Forms]
        BY <2>2, <3>1 DEF PaginasOK, Forms
      <4>2. \A b \in Abas : form'[b].pagina = form[b].pagina /\ form'[b].pedido = form[b].pedido
        BY <3>1 DEF PaginasOK, Forms
      <4> QED
        BY <2>3, <2>4, <4>1, <4>2 DEF PaginasOK
    <3>2. CASE form' = form
      BY <2>3, <2>4, <3>2 DEF PaginasOK
    <3> QED
      BY <2>4, <3>1, <3>2
  <2> QED
    BY <1>6, <2>5, BancoInalteradoTipo DEF RecebeTotal, PerdeTotal, SemResposta
<1>7. ASSUME NEW a \in Abas, Store(a)
      PROVE  BancoOK' /\ facade' \in [Sessoes -> Facade] /\ PaginasOK'
  <2>1. pedido_id_seq \in PedidoIds
    BY <1>7 DEF Store, PodeCadastrar, BancoOK
  <2>2. Rechaveia(facade[Sessao[a]], pedido_id_seq, Contidos(facade[Sessao[a]].itens)) \in Facade
    BY <2>1, RechaveiaTipo
  <2>3. facade[Sessao[a]].itens \in Listas /\ form[a].quantidade \in Totais
    BY DEF Facade, PaginasOK, Forms
  <2>4. BancoOK'
    BY <1>7, <2>1, <2>3 DEF Store, BancoOK
  <2> QED
    BY <1>7, <2>2, <2>4, PaginasInalteradasTipo DEF Store, Submetido
<1>8. ASSUME NEW a \in Abas, StoreFalha(a)
      PROVE  BancoOK' /\ facade' \in [Sessoes -> Facade] /\ PaginasOK'
  <2>1. pedido_id_seq \in PedidoIds
    BY <1>8 DEF StoreFalha, PodeCadastrar, BancoOK
  <2>2. \A K : Rechaveia(facade[Sessao[a]], pedido_id_seq, K) \in Facade
    BY <2>1, RechaveiaTipo
  <2>3. BancoOK'
    BY <1>8, <2>1 DEF StoreFalha, BancoOK
  <2>4. facade' \in [Sessoes -> Facade]
    BY <1>8, <2>2 DEF StoreFalha
  <2> QED
    BY <1>8, <2>3, <2>4, PaginasInalteradasTipo DEF StoreFalha, Submetido
<1>9. ASSUME NEW a \in Abas, Update(a)
      PROVE  BancoOK' /\ facade' \in [Sessoes -> Facade] /\ PaginasOK'
  <2> DEFINE f == facade[Sessao[a]]
             id == form[a].pedido
             restantes == deleteItens(f.removedItens)
  <2>1. id \in PedidoIds /\ f \in Facade
    BY <1>9 DEF Update, PodeAlterar, PaginasOK
  <2>2. f.itens \in Listas /\ form[a].quantidade \in Totais
    BY <2>1 DEF Facade, PaginasOK, Forms
  <2>3. restantes \in [PedidoIds -> Listas]
    BY DEF deleteItens, BancoOK, Listas
  <2>4. GravaItens(restantes, id, f) \in [PedidoIds -> Listas]
    <3> HIDE DEF f, id, restantes
    <3>1. [p \in Produtos |-> IF f.itens[p] > 0 THEN f.itens[p] ELSE restantes[id][p]] \in Listas
      BY <2>1, <2>2, <2>3 DEF Listas
    <3> QED
      BY <2>1, <2>3, <3>1 DEF GravaItens
  <2>5. Desfalcados(f, id) \subseteq PedidoIds
    BY DEF Desfalcados
  <2>6. BancoOK'
    BY <1>9, <2>1, <2>2, <2>4, <2>5 DEF Update, BancoOK
  <2>7. facade' \in [Sessoes -> Facade]
    BY <1>9, <2>1, RechaveiaTipo DEF Update
  <2> QED
    BY <1>9, <2>6, <2>7, PaginasInalteradasTipo DEF Update, Submetido
<1>10. ASSUME NEW a \in Abas, UpdateFalha(a)
       PROVE  BancoOK' /\ facade' \in [Sessoes -> Facade] /\ PaginasOK'
  <2>1. form[a].pedido \in PedidoIds
    BY <1>10 DEF UpdateFalha, PodeAlterar, PaginasOK
  <2>2. \A K : Rechaveia(facade[Sessao[a]], form[a].pedido, K) \in Facade
    BY <2>1, RechaveiaTipo
  <2>3. BancoOK'
    BY <1>10 DEF UpdateFalha, BancoOK
  <2>4. facade' \in [Sessoes -> Facade]
    BY <1>10, <2>2 DEF UpdateFalha
  <2> QED
    BY <1>10, <2>3, <2>4, PaginasInalteradasTipo DEF UpdateFalha, Submetido
<1>11. ASSUME NEW id \in PedidoIds, Destroy(id)
       PROVE  BancoOK' /\ facade' \in [Sessoes -> Facade] /\ PaginasOK'
  <2>1. BancoOK'
    BY <1>11, VaziaTipo DEF Destroy, BancoOK, Totais
  <2> QED
    BY <1>11, <2>1, PaginasInalteradasTipo DEF Destroy
<1>12. ASSUME NEW p \in Produtos, DestroyProduto(p)
       PROVE  BancoOK' /\ facade' \in [Sessoes -> Facade] /\ PaginasOK'
  <2>1. BancoOK'
    BY <1>12 DEF DestroyProduto, BancoOK
  <2> QED
    BY <1>12, <2>1, PaginasInalteradasTipo DEF DestroyProduto
<1>13. ASSUME NEW s \in Sessoes, SessaoExpira(s)
       PROVE  BancoOK' /\ facade' \in [Sessoes -> Facade] /\ PaginasOK'
  BY <1>13, BancoInalteradoTipo, FacadeNovaTipo, PaginasInalteradasTipo DEF SessaoExpira
<1>14. CASE UNCHANGED vars
  <2>1. BancoOK'
    BY <1>14 DEF BancoOK, vars
  <2> QED
    BY <1>14, <2>1, PaginasInalteradasTipo DEF vars
<1> QED
  BY <1>1, <1>2, <1>3, <1>4, <1>5, <1>6, <1>7, <1>8, <1>9, <1>10, <1>11, <1>12, <1>13, <1>14
     DEF Next

\* Every table row, session bean, page and answer holds values of its type,
\* whatever the requests and their order: an edit page always names an order.
THEOREM TypeCorrect == Spec => []TypeOK
  BY TypeInit, TypeStep, PTL DEF Spec

----------------------------------------------------------------------------
(* The totals agree with the rows *)

LEMMA ListasNat ==
  ASSUME NEW lista \in Listas
  PROVE  lista \in [Produtos -> Nat]
<1>1. Quantidades \cup {0} \subseteq Nat
  <2>1. 1..(MeioShort - 1) \subseteq Nat
    BY ConstantesOK
  <2> QED
    BY <2>1, ConstantesOK
<1> QED
  BY <1>1 DEF Listas

\* What the merge of a list that accounts for every row of the order writes is
\* the list itself: each row it does not hold was deleted first.
LEMMA GravaALista ==
  ASSUME TypeOK, NEW f \in Facade, NEW id \in PedidoIds, Cobre(f, id)
  PROVE  GravaItens(deleteItens(f.removedItens), id, f)[id] = f.itens
<1> DEFINE restantes == deleteItens(f.removedItens)
           gravados == [p \in Produtos |-> IF f.itens[p] > 0 THEN f.itens[p]
                                           ELSE restantes[id][p]]
<1>1. restantes \in [PedidoIds -> [Produtos -> Int]] /\ f.itens \in [Produtos -> Nat]
  <2>1. \A i \in PedidoIds : pedido_item[i] \in [Produtos -> Nat]
    BY ListasNat DEF TypeOK
  <2> QED
    BY <2>1, ListasNat DEF deleteItens, Facade
<1>2. ASSUME NEW p \in Produtos
      PROVE  gravados[p] = f.itens[p]
  <2>1. CASE f.itens[p] > 0
    BY <2>1
  <2>2. CASE ~ (f.itens[p] > 0)
    <3>1. f.itens[p] = 0
      BY <1>1, <2>2
    <3>2. pedido_item[id][p] \in Nat
      BY ListasNat DEF TypeOK
    <3>3. restantes[id][p] = 0
      BY <2>2, <3>2 DEF Cobre, deleteItens
    <3> QED
      BY <2>2, <3>1, <3>3
  <2> QED
    BY <2>1, <2>2
<1>3. gravados = f.itens
  BY <1>1, <1>2
<1>4. GravaItens(restantes, id, f)[id] = gravados
  <2> HIDE DEF restantes
  <2> QED
    BY <1>1 DEF GravaItens
<1> QED
  BY <1>3, <1>4

\* A save leaves every other order's rows as they were, but for the rows it
\* removes from the orders it leaves short.
LEMMA GravaSoOPedido ==
  ASSUME TypeOK, NEW f \in Facade, NEW id \in PedidoIds,
         NEW i \in PedidoIds \ {id}, i \notin Desfalcados(f, id)
  PROVE  GravaItens(deleteItens(f.removedItens), id, f)[i] = pedido_item[i]
<1> DEFINE restantes == deleteItens(f.removedItens)
<1>1. \A p \in Produtos : <<i, p>> \notin Range(f.removedItens)
  BY DEF Desfalcados
<1>2. restantes[i] = [p \in Produtos |-> pedido_item[i][p]]
  BY <1>1 DEF deleteItens
<1>3. pedido_item[i] \in [Produtos -> Quantidades \cup {0}]
  BY DEF TypeOK, Listas
<1>4. restantes[i] = pedido_item[i]
  BY <1>2, <1>3
<1>5. GravaItens(restantes, id, f)[i] = restantes[i]
  <2>1. i \in DOMAIN restantes
    BY DEF deleteItens
  <2> HIDE DEF restantes
  <2> QED
    BY <2>1 DEF GravaItens
<1> QED
  BY <1>4, <1>5

LEMMA TotalsStep ==
  ASSUME TypeOK, TotalsAgreeUnlessStale, [Next]_vars
  PROVE  TotalsAgreeUnlessStale'
<1> USE ConstantesOK
<1>1. ASSUME NEW a \in Abas, Store(a)
      PROVE  TotalsAgreeUnlessStale'
  <2> DEFINE f == facade[Sessao[a]]
  <2>1. pedido_id_seq \in PedidoIds
    BY <1>1 DEF Store, PodeCadastrar, TypeOK
  <2>2. form[a].quantidade = getQuantidadeTotal(f.itens)
    BY <1>1 DEF Store, PodeCadastrar, verificaQuantidadeAndCusto
  <2>3. ASSUME NEW i \in PedidoIds \ manchados', pedido'[i] # Nulo
        PROVE  pedido'[i] = getQuantidadeTotal(pedido_item'[i])
    <3>1. CASE i = pedido_id_seq
      <4>1. pedido'[i] = form[a].quantidade /\ pedido_item'[i] = f.itens
        BY <1>1, <2>1, <3>1 DEF Store, TypeOK
      <4> QED
        BY <2>2, <4>1
    <3>2. CASE i # pedido_id_seq
      <4>1. pedido'[i] = pedido[i] /\ pedido_item'[i] = pedido_item[i] /\ i \notin manchados
        BY <1>1, <2>1, <2>3, <3>2 DEF Store, TypeOK
      <4> QED
        BY <2>3, <4>1 DEF TotalsAgreeUnlessStale
    <3> QED
      BY <3>1, <3>2
  <2> QED
    BY <2>3 DEF TotalsAgreeUnlessStale
<1>2. ASSUME NEW a \in Abas, Update(a)
      PROVE  TotalsAgreeUnlessStale'
  <2> DEFINE f == facade[Sessao[a]]
             id == form[a].pedido
  <2>1. id \in PedidoIds /\ f \in Facade
    BY <1>2 DEF Update, PodeAlterar, TypeOK
  <2>2. form[a].quantidade = getQuantidadeTotal(f.itens)
    BY <1>2 DEF Update, PodeAlterar, verificaQuantidadeAndCusto
  <2>3. /\ pedido' = [pedido EXCEPT ![id] = form[a].quantidade]
        /\ pedido_item' = GravaItens(deleteItens(f.removedItens), id, f)
        /\ manchados' = (IF Cobre(f, id) THEN manchados \ {id} ELSE manchados \cup {id})
                          \cup Desfalcados(f, id)
    BY <1>2 DEF Update
  <2> HIDE DEF f, id
  <2>4. ASSUME NEW i \in PedidoIds \ manchados', pedido'[i] # Nulo
        PROVE  pedido'[i] = getQuantidadeTotal(pedido_item'[i])
    <3>1. CASE i = id
      <4>1. pedido'[i] = form[a].quantidade
        BY <2>1, <2>3, <3>1 DEF TypeOK
      <4>2. Cobre(f, id)
        BY <2>3, <2>4, <3>1
      <4>3. pedido_item'[i] = f.itens
        BY <2>1, <2>3, <3>1, <4>2, GravaALista
      <4> QED
        BY <2>2, <4>1, <4>3 DEF f
    <3>2. CASE i # id
      <4>1. i \notin Desfalcados(f, id) /\ i \notin manchados
        BY <2>3, <2>4, <3>2
      <4>2. pedido'[i] = pedido[i]
        BY <2>3, <2>4, <3>2 DEF TypeOK
      <4>3. pedido_item'[i] = pedido_item[i]
        BY <2>1, <2>3, <2>4, <3>2, <4>1, GravaSoOPedido
      <4> QED
        BY <2>4, <4>1, <4>2, <4>3 DEF TotalsAgreeUnlessStale
    <3> QED
      BY <3>1, <3>2
  <2> QED
    BY <2>4 DEF TotalsAgreeUnlessStale
<1>3. ASSUME NEW id \in PedidoIds, Destroy(id)
      PROVE  TotalsAgreeUnlessStale'
  <2>1. ASSUME NEW i \in PedidoIds \ manchados', pedido'[i] # Nulo
        PROVE  pedido'[i] = getQuantidadeTotal(pedido_item'[i])
    <3>1. i # id
      BY <1>3, <2>1 DEF Destroy, TypeOK
    <3>2. pedido'[i] = pedido[i] /\ pedido_item'[i] = pedido_item[i] /\ manchados' = manchados
      BY <1>3, <3>1 DEF Destroy, TypeOK
    <3> QED
      BY <2>1, <3>2 DEF TotalsAgreeUnlessStale
  <2> QED
    BY <2>1 DEF TotalsAgreeUnlessStale
<1>4. ASSUME UNCHANGED <<pedido, pedido_item, manchados>>
      PROVE  TotalsAgreeUnlessStale'
  BY <1>4 DEF TotalsAgreeUnlessStale
<1> QED
  BY <1>1, <1>2, <1>3, <1>4
     DEF Next, vars, BancoInalterado, Create, Show, Edit, AddItem, RemoveItem, RecebeTotal,
         PerdeTotal, SemResposta, StoreFalha, UpdateFalha, DestroyProduto, SessaoExpira

\* The total stored with an order agrees with its rows, for any number of
\* sessions and tabs, unless a save went through with a list that did not
\* account for every row of the order or removed rows of another one.
THEOREM TotalsCorrect == Spec => []TotalsAgreeUnlessStale
<1>1. Init => TotalsAgreeUnlessStale
  BY DEF Init, TotalsAgreeUnlessStale
<1>2. TypeOK /\ TotalsAgreeUnlessStale /\ [Next]_vars => TotalsAgreeUnlessStale'
  BY TotalsStep
<1> QED
  BY <1>1, <1>2, TypeCorrect, PTL DEF Spec

----------------------------------------------------------------------------
(* Orders do not come back *)

LEMMA NoResurrectionStep ==
  ASSUME TypeOK, [Next]_vars, NEW i \in PedidoIds, i < pedido_id_seq, pedido[i] = Nulo
  PROVE  pedido'[i] = Nulo
<1>1. ASSUME NEW a \in Abas, Store(a)
      PROVE  pedido'[i] = Nulo
  <2>1. i # pedido_id_seq
    BY ConstantesOK DEF TypeOK
  <2> QED
    BY <1>1, <2>1 DEF Store, TypeOK
<1>2. ASSUME NEW a \in Abas, Update(a)
      PROVE  pedido'[i] = Nulo
  <2>1. pedido[form[a].pedido] # Nulo
    BY <1>2 DEF Update, PodeAlterar
  <2> QED
    BY <1>2, <2>1 DEF Update, TypeOK
<1>3. ASSUME NEW id \in PedidoIds, Destroy(id)
      PROVE  pedido'[i] = Nulo
  BY <1>3 DEF Destroy, TypeOK
<1>4. ASSUME UNCHANGED pedido
      PROVE  pedido'[i] = Nulo
  BY <1>4
<1> QED
  BY <1>1, <1>2, <1>3, <1>4
     DEF Next, vars, BancoInalterado, Create, Show, Edit, AddItem, RemoveItem, RecebeTotal,
         PerdeTotal, SemResposta, StoreFalha, UpdateFalha, DestroyProduto, SessaoExpira

\* An order that was deleted, or whose number was lost to a roll-back, never
\* comes back, whatever stale forms any number of tabs and sessions save.
THEOREM DeletedStaysDeleted == Spec => NoResurrection
<1>1. TypeOK /\ [Next]_vars =>
        [\A id \in PedidoIds :
           id < pedido_id_seq /\ pedido[id] = Nulo => pedido'[id] = Nulo]_vars
  BY NoResurrectionStep
<1> QED
  BY <1>1, TypeCorrect, PTL DEF Spec, NoResurrection

----------------------------------------------------------------------------
(* One tab per session *)

\* No two tabs share a session.
UmaAbaCadaSessao == \A a, b \in Abas : Sessao[a] = Sessao[b] => a = b

\* A product that is not in the list has no key: what removeItem and the
\* initialisations of the bean leave, and addItem relies on.
ChaveSoDeItem ==
  \A s \in Sessoes, p \in Produtos :
    ~ (facade[s].itens[p] > 0) => facade[s].dono[p] = Nulo

ListaOK(f, id) ==
  /\ \A p \in Contidos(f.itens) : f.dono[p] \in {Nulo, id}
  /\ \A k \in Range(f.removedItens) : k[1] = id

\* The inductive form of ListBelongsToForm.
ListInv == ChaveSoDeItem /\ ListBelongsToForm

LEMMA ListaVaziaOK == \A id : \A k \in Range(<<>>) : k[1] = id
  BY DEF Range

\* A request of tab a changes the bean of its session and no other page.
LEMMA ListLocal ==
  ASSUME TypeOK, ListInv, UmaAbaCadaSessao,
         NEW a \in Abas, NEW f \in Facade,
         facade' = [facade EXCEPT ![Sessao[a]] = f],
         \A b \in Abas \ {a} : form'[b] = form[b],
         \A p \in Produtos : ~ (f.itens[p] > 0) => f.dono[p] = Nulo,
         form'[a].pagina = "edit" /\ f.criada => ListaOK(f, form'[a].pedido)
  PROVE  ListInv'
<1> USE ConstantesOK
<1>1. ChaveSoDeItem'
  BY DEF ListInv, ChaveSoDeItem, TypeOK
<1>2. ASSUME NEW b \in Abas, form'[b].pagina = "edit", facade'[Sessao[b]].criada
      PROVE  ListaOK(facade'[Sessao[b]], form'[b].pedido)
  <2>1. CASE b = a
    BY <1>2, <2>1 DEF TypeOK
  <2>2. CASE b # a
    <3>1. Sessao[b] # Sessao[a]
      BY <2>2 DEF UmaAbaCadaSessao
    <3>2. facade'[Sessao[b]] = facade[Sessao[b]] /\ form'[b] = form[b]
      BY <2>2, <3>1 DEF TypeOK
    <3> QED
      BY <1>2, <3>2 DEF ListInv, ListBelongsToForm, ListaOK
  <2> QED
    BY <2>1, <2>2
<1>3. ListBelongsToForm'
  BY <1>2 DEF ListBelongsToForm, ListaOK
<1> QED
  BY <1>1, <1>3 DEF ListInv

LEMMA ListNova ==
  ASSUME NEW f
  PROVE  /\ \A p \in Produtos : initCreate(f).dono[p] = Nulo /\ initShow(f).dono[p] = Nulo
         /\ ~ initShow(f).criada
  BY DEF initCreate, initShow, SemDono

\* Saving keys items of the list only, and by the order it saves.
LEMMA ListRechaveia ==
  ASSUME NEW f \in Facade, NEW id \in PedidoIds, NEW K \in SUBSET Contidos(f.itens),
         \A p \in Produtos : ~ (f.itens[p] > 0) => f.dono[p] = Nulo
  PROVE  /\ \A p \in Produtos : ~ (Rechaveia(f, id, K).itens[p] > 0)
                                  => Rechaveia(f, id, K).dono[p] = Nulo
         /\ ListaOK(f, id) => ListaOK(Rechaveia(f, id, K), id)
<1>1. /\ Rechaveia(f, id, K).itens = f.itens
      /\ Rechaveia(f, id, K).removedItens = f.removedItens
      /\ Rechaveia(f, id, K).dono = [p \in Produtos |-> IF p \in K THEN id ELSE f.dono[p]]
  BY DEF Rechaveia, Facade
<1> QED
  BY <1>1 DEF ListaOK, Contidos

LEMMA ListAddItem ==
  ASSUME NEW f \in Facade, NEW q \in Produtos, NEW n \in Quantidades, NEW id,
         \A p \in Produtos : ~ (f.itens[p] > 0) => f.dono[p] = Nulo
  PROVE  /\ \A p \in Produtos : ~ (addItem(f, q, n).itens[p] > 0)
                                  => addItem(f, q, n).dono[p] = Nulo
         /\ ListaOK(f, id) => ListaOK(addItem(f, q, n), id)
<1>1. /\ addItem(f, q, n).itens = [f.itens EXCEPT ![q] = n]
      /\ addItem(f, q, n).dono = f.dono
      /\ addItem(f, q, n).removedItens = f.removedItens
  BY DEF addItem, Facade
<1>2. n > 0
  BY ConstantesOK
<1> QED
  BY <1>1, <1>2 DEF ListaOK, Contidos, Facade, Listas

LEMMA ListRemoveItem ==
  ASSUME NEW f \in Facade, NEW q \in Produtos, f.itens[q] > 0, NEW id,
         \A p \in Produtos : ~ (f.itens[p] > 0) => f.dono[p] = Nulo
  PROVE  /\ \A p \in Produtos : ~ (removeItem(f, q).itens[p] > 0)
                                  => removeItem(f, q).dono[p] = Nulo
         /\ ListaOK(f, id) => ListaOK(removeItem(f, q), id)
<1> DEFINE chave == <<f.dono[q], q>>
<1>1. /\ removeItem(f, q).itens = [f.itens EXCEPT ![q] = 0]
      /\ removeItem(f, q).dono = [f.dono EXCEPT ![q] = Nulo]
      /\ removeItem(f, q).removedItens = IF f.dono[q] = Nulo THEN f.removedItens
                                         ELSE Append(f.removedItens, chave)
  BY DEF removeItem, Facade
<1>2. f.itens \in [Produtos -> Quantidades \cup {0}] /\ DOMAIN f.dono = Produtos
  BY DEF Facade, Listas
<1>3. \A p \in Produtos : ~ (removeItem(f, q).itens[p] > 0)
                            => removeItem(f, q).dono[p] = Nulo
  BY <1>1, <1>2
<1>4. ASSUME ListaOK(f, id)
      PROVE  ListaOK(removeItem(f, q), id)
  <2>1. \A p \in Contidos(removeItem(f, q).itens) : removeItem(f, q).dono[p] \in {Nulo, id}
    BY <1>1, <1>2, <1>4 DEF ListaOK, Contidos
  <2>2. ASSUME f.dono[q] # Nulo
        PROVE  \A k \in Range(Append(f.removedItens, chave)) : k[1] = id
    <3>1. f.dono[q] = id
      BY <1>4, <2>2 DEF ListaOK, Contidos
    <3>2. f.removedItens \in Seq(PedidoIds \X Produtos) /\ chave \in PedidoIds \X Produtos
      BY <2>2 DEF Facade
    <3> DEFINE r == f.removedItens
               m == Append(r, chave)
    <3>3. /\ Len(r) \in Nat /\ Len(m) = Len(r) + 1
          /\ DOMAIN r = 1..Len(r) /\ DOMAIN m = 1..Len(m)
          /\ \A i \in 1..Len(r) : m[i] = r[i]
          /\ m[Len(r) + 1] = chave
      BY <3>2, AppendProperties, LenProperties
    <3>4. \A i \in 1..Len(r) : r[i][1] = id
      BY <1>4, <3>3 DEF ListaOK, Range
    <3> HIDE DEF m, r
    <3>5. \A i \in 1..Len(m) : m[i][1] = id
      BY <3>1, <3>3, <3>4
    <3> QED
      BY <3>3, <3>5 DEF Range, m, r
  <2> QED
    BY <1>1, <1>4, <2>1, <2>2 DEF ListaOK
<1> QED
  BY <1>3, <1>4

LEMMA ListInit == Init => ListInv
<1> SUFFICES ASSUME Init PROVE ListInv
  OBVIOUS
<1>1. ChaveSoDeItem
  BY DEF Init, ChaveSoDeItem, SemDono
<1>2. \A a \in Abas : form[a].pagina = "outra"
  BY OutraPaginaTipo DEF Init
<1> QED
  BY <1>1, <1>2 DEF ListInv, ListBelongsToForm

LEMMA ListStep ==
  ASSUME TypeOK, TypeOK', ListInv, UmaAbaCadaSessao, [Next]_vars
  PROVE  ListInv'
<1> USE ConstantesOK
<1>c. \A s \in Sessoes, p \in Produtos :
        ~ (facade[s].itens[p] > 0) => facade[s].dono[p] = Nulo
  BY DEF ListInv, ChaveSoDeItem
<1>l. \A a \in Abas : form[a].pagina = "edit" /\ facade[Sessao[a]].criada
                        => ListaOK(facade[Sessao[a]], form[a].pedido)
  BY DEF ListInv, ListBelongsToForm, ListaOK
<1>f. \A s \in Sessoes : facade[s] \in Facade
  BY DEF TypeOK
<1>1. ASSUME NEW a \in Abas, Create(a)
      PROVE  ListInv'
  <2>1. form'[a].pagina # "edit" /\ \A b \in Abas \ {a} : form'[b] = form[b]
    BY <1>1, OutraPaginaTipo DEF Create, PaginaCreate, Navega, TypeOK
  <2> DEFINE f == initCreate(facade[Sessao[a]])
  <2>2. f \in Facade /\ \A p \in Produtos : f.dono[p] = Nulo
    BY ListNova, FacadeNovaTipo
  <2>3. facade' = [facade EXCEPT ![Sessao[a]] = f]
    BY <1>1 DEF Create
  <2> HIDE DEF f
  <2> QED
    BY <2>1, <2>2, <2>3, ListLocal
<1>2. ASSUME NEW a \in Abas, Show(a)
      PROVE  ListInv'
  <2>1. \A b \in Abas \ {a} : form'[b] = form[b]
    BY <1>2 DEF Show, Navega, TypeOK
  <2> DEFINE f == initShow(facade[Sessao[a]])
  <2>2. f \in Facade /\ ~ f.criada /\ \A p \in Produtos : f.dono[p] = Nulo
    BY ListNova, FacadeNovaTipo
  <2>3. facade' = [facade EXCEPT ![Sessao[a]] = f]
    BY <1>2 DEF Show
  <2> HIDE DEF f
  <2> QED
    BY <2>1, <2>2, <2>3, ListLocal
<1>3. ASSUME NEW a \in Abas, NEW id \in PedidoIds, Edit(a, id)
      PROVE  ListInv'
  <2> DEFINE f == initUpdate(facade[Sessao[a]], id)
  <2>1. \A b \in Abas \ {a} : form'[b] = form[b]
    BY <1>3 DEF Edit, Navega, TypeOK
  <2>2. form'[a].pagina = "edit" => form'[a].pedido = id
    BY <1>3, OutraPaginaTipo DEF Edit, PaginaEdit, Navega, TypeOK
  <2>3. /\ \A p \in Produtos : ~ (f.itens[p] > 0) => f.dono[p] = Nulo
        /\ ListaOK(f, id)
    BY ListaVaziaOK DEF initUpdate, DonoCarregado, ListaOK, Contidos
  <2>4. f \in Facade
    BY InitUpdateTipo DEF TypeOK
  <2>5. facade' = [facade EXCEPT ![Sessao[a]] = f]
    BY <1>3 DEF Edit
  <2> HIDE DEF f
  <2> QED
    BY <2>1, <2>2, <2>3, <2>4, <2>5, ListLocal
<1>4. ASSUME NEW a \in Abas, NEW p \in Produtos, NEW q \in Quantidades, AddItem(a, p, q)
      PROVE  ListInv'
  <2> DEFINE f == facade[Sessao[a]]
  <2>1. f.criada /\ facade' = [facade EXCEPT ![Sessao[a]] = addItem(f, p, q)] /\ form' = form
    BY <1>4 DEF AddItem
  <2>2. addItem(f, p, q) \in Facade
    BY <1>f, AddItemTipo
  <2>3. /\ \A r \in Produtos : ~ (addItem(f, p, q).itens[r] > 0) => addItem(f, p, q).dono[r] = Nulo
        /\ ListaOK(f, form[a].pedido) => ListaOK(addItem(f, p, q), form[a].pedido)
    BY <1>f, <1>c, ListAddItem
  <2> QED
    BY <1>l, <2>1, <2>2, <2>3, ListLocal
<1>5. ASSUME NEW a \in Abas, NEW p \in Produtos, RemoveItem(a, p)
      PROVE  ListInv'
  <2> DEFINE f == facade[Sessao[a]]
  <2>1. /\ f.criada /\ f.itens[p] > 0
        /\ facade' = [facade EXCEPT ![Sessao[a]] = removeItem(f, p)] /\ form' = form
    BY <1>5 DEF RemoveItem
  <2>2. removeItem(f, p) \in Facade
    BY <1>f, RemoveItemTipo
  <2>3. /\ \A r \in Produtos : ~ (removeItem(f, p).itens[r] > 0) => removeItem(f, p).dono[r] = Nulo
        /\ ListaOK(f, form[a].pedido) => ListaOK(removeItem(f, p), form[a].pedido)
    BY <1>f, <1>c, <2>1, ListRemoveItem
  <2> QED
    BY <1>l, <2>1, <2>2, <2>3, ListLocal
<1>6. ASSUME NEW a \in Abas, NEW id \in PedidoIds, NEW K \in SUBSET Contidos(facade[Sessao[a]].itens),
             form' = form, form[a].pagina = "edit" => form[a].pedido = id, facade[Sessao[a]].criada,
             facade' = [facade EXCEPT ![Sessao[a]] = Rechaveia(@, id, K)]
      PROVE  ListInv'
  <2> DEFINE f == facade[Sessao[a]]
  <2>1. Rechaveia(f, id, K) \in Facade
    BY <1>f, RechaveiaTipo
  <2>2. /\ \A r \in Produtos : ~ (Rechaveia(f, id, K).itens[r] > 0)
                                 => Rechaveia(f, id, K).dono[r] = Nulo
        /\ ListaOK(f, id) => ListaOK(Rechaveia(f, id, K), id)
    BY <1>f, <1>c, ListRechaveia
  <2>3. facade' = [facade EXCEPT ![Sessao[a]] = Rechaveia(f, id, K)]
    BY <1>6
  <2> QED
    BY <1>6, <1>l, <2>1, <2>2, <2>3, ListLocal
<1>7. ASSUME NEW a \in Abas, Store(a) \/ StoreFalha(a)
      PROVE  ListInv'
  <2>1. pedido_id_seq \in PedidoIds /\ form[a].pagina = "create" /\ facade[Sessao[a]].criada
    BY <1>7 DEF Store, StoreFalha, PodeCadastrar, TypeOK
  <2>2. PICK K \in SUBSET Contidos(facade[Sessao[a]].itens) :
          facade' = [facade EXCEPT ![Sessao[a]] = Rechaveia(@, pedido_id_seq, K)]
    BY <1>7 DEF Store, StoreFalha
  <2>3. form' = form
    BY <1>7 DEF Store, StoreFalha, Submetido
  <2> QED
    BY <1>6, <2>1, <2>2, <2>3
<1>8. ASSUME NEW a \in Abas, Update(a) \/ UpdateFalha(a)
      PROVE  ListInv'
  <2>1. form[a].pedido \in PedidoIds /\ facade[Sessao[a]].criada
    BY <1>8 DEF Update, UpdateFalha, PodeAlterar, TypeOK
  <2>2. PICK K \in SUBSET Contidos(facade[Sessao[a]].itens) :
          facade' = [facade EXCEPT ![Sessao[a]] = Rechaveia(@, form[a].pedido, K)]
    BY <1>8 DEF Update, UpdateFalha
  <2>3. form' = form
    BY <1>8 DEF Update, UpdateFalha, Submetido
  <2> QED
    BY <1>6, <2>1, <2>2, <2>3
<1>9. ASSUME NEW a \in Abas, NEW i \in 1..MaxRespostas, RecebeTotal(a, i) \/ PerdeTotal(a, i)
      PROVE  ListInv'
  <2>1. \A b \in Abas : form'[b].pagina = form[b].pagina /\ form'[b].pedido = form[b].pedido
    BY <1>9 DEF RecebeTotal, PerdeTotal, TypeOK, Forms
  <2>2. facade' = facade
    BY <1>9 DEF RecebeTotal, PerdeTotal, SemResposta
  <2> QED
    BY <2>1, <2>2 DEF ListInv, ChaveSoDeItem, ListBelongsToForm
<1>10. ASSUME NEW s \in Sessoes, SessaoExpira(s)
       PROVE  ListInv'
  <2>1. form' = form /\ facade' = [facade EXCEPT ![s] = initShow(@)]
    BY <1>10 DEF SessaoExpira
  <2>2. ChaveSoDeItem'
    BY <1>c, <2>1, ListNova DEF ChaveSoDeItem, TypeOK
  <2>3. \A b \in Abas : facade'[Sessao[b]].criada => facade'[Sessao[b]] = facade[Sessao[b]]
    BY <2>1, ListNova DEF TypeOK
  <2> QED
    BY <2>1, <2>2, <2>3 DEF ListInv, ListBelongsToForm
<1>11. ASSUME UNCHANGED <<facade, form>>
       PROVE  ListInv'
  BY <1>11 DEF ListInv, ChaveSoDeItem, ListBelongsToForm
<1> QED
  BY <1>1, <1>2, <1>3, <1>4, <1>5, <1>7, <1>8, <1>9, <1>10, <1>11
     DEF Next, vars, Destroy, DestroyProduto

\* When no two tabs share a session, the items a tab edits, and those it has
\* removed, are those of the order its form names.
THEOREM ListCorrect == UmaAbaCadaSessao => (Spec => []ListBelongsToForm)
<1> SUFFICES ASSUME UmaAbaCadaSessao PROVE Spec => []ListBelongsToForm
  OBVIOUS
<1>1. TypeOK /\ TypeOK' /\ ListInv /\ [Next]_vars => ListInv'
  BY ListStep
<1>2. ListInv => ListBelongsToForm
  BY DEF ListInv
<1> QED
  BY <1>1, <1>2, ListInit, TypeCorrect, PTL DEF Spec

LEMMA OneOrderStep ==
  ASSUME TypeOK, ListBelongsToForm, [Next]_vars,
         NEW i \in PedidoIds, NEW j \in PedidoIds, Alterado(i), Alterado(j)
  PROVE  i = j
<1>1. ASSUME NEW a \in Abas, Store(a)
      PROVE  i = j
  <2>1. \A k \in PedidoIds : k # pedido_id_seq => ~ Alterado(k)
    BY <1>1 DEF Store, TypeOK, Alterado
  <2> QED
    BY <2>1
<1>2. ASSUME NEW a \in Abas, Update(a)
      PROVE  i = j
  <2> DEFINE f == facade[Sessao[a]]
             id == form[a].pedido
  <2>1. f \in Facade /\ id \in PedidoIds
    BY <1>2, ConstantesOK DEF Update, PodeAlterar, TypeOK
  <2>2. \A k \in Range(f.removedItens) : k[1] = id
    BY <1>2 DEF Update, PodeAlterar, ListBelongsToForm
  <2>3. /\ pedido' = [pedido EXCEPT ![id] = form[a].quantidade]
        /\ pedido_item' = GravaItens(deleteItens(f.removedItens), id, f)
    BY <1>2 DEF Update
  <2> HIDE DEF f, id
  <2>4. ASSUME NEW k \in PedidoIds \ {id}
        PROVE  ~ Alterado(k)
    <3>1. k \notin Desfalcados(f, id)
      BY <2>2 DEF Desfalcados
    <3>2. pedido_item'[k] = pedido_item[k]
      BY <2>1, <2>3, <3>1, GravaSoOPedido
    <3> QED
      BY <2>3, <3>2 DEF TypeOK, Alterado
  <2> QED
    BY <2>1, <2>4
<1>3. ASSUME NEW id \in PedidoIds, Destroy(id)
      PROVE  i = j
  <2>1. \A k \in PedidoIds : k # id => ~ Alterado(k)
    BY <1>3 DEF Destroy, TypeOK, Alterado
  <2> QED
    BY <2>1
<1>4. ASSUME UNCHANGED <<pedido, pedido_item>>
      PROVE  i = j
  BY <1>4 DEF Alterado
<1> QED
  BY <1>1, <1>2, <1>3, <1>4
     DEF Next, vars, BancoInalterado, Create, Show, Edit, AddItem, RemoveItem, RecebeTotal,
         PerdeTotal, SemResposta, StoreFalha, UpdateFalha, DestroyProduto, SessaoExpira

\* When no two tabs share a session, a request changes the header or the rows
\* of one order at most.
THEOREM OneOrderCorrect == UmaAbaCadaSessao => (Spec => OneOrderPerRequest)
<1> SUFFICES ASSUME UmaAbaCadaSessao PROVE Spec => OneOrderPerRequest
  OBVIOUS
<1>1. TypeOK /\ ListBelongsToForm /\ [Next]_vars =>
        [\A i, j \in PedidoIds : Alterado(i) /\ Alterado(j) => i = j]_vars
  BY OneOrderStep
<1> QED
  BY <1>1, ListCorrect, TypeCorrect, PTL DEF Spec, OneOrderPerRequest

=============================================================================
