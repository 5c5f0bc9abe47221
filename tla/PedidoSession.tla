--------------------------- MODULE PedidoSession ---------------------------
(***************************************************************************)
(* The order form of Casa das Quentinhas.                                  *)
(*                                                                         *)
(* A browser tab shows the create or the edit page of an order.  The items *)
(* under edition do not travel with the form: they live in one             *)
(* PedidoItemFacade bean per HTTP session, which every tab of the session  *)
(* shares.  Saving reads the totals from the form, the items from the      *)
(* bean, and writes both to the tables pedido and pedido_item in one       *)
(* transaction.  The form's totals come from the answers to the AJAX calls *)
(* that add and remove items.  The page blocks its buttons during a call,  *)
(* but the end of any other call (the table of items is reloaded after     *)
(* each one) frees them, so several answers may be in flight; the page's   *)
(* script handles them in any order, and some are lost.                    *)
(*                                                                         *)
(* The requests of one session run one at a time, a handler is one step,   *)
(* and a transaction commits or rolls back as a whole.  What a roll-back   *)
(* does not undo is modelled: the ids the service has already written into *)
(* the session's item objects and the sequence values it has consumed.     *)
(***************************************************************************)
EXTENDS Integers, Sequences, FiniteSets, Functions

CONSTANTS
  Sessoes,        \* HTTP sessions
  Abas,           \* browser tabs
  Sessao,         \* the session of each tab: requests carry its cookie
  Produtos,       \* products the catalogue starts with
  Quantidades,    \* quantities a user may type for an item
  MeioShort,      \* a Java short is in -MeioShort .. MeioShort-1
  MaxPedidos,     \* bound: values the order sequence may deliver
  MaxRemovidos,   \* bound: length of the list of removed items
  MaxRespostas,   \* bound: AJAX answers in flight to one tab
  Nulo            \* the Java null and the empty form field

PedidoIds == 1..MaxPedidos

ASSUME ConstantesOK ==
  /\ Sessao \in [Abas -> Sessoes]
  /\ IsFiniteSet(Produtos)
  /\ MeioShort \in Nat \ {0}
  /\ Quantidades \subseteq 1..(MeioShort - 1)
  /\ MaxPedidos \in Nat
  /\ MaxRemovidos \in Nat
  /\ MaxRespostas \in Nat
  /\ Nulo \notin Int

VARIABLES
  pedido,         \* table pedido: quantidade_total of each order, Nulo: no row
  pedido_item,    \* table pedido_item: quantity per order and product, 0: no row
  pedido_id_seq,  \* next value of the sequence
  produto,        \* table produto: the products that still exist
  facade,         \* the PedidoItemFacade bean of each session
  form,           \* the page each tab shows and its hidden and read-only fields
  respostas,      \* totals answered to each tab and not handled by its script
  manchados       \* history: orders a save has left with unaccounted rows

vars == <<pedido, pedido_item, pedido_id_seq, produto, facade, form, respostas,
          manchados>>

----------------------------------------------------------------------------
(* Items and totals *)

\* A list of items: the quantity of each product in it, 0 when it has none.
\* Items of one list have distinct products (addItem, pedido_item_pk).
Listas == [Produtos -> Quantidades \cup {0}]
Vazia == [p \in Produtos |-> 0]
Contidos(lista) == {p \in Produtos : lista[p] > 0}

Soma(lista) == FoldFunction(+, 0, lista)

\* The cast (short) wraps around.
ToShort(n) == ((n + MeioShort) % (2 * MeioShort)) - MeioShort

getQuantidadeTotal(lista) == ToShort(Soma(lista))

\* The script blanks the field unless the total is positive.
setPedido(total) == IF total > 0 THEN total ELSE Nulo

Totais == {setPedido(getQuantidadeTotal(lista)) : lista \in Listas} \cup {Nulo}

\* null is neither an order nor a draft (see Contrato).
ASSUME NuloOK ==
  Nulo \notin [itens : Listas, total : Totais] \cup [numero : PedidoIds \cup {Nulo}, itens : Listas]

\* Mutant: the check of the totals is gone.
SemVerificacao(total, lista) == total # Nulo

verificaQuantidadeAndCusto(total, lista) ==
  /\ total # Nulo                        \* @NotNull of Pedido.quantidade
  /\ total = getQuantidadeTotal(lista)

----------------------------------------------------------------------------
(* The session bean *)

\* "criada" is itens # null; "dono" is the pedidoId of each item's key.
Facade == [criada : BOOLEAN,
           itens : Listas,
           dono : [Produtos -> PedidoIds \cup {Nulo}],
           removedItens : Seq(PedidoIds \X Produtos)]

SemDono == [p \in Produtos |-> Nulo]

initCreate(f) ==
  [criada |-> TRUE, itens |-> Vazia, dono |-> SemDono, removedItens |-> <<>>]

initShow(f) ==
  [criada |-> FALSE, itens |-> Vazia, dono |-> SemDono, removedItens |-> <<>>]

DonoCarregado(id) ==
  [p \in Produtos |-> IF pedido_item[id][p] > 0 THEN id ELSE Nulo]

\* Mutant: the list of removed items survives the next edition.
initUpdateMantem(f, id) ==
  [f EXCEPT !.criada = TRUE, !.itens = pedido_item[id], !.dono = DonoCarregado(id)]

\* Mutant: the items of the previous edition stay in the list.
initUpdateAcumula(f, id) ==
  [criada |-> TRUE,
   itens |-> [p \in Produtos |-> IF pedido_item[id][p] > 0
                                 THEN pedido_item[id][p] ELSE f.itens[p]],
   dono |-> [p \in Produtos |-> IF pedido_item[id][p] > 0 THEN id ELSE f.dono[p]],
   removedItens |-> <<>>]

initUpdate(f, id) ==
  [criada |-> TRUE,
   itens |-> pedido_item[id],
   dono |-> DonoCarregado(id),
   removedItens |-> <<>>]

\* Mutant: the new quantity is added to the old one.
addItemSoma(f, p, q) == [f EXCEPT !.itens[p] = @ + q]

\* An item of the list keeps its key and takes the new quantity.
addItem(f, p, q) == [f EXCEPT !.itens[p] = q]

\* Mutant: a removed item is never remembered.
removeItemEsquece(f, p) == [f EXCEPT !.itens[p] = 0, !.dono[p] = Nulo]

removeItem(f, p) ==
  [f EXCEPT !.itens[p] = 0,
            !.dono[p] = Nulo,
            !.removedItens = IF f.dono[p] = Nulo THEN @
                             ELSE Append(@, <<f.dono[p], p>>)]

\* setPedidoId(id) on the items of the set K.
Rechaveia(f, id, K) ==
  [f EXCEPT !.dono = [p \in Produtos |-> IF p \in K THEN id ELSE f.dono[p]]]

----------------------------------------------------------------------------
(* The pages *)

\* "pedido" is the hidden id, "quantidade" the read-only total.
Forms == [pagina : {"outra", "create", "edit"},
          pedido : PedidoIds \cup {Nulo},
          quantidade : Totais]

OutraPagina == [pagina |-> "outra", pedido |-> Nulo, quantidade |-> Nulo]

\* Leaving a page drops the answers its script has not handled.
Navega(a, pagina) ==
  /\ form' = [form EXCEPT ![a] = pagina]
  /\ respostas' = [respostas EXCEPT ![a] = <<>>]

BancoInalterado ==
  UNCHANGED <<pedido, pedido_item, pedido_id_seq, produto, manchados>>

Init ==
  /\ pedido = [id \in PedidoIds |-> Nulo]
  /\ pedido_item = [id \in PedidoIds |-> Vazia]
  /\ pedido_id_seq = 1
  /\ produto = Produtos
  /\ facade = [s \in Sessoes |-> [criada |-> FALSE, itens |-> Vazia,
                                  dono |-> SemDono, removedItens |-> <<>>]]
  /\ form = [a \in Abas |-> OutraPagina]
  /\ respostas = [a \in Abas |-> <<>>]
  /\ manchados = {}

PaginaCreate == [pagina |-> "create", pedido |-> Nulo, quantidade |-> Nulo]
PaginaEdit(id) == [pagina |-> "edit", pedido |-> id, quantidade |-> pedido[id]]

\* GET /pedido/create.  The bean is filled before the page is made: when that
\* fails (the navigation stack is found empty) the error page is shown.
Create(a) ==
  /\ facade' = [facade EXCEPT ![Sessao[a]] = initCreate(@)]
  /\ \E pagina \in {PaginaCreate, OutraPagina} : Navega(a, pagina)
  /\ BancoInalterado

\* GET /pedido/{id}: the items are then read from the database.
Show(a) ==
  /\ facade' = [facade EXCEPT ![Sessao[a]] = initShow(@)]
  /\ Navega(a, OutraPagina)
  /\ BancoInalterado

\* GET /pedido/{id}/edit.  The bean is filled first here too: when the order is
\* gone the error page is shown and the bean holds an empty list.
Edit(a, id) ==
  /\ facade' = [facade EXCEPT ![Sessao[a]] = initUpdate(@, id)]
  /\ \/ Navega(a, OutraPagina)
     \/ pedido[id] # Nulo /\ Navega(a, PaginaEdit(id))
  /\ BancoInalterado

\* The answer to an AJAX call carries the totals of the session's list.
Responde(a, f) ==
  /\ Len(respostas[a]) < MaxRespostas
  /\ respostas' = [respostas EXCEPT
                     ![a] = Append(@, setPedido(getQuantidadeTotal(f.itens)))]

\* POST /pedido/item: refused when the page outlived the list or the product.
AddItem(a, p, q) ==
  LET f == addItem(facade[Sessao[a]], p, q) IN
  /\ form[a].pagina # "outra"
  /\ facade[Sessao[a]].criada
  /\ p \in produto
  /\ facade' = [facade EXCEPT ![Sessao[a]] = f]
  /\ Responde(a, f)
  /\ UNCHANGED form
  /\ BancoInalterado

\* POST /pedido/item/{produtoId}/delete
RemoveItem(a, p) ==
  LET f == removeItem(facade[Sessao[a]], p) IN
  /\ form[a].pagina # "outra"
  /\ facade[Sessao[a]].criada
  /\ facade[Sessao[a]].itens[p] > 0
  /\ Len(f.removedItens) <= MaxRemovidos
  /\ facade' = [facade EXCEPT ![Sessao[a]] = f]
  /\ Responde(a, f)
  /\ UNCHANGED form
  /\ BancoInalterado

SemResposta(a, i) ==
  /\ i \in 1..Len(respostas[a])
  /\ respostas' = [respostas EXCEPT
                     ![a] = SubSeq(@, 1, i - 1) \o SubSeq(@, i + 1, Len(@))]
  /\ UNCHANGED facade
  /\ BancoInalterado

\* The page's script handles one of the answers in flight.
RecebeTotal(a, i) ==
  /\ SemResposta(a, i)
  /\ form' = [form EXCEPT ![a].quantidade = respostas[a][i]]

\* The answer does not come: the page keeps the total it shows.
PerdeTotal(a, i) ==
  /\ SemResposta(a, i)
  /\ UNCHANGED form

----------------------------------------------------------------------------
(* Saving a new order: POST /pedido/create *)

PodeCadastrar(a) ==
  /\ form[a].pagina = "create"
  /\ facade[Sessao[a]].criada
  /\ verificaQuantidadeAndCusto(form[a].quantidade, facade[Sessao[a]].itens)
  /\ pedido_id_seq <= MaxPedidos

\* The same form can be submitted again (a second click, a reload of the error
\* page), and a save does not empty the list of the session.
Submetido == UNCHANGED <<form, respostas>>

Store(a) ==
  LET f == facade[Sessao[a]]
      id == pedido_id_seq IN
  /\ PodeCadastrar(a)
  /\ Contidos(f.itens) \subseteq produto
  /\ pedido' = [pedido EXCEPT ![id] = form[a].quantidade]
  /\ pedido_item' = [pedido_item EXCEPT ![id] = f.itens]
  /\ pedido_id_seq' = pedido_id_seq + 1
  /\ facade' = [facade EXCEPT ![Sessao[a]] = Rechaveia(f, id, Contidos(f.itens))]
  /\ Submetido
  /\ UNCHANGED <<produto, manchados>>

\* The transaction fails after the sequence was read: an SQL error on the way,
\* or a product that is gone.  The items visited so far keep the lost id.
StoreFalha(a) ==
  /\ PodeCadastrar(a)
  /\ pedido_id_seq' = pedido_id_seq + 1
  /\ \E K \in SUBSET Contidos(facade[Sessao[a]].itens) :
       facade' = [facade EXCEPT ![Sessao[a]] = Rechaveia(@, pedido_id_seq, K)]
  /\ Submetido
  /\ UNCHANGED <<pedido, pedido_item, produto, manchados>>

----------------------------------------------------------------------------
(* Saving an edited order: POST /pedido/{id}/edit *)

\* The rows that remain when those named by the list ids are deleted.
deleteItens(ids) ==
  [id \in PedidoIds |->
     [p \in Produtos |-> IF <<id, p>> \in Range(ids) THEN 0
                         ELSE pedido_item[id][p]]]

\* Deleting a row that is not there, or the same row twice, is an error.
PodeExcluirItens(ids) ==
  /\ IsInjective(ids)
  /\ \A k \in Range(ids) : pedido_item[k[1]][k[2]] > 0

\* Mutant: an order that is gone is saved all the same.
PodeAlterarExcluido(a) ==
  LET f == facade[Sessao[a]] IN
  /\ form[a].pagina = "edit"
  /\ f.criada
  /\ verificaQuantidadeAndCusto(form[a].quantidade, f.itens)
  /\ PodeExcluirItens(f.removedItens)

PodeAlterar(a) ==
  LET f == facade[Sessao[a]] IN
  /\ form[a].pagina = "edit"
  /\ f.criada
  /\ verificaQuantidadeAndCusto(form[a].quantidade, f.itens)
  /\ pedido[form[a].pedido] # Nulo
  /\ PodeExcluirItens(f.removedItens)

\* Items with a key are merged, whatever order the key names: the row is
\* updated or, when it is not there, inserted.  Items without one are inserted.
GravaItens(linhas, id, f) ==
  [linhas EXCEPT
     ![id] = [p \in Produtos |-> IF f.itens[p] > 0 THEN f.itens[p] ELSE @[p]]]

\* An insertion needs the product, and no row with the same key.
PodeInserir(linhas, id, f) ==
  \A p \in Contidos(f.itens) :
    /\ linhas[id][p] = 0 => p \in produto
    /\ f.dono[p] = Nulo => linhas[id][p] = 0

\* The list accounts for the rows of the order: it holds or removes each one.
Cobre(f, id) ==
  \A p \in Produtos : pedido_item[id][p] > 0 =>
    f.itens[p] > 0 \/ <<id, p>> \in Range(f.removedItens)

\* Orders, other than the one saved, that lose rows to the save.
Desfalcados(f, id) ==
  {i \in PedidoIds \ {id} : \E p \in Produtos : <<i, p>> \in Range(f.removedItens)}

Update(a) ==
  LET f == facade[Sessao[a]]
      id == form[a].pedido
      restantes == deleteItens(f.removedItens) IN
  /\ PodeAlterar(a)
  /\ PodeInserir(restantes, id, f)
  /\ pedido' = [pedido EXCEPT ![id] = form[a].quantidade]
  /\ pedido_item' = GravaItens(restantes, id, f)
  /\ facade' = [facade EXCEPT ![Sessao[a]] = Rechaveia(f, id, Contidos(f.itens))]
  /\ manchados' = (IF Cobre(f, id) THEN manchados \ {id} ELSE manchados \cup {id})
                    \cup Desfalcados(f, id)
  /\ Submetido
  /\ UNCHANGED <<pedido_id_seq, produto>>

\* The items with a key are visited first, in some order, then the others: K
\* is the set visited when the transaction fails.
UpdateFalha(a) ==
  LET f == facade[Sessao[a]]
      comChave == {p \in Contidos(f.itens) : f.dono[p] # Nulo} IN
  /\ PodeAlterar(a)
  /\ \E K \in SUBSET Contidos(f.itens) :
       /\ K \subseteq comChave \/ comChave \subseteq K
       /\ facade' = [facade EXCEPT ![Sessao[a]] = Rechaveia(f, form[a].pedido, K)]
  /\ Submetido
  /\ UNCHANGED <<pedido, pedido_item, pedido_id_seq, produto, manchados>>

----------------------------------------------------------------------------
(* Other requests *)

\* POST /pedido/{id}/delete: the items, then the order.
Destroy(id) ==
  /\ pedido[id] # Nulo
  /\ pedido_item' = [pedido_item EXCEPT ![id] = Vazia]
  /\ pedido' = [pedido EXCEPT ![id] = Nulo]
  /\ UNCHANGED <<pedido_id_seq, produto, facade, form, respostas, manchados>>

\* POST /produto/{id}/delete: the foreign key of pedido_item keeps a product
\* that some order still has.
DestroyProduto(p) ==
  /\ p \in produto
  /\ \A id \in PedidoIds : pedido_item[id][p] = 0
  /\ produto' = produto \ {p}
  /\ UNCHANGED <<pedido, pedido_item, pedido_id_seq, facade, form, respostas,
                 manchados>>

\* Session timeout or restart of the server: the next request finds a new bean.
\* (A logout keeps the HTTP session, and the bean.)
SessaoExpira(s) ==
  /\ facade[s].criada
  /\ facade' = [facade EXCEPT ![s] = initShow(@)]
  /\ UNCHANGED <<form, respostas>>
  /\ BancoInalterado

Next ==
  \/ \E a \in Abas :
       \/ Create(a)
       \/ Show(a)
       \/ \E id \in PedidoIds : Edit(a, id)
       \/ \E p \in Produtos, q \in Quantidades : AddItem(a, p, q)
       \/ \E p \in Produtos : RemoveItem(a, p)
       \/ \E i \in 1..MaxRespostas : RecebeTotal(a, i) \/ PerdeTotal(a, i)
       \/ Store(a)
       \/ StoreFalha(a)
       \/ Update(a)
       \/ UpdateFalha(a)
  \/ \E id \in PedidoIds : Destroy(id)
  \/ \E p \in Produtos : DestroyProduto(p)
  \/ \E s \in Sessoes : SessaoExpira(s)

Spec == Init /\ [][Next]_vars

----------------------------------------------------------------------------
(* Properties *)

\* Every table row, session bean, page and answer holds values of its type.
TypeOK ==
  /\ pedido \in [PedidoIds -> Totais]
  /\ pedido_item \in [PedidoIds -> Listas]
  /\ pedido_id_seq \in 1..(MaxPedidos + 1)
  /\ produto \subseteq Produtos
  /\ facade \in [Sessoes -> Facade]
  /\ form \in [Abas -> Forms]
  /\ \A a \in Abas : form[a].pagina = "edit" => form[a].pedido \in PedidoIds
  /\ respostas \in [Abas -> Seq(Totais)]
  /\ manchados \subseteq PedidoIds

\* PedidoServiceImpl.update promises a total that is the total of the items:
\* the total stored with an order is the (short) sum of its item rows.
TotalsAgree ==
  \A id \in PedidoIds :
    pedido[id] # Nulo => pedido[id] = getQuantidadeTotal(pedido_item[id])

\* However tabs and sessions interleave, the total stored with an order agrees
\* with its rows unless a save went through with a list that did not account
\* for every row of the order, or removed rows of an order it did not save.  A
\* later save that accounts for every row repairs the order.
TotalsAgreeUnlessStale ==
  \A id \in PedidoIds \ manchados :
    pedido[id] # Nulo => pedido[id] = getQuantidadeTotal(pedido_item[id])

\* The stored total is the sum of the quantities, with no wrap around.
TotalsAreSums ==
  \A id \in PedidoIds : pedido[id] # Nulo => pedido[id] = Soma(pedido_item[id])

\* The items a tab edits belong to the order its form names: each item of the
\* list is new or keyed by that order, and so is each removed one.
ListBelongsToForm ==
  \A a \in Abas :
    LET f == facade[Sessao[a]] IN
    form[a].pagina = "edit" /\ f.criada =>
      /\ \A p \in Contidos(f.itens) : f.dono[p] \in {Nulo, form[a].pedido}
      /\ \A k \in Range(f.removedItens) : k[1] = form[a].pedido

Alterado(id) == pedido'[id] # pedido[id] \/ pedido_item'[id] # pedido_item[id]

\* One request touches at most one order, its header or its rows.
OneOrderPerRequest ==
  [][\A i, j \in PedidoIds : Alterado(i) /\ Alterado(j) => i = j]_vars

\* An order that was deleted, or whose number was lost to a roll-back, never
\* comes back, whatever stale forms are saved.
NoResurrection ==
  [][\A id \in PedidoIds :
       id < pedido_id_seq /\ pedido[id] = Nulo => pedido'[id] = Nulo]_vars

----------------------------------------------------------------------------
(* The promise of the form *)

Contrato == INSTANCE PedidoContrato WITH
  Paginas <- Abas,
  Numeros <- PedidoIds,
  Total <- getQuantidadeTotal,
  pedidos <- [id \in PedidoIds |->
                IF pedido[id] = Nulo THEN Nulo
                ELSE [itens |-> pedido_item[id], total |-> pedido[id]]],
  usados <- 1..(pedido_id_seq - 1),
  rascunhos <- [a \in Abas |->
                  IF form[a].pagina # "outra" /\ facade[Sessao[a]].criada
                  THEN [numero |-> form[a].pedido, itens |-> facade[Sessao[a]].itens]
                  ELSE Nulo]

\* With one tab, the form keeps the promise: whatever answers are lost, late or
\* out of order and whatever saves fail, what is saved is the list of the page,
\* whole, with its total, and no other order changes.
KeepsPromise == Contrato!Spec

=============================================================================
