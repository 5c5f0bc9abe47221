-------------------------- MODULE PedidoContrato --------------------------
(***************************************************************************)
(* What the order form promises to the person who uses it: saving stores   *)
(* exactly the draft the page shows, under a number of its own or in place *)
(* of the order being edited, with the draft's total, and touches nothing  *)
(* else.                                                                   *)
(***************************************************************************)
EXTENDS Integers

CONSTANTS
  Paginas,         \* the pages that may hold a draft
  Numeros,         \* order numbers
  Listas,          \* possible lists of items
  Vazia,           \* the list with no item
  Total(_),        \* total of a list
  Nulo             \* no order, no draft, no number yet

VARIABLES
  pedidos,         \* the stored orders
  usados,          \* the numbers given out
  rascunhos        \* the draft of each page

cvars == <<pedidos, usados, rascunhos>>

Pedidos == {[itens |-> lista, total |-> Total(lista)] : lista \in Listas \ {Vazia}}

Init ==
  /\ pedidos = [n \in Numeros |-> Nulo]
  /\ usados = {}
  /\ rascunhos = [p \in Paginas |-> Nulo]

\* A page opens with a new draft, with the contents of an order, or with none.
Abre(p) ==
  /\ rascunhos' = [rascunhos EXCEPT ![p] = [numero |-> Nulo, itens |-> Vazia]]
  /\ UNCHANGED <<pedidos, usados>>

Reabre(p, n) ==
  /\ pedidos[n] # Nulo
  /\ rascunhos' = [rascunhos EXCEPT ![p] = [numero |-> n, itens |-> pedidos[n].itens]]
  /\ UNCHANGED <<pedidos, usados>>

Fecha(p) ==
  /\ rascunhos' = [rascunhos EXCEPT ![p] = Nulo]
  /\ UNCHANGED <<pedidos, usados>>

\* The draft changes, and no order does.
Altera(p, lista) ==
  /\ rascunhos[p] # Nulo
  /\ rascunhos' = [rascunhos EXCEPT ![p].itens = lista]
  /\ UNCHANGED <<pedidos, usados>>

Conteudo(p) == [itens |-> rascunhos[p].itens, total |-> Total(rascunhos[p].itens)]

\* The draft becomes a new order, and stays on the page.
Cadastra(p, n) ==
  /\ rascunhos[p] # Nulo
  /\ rascunhos[p].numero = Nulo
  /\ rascunhos[p].itens # Vazia
  /\ n \notin usados
  /\ pedidos' = [pedidos EXCEPT ![n] = Conteudo(p)]
  /\ usados' = usados \cup {n}
  /\ UNCHANGED rascunhos

\* The draft replaces the order it was opened from, if that still exists.
Atualiza(p) ==
  /\ rascunhos[p] # Nulo
  /\ rascunhos[p].numero # Nulo
  /\ rascunhos[p].itens # Vazia
  /\ pedidos[rascunhos[p].numero] # Nulo
  /\ pedidos' = [pedidos EXCEPT ![rascunhos[p].numero] = Conteudo(p)]
  /\ UNCHANGED <<usados, rascunhos>>

\* A number is lost to a save that failed.
Perde(n) ==
  /\ n \notin usados
  /\ usados' = usados \cup {n}
  /\ UNCHANGED <<pedidos, rascunhos>>

Exclui(n) ==
  /\ pedidos[n] # Nulo
  /\ pedidos' = [pedidos EXCEPT ![n] = Nulo]
  /\ UNCHANGED <<usados, rascunhos>>

Next ==
  \/ \E p \in Paginas :
       \/ Abre(p)
       \/ Fecha(p)
       \/ Atualiza(p)
       \/ \E lista \in Listas : Altera(p, lista)
       \/ \E n \in Numeros : Reabre(p, n) \/ Cadastra(p, n)
  \/ \E n \in Numeros : Perde(n) \/ Exclui(n)

Spec == Init /\ [][Next]_cvars

=============================================================================
