------------------------- MODULE MCPedidoSession -------------------------
(***************************************************************************)
(* Instances of PedidoSession for TLC: which session each tab belongs to.  *)
(***************************************************************************)
EXTENDS PedidoSession, TLC

\* Every tab is of one session, the only one.
UmaSessao == [a \in Abas |-> CHOOSE s \in Sessoes : TRUE]

\* The tabs and the sessions have the same names: one tab per session.
UmaAbaPorSessao == [a \in Abas |-> a]

\* Products are interchangeable, and so are users of one tab each.
Simetria == Permutations(Produtos) \cup Permutations(Sessoes)

\* With one tab, the products are.
SimetriaProdutos == Permutations(Produtos)

=============================================================================
