------------------------------ MODULE Consulta ------------------------------
(***************************************************************************)
(* Queries for a page of orders.  The joins a query leaves out are a field *)
(* of the DAO, of which there is one: the page sets the field, asks for the*)
(* rows and then for their number, in two transactions that each read it.  *)
(*                                                                         *)
(* An order is a person's or a company's, and customers are loaded only by *)
(* a join: the page that shows an order's customer fails if it was left    *)
(* out.  A search for a customer's name that has no join for it joins it   *)
(* all the same, and then finds no order without that customer.  Left out: *)
(* cities, which no page of orders shows, and the other filters.           *)
(***************************************************************************)
EXTENDS FiniteSets

CONSTANTS
  Threads,      \* requests that run at the same time
  Pedidos,      \* [orders -> "Cliente" or "Empresa", whose they are]
  Indefinido    \* null

Associacoes == {"Cliente", "Empresa"}

ASSUME ConstantesDaConsulta ==
  \A p \in DOMAIN Pedidos : Pedidos[p] \in Associacoes

VARIABLES
  ignoredJoins,  \* PedidoDAOImpl.ignoredJoins
  paginas,       \* [Threads -> the page being built]
  juntasTrocadas \* [Threads -> the field was set by another request meanwhile]

consultaVars == <<ignoredJoins, paginas, juntasTrocadas>>

\* The pages with orders: their list, those of a customer or a company, which
\* does not show the customer, and those of a deliverer.
Ignora == [lista |-> {}, cliente |-> Associacoes, entregador |-> {}]
Tipos == DOMAIN Ignora

SemPagina == [pc |-> "nada", tipo |-> Indefinido, busca |-> FALSE, linhas |-> {},
              carregadas |-> {}, count |-> 0]

\* getFetchJoins and getJoins.
Juntas == Associacoes \ (IF ignoredJoins = Indefinido THEN {} ELSE ignoredJoins)

\* getFilter: a search for names names both kinds of customer.
Achados(busca) ==
  {p \in DOMAIN Pedidos : busca => Associacoes \ Juntas \subseteq {Pedidos[p]}}

\* Mutant: the list takes the joins as they are.
setIgnoredJoinsNemSempre(t, tipo, busca) ==
  /\ paginas[t].pc \in {"nada", "pronta"}
  /\ busca => tipo = "lista"
  /\ ignoredJoins' = IF tipo = "lista" THEN ignoredJoins ELSE Ignora[tipo]
  /\ paginas' = [paginas EXCEPT ![t] =
       [SemPagina EXCEPT !.pc = "linhas", !.tipo = tipo, !.busca = busca]]
  /\ juntasTrocadas' = [u \in Threads |-> u # t /\ paginas[u].pc \in {"linhas", "conta"}]

\* Only the list of orders is searched by name.
setIgnoredJoins(t, tipo, busca) ==
  /\ paginas[t].pc \in {"nada", "pronta"}
  /\ busca => tipo = "lista"
  /\ ignoredJoins' = Ignora[tipo]
  /\ paginas' = [paginas EXCEPT ![t] =
       [SemPagina EXCEPT !.pc = "linhas", !.tipo = tipo, !.busca = busca]]
  /\ juntasTrocadas' = [u \in Threads |->
       u # t /\ (juntasTrocadas[u] \/ paginas[u].pc \in {"linhas", "conta"})]

search(t) ==
  /\ paginas[t].pc = "linhas"
  /\ paginas' = [paginas EXCEPT ![t].pc = "conta",
       ![t].linhas = Achados(paginas[t].busca), ![t].carregadas = Juntas]
  /\ UNCHANGED <<ignoredJoins, juntasTrocadas>>

getTotalElements(t) ==
  /\ paginas[t].pc = "conta"
  /\ paginas' = [paginas EXCEPT ![t].pc = "pronta",
       ![t].count = Cardinality(Achados(paginas[t].busca))]
  /\ UNCHANGED <<ignoredJoins, juntasTrocadas>>

ConsultaInit ==
  /\ ignoredJoins = Indefinido
  /\ paginas = [t \in Threads |-> SemPagina]
  /\ juntasTrocadas = [t \in Threads |-> FALSE]

ConsultaNext ==
  \E t \in Threads :
    \/ \E tipo \in Tipos, busca \in BOOLEAN : setIgnoredJoins(t, tipo, busca)
    \/ search(t) \/ getTotalElements(t)

----------------------------------------------------------------------------

\* Unless another page of orders was built meanwhile, a page finds every order,
\* counts those it shows, and has loaded the customers it shows; whatever the
\* pages before it have left in the field.
PaginaCompleta ==
  \A t \in Threads :
    paginas[t].pc = "pronta" /\ ~juntasTrocadas[t] =>
      /\ paginas[t].linhas = DOMAIN Pedidos
      /\ paginas[t].count = Cardinality(paginas[t].linhas)
      /\ Ignora[paginas[t].tipo] = {} =>
           \A p \in paginas[t].linhas : Pedidos[p] \in paginas[t].carregadas

=============================================================================
