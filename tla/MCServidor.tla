---------------------------- MODULE MCServidor ----------------------------
(* Instances of Servidor for TLC: two employees, and the pages of the       *)
(* registers of customers and orders.                                       *)
EXTENDS Servidor, TLC

CONSTANTS f1, f2, e1, e2

EmailDe == f1 :> e1 @@ f2 :> e2

UmDeCada == "p1" :> "Cliente" @@ "p2" :> "Empresa"

LinksDasPaginas ==
  "/cliente" :> {"/cliente/create", "/cliente/1", "/cliente/1/edit"} @@
  "/cliente/create" :> {"/cliente"} @@
  "/cliente/1" :> {"/cliente", "/cliente/1/edit", "/pedido/1"} @@
  "/cliente/1/edit" :> {"/cliente"} @@
  "/pedido/1" :> {"/cliente/1", "/cliente"}

ListaDasPaginas == [p \in DOMAIN LinksDasPaginas |-> "/cliente"]

=============================================================================
