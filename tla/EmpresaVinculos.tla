-------------------------- MODULE EmpresaVinculos --------------------------
(***************************************************************************)
(* Companies, and what is tied to them.                                    *)
(*                                                                         *)
(* A company is a customer (CLIENTE) or a carrier (ENTREGA).  Orders are   *)
(* for customers, deliverers work for carriers, managers and attendants    *)
(* for company 1, the house itself.  Each of the three services checks     *)
(* this on its side: the order and the employee services read the type of  *)
(* the company they are about to refer to, and the company form counts the *)
(* orders or the employees of a company before it changes its type.        *)
(*                                                                         *)
(* Requests run on the threads of the server.  A transaction runs at READ  *)
(* COMMITTED: a query sees what is committed when it starts, and nothing   *)
(* keeps a row that was read from changing before the commit.  A request   *)
(* is therefore a step for each query another one's commit may fall        *)
(* behind, and a last step for the writes and the commit, where the keys   *)
(* of the database are checked.                                            *)
(***************************************************************************)
EXTENDS Naturals, FiniteSets

CONSTANTS
  Empresas,       \* values of empresa_id_seq, company 1 excepted
  Funcionarios,   \* ids of employees (values of usuario_id_seq)
  Pedidos,        \* values of pedido_id_seq
  Threads,        \* requests the server runs at a time
  SemAcesso,      \* companies of the initial data, which have no access user
  EmpresaPropria, \* company 1
  Nulo            \* no company (the order of a person), no deliverer

Tipos == {"CLIENTE", "ENTREGA"}
Funcoes == {"GERENTE", "ATENDENTE", "ENTREGADOR"}

ASSUME ConstantesOK ==
  /\ SemAcesso \subseteq Empresas
  /\ EmpresaPropria \notin Empresas \cup {Nulo}
  /\ Nulo \notin Empresas \cup Funcionarios
  /\ Pedidos \cap Funcionarios = {}

VARIABLES
  empresa,       \* table empresa: type, and whether there is an access user
  funcionario,   \* table funcionario: function and company
  pedido,        \* table pedido with empresa_pedido: customer and deliverer
  requisicao,    \* what each thread is doing, with what it has read
  cruzou,        \* history: companies under change while the request ran
  corridos       \* history: rows whose company was under change when written

vars == <<empresa, funcionario, pedido, requisicao, cruzou, corridos>>

----------------------------------------------------------------------------
(* Tables: an id is unused, of a row, or of a row that was deleted *)

Linha == {"nova", "gravada", "excluida"}

Gravadas(tabela) == {id \in DOMAIN tabela : tabela[id].linha = "gravada"}
Novas(tabela) == {id \in DOMAIN tabela : tabela[id].linha = "nova"}

\* Hibernate's merge inserts a row that it does not find, under a new id.
LinhasDoMerge(tabela, id) ==
  IF id \in Gravadas(tabela) THEN {id} ELSE Novas(tabela)

PedidosDe(e) == {p \in Gravadas(pedido) : pedido[p].empresa = e}
FuncionariosDe(e) == {f \in Gravadas(funcionario) : funcionario[f].empresa = e}
PedidosDoEntregador(f) == {p \in Gravadas(pedido) : pedido[p].entregador = f}

----------------------------------------------------------------------------
(* Requests *)

OpsEmpresa == {"validada", "lida", "com_acesso", "sem_acesso"}

Requisicoes ==
  [op : {"ociosa"}]
    \cup [op : OpsEmpresa, id : Empresas, tipo : Tipos]
    \cup [op : {"pedido"}, id : Pedidos \cup {Nulo},
          empresa : Empresas \cup {Nulo}, entregador : Funcionarios \cup {Nulo}]
    \cup [op : {"funcionario"}, id : Funcionarios \cup {Nulo},
          funcao : Funcoes, empresa : Empresas \cup {EmpresaPropria}]

Ociosa == [op |-> "ociosa"]

Altera(t, e) == requisicao[t].op \in OpsEmpresa /\ requisicao[t].id = e
Vincula(t) == requisicao[t].op \in {"pedido", "funcionario"}

SobAlteracao == {e \in Empresas : \E u \in Threads : Altera(u, e)}

\* A request whose steps nothing can fall between needs a free thread too.
ThreadLivre == \E t \in Threads : requisicao[t] = Ociosa

\* A request that will tie a row to a company starts, with its reads done.
IniciaVinculo(t, r) ==
  /\ requisicao[t] = Ociosa
  /\ requisicao' = [requisicao EXCEPT ![t] = r]
  /\ cruzou' = [cruzou EXCEPT ![t] = SobAlteracao]

Termina(t) ==
  /\ requisicao' = [requisicao EXCEPT ![t] = Ociosa]
  /\ cruzou' = [cruzou EXCEPT ![t] = {}]

\* History: was the company of the row that t writes under change meanwhile?
Marca(t, linha) ==
  corridos' = IF requisicao[t].empresa \in cruzou[t] THEN corridos \cup {linha}
                                                     ELSE corridos \ {linha}

TypeOK ==
  /\ empresa \in [Empresas -> [linha : Linha, tipo : Tipos, acesso : BOOLEAN]]
  /\ funcionario \in [Funcionarios -> [linha : Linha, funcao : Funcoes,
                         empresa : Empresas \cup {EmpresaPropria}]]
  /\ pedido \in [Pedidos -> [linha : Linha, empresa : Empresas \cup {Nulo},
                              entregador : Funcionarios \cup {Nulo}]]
  /\ requisicao \in [Threads -> Requisicoes]
  /\ cruzou \in [Threads -> SUBSET Empresas]
  /\ corridos \subseteq Pedidos \cup Funcionarios

\* The initial data: companies without access user, of either type.
Init ==
  /\ \E tipo \in [Empresas -> Tipos] :
       empresa = [e \in Empresas |->
                    [linha |-> IF e \in SemAcesso THEN "gravada" ELSE "nova",
                     tipo |-> IF e \in SemAcesso THEN tipo[e] ELSE "CLIENTE",
                     acesso |-> FALSE]]
  /\ funcionario = [f \in Funcionarios |->
                      [linha |-> "nova", funcao |-> "GERENTE",
                       empresa |-> EmpresaPropria]]
  /\ pedido = [p \in Pedidos |->
                 [linha |-> "nova", empresa |-> Nulo, entregador |-> Nulo]]
  /\ requisicao = [t \in Threads |-> Ociosa]
  /\ cruzou = [t \in Threads |-> {}]
  /\ corridos = {}

----------------------------------------------------------------------------
(* Companies.  The service refuses to change or to delete company 1, which *)
(* has no type: it is none of Empresas, and its row is not kept.             *)

\* persist: the company and its access user.  Nothing it reads matters here.
StoreEmpresa(tipo) ==
  /\ ThreadLivre
  /\ \E e \in Novas(empresa) :
       empresa' = [empresa EXCEPT ![e] =
                     [linha |-> "gravada", tipo |-> tipo, acesso |-> TRUE]]
  /\ UNCHANGED <<funcionario, pedido, requisicao, cruzou, corridos>>

\* A customer has no employees, a carrier has no orders.
TipoValido(e, tipo) ==
  /\ tipo = "CLIENTE" => FuncionariosDe(e) = {}
  /\ tipo = "ENTREGA" => PedidosDe(e) = {}

\* The controller validates the form, before the service's transaction.
ValidaUpdate(t, e, tipo) ==
  /\ requisicao[t] = Ociosa
  /\ e \notin Novas(empresa)
  /\ TipoValido(e, tipo)
  /\ requisicao' = [requisicao EXCEPT ![t] =
                      [op |-> "validada", id |-> e, tipo |-> tipo]]
  /\ cruzou' = [u \in Threads |->
                  IF Vincula(u) THEN cruzou[u] \cup {e} ELSE cruzou[u]]
  /\ UNCHANGED <<empresa, funcionario, pedido, corridos>>

Avanca(t, de, para) ==
  /\ requisicao[t].op = de
  /\ requisicao' = [requisicao EXCEPT ![t].op = para]
  /\ UNCHANGED <<empresa, funcionario, pedido, cruzou, corridos>>

\* update, first query: who registered the company, and when.
LeCadastro(t) ==
  /\ Avanca(t, "validada", "lida")
  /\ requisicao[t].id \in Gravadas(empresa)

\* update, second query: the access user, if the query finds one.
LeAcesso(t) ==
  LET e == requisicao[t].id IN
  \/ /\ Avanca(t, "lida", "com_acesso")
     /\ e \in Gravadas(empresa) /\ empresa[e].acesso
  \/ /\ Avanca(t, "lida", "sem_acesso")
     /\ ~(e \in Gravadas(empresa) /\ empresa[e].acesso)

\* update, merge and commit.  An access user that is gone fails the commit.
MergeEmpresa(t) ==
  LET r == requisicao[t] IN
  /\ \/ r.op = "com_acesso" /\ r.id \in Gravadas(empresa)
     \/ r.op = "sem_acesso"
  /\ \E e \in LinhasDoMerge(empresa, r.id) :
       empresa' = [empresa EXCEPT ![e] =
                     [linha |-> "gravada", tipo |-> r.tipo,
                      acesso |-> (r.op = "com_acesso")]]
  /\ Termina(t)
  /\ UNCHANGED <<funcionario, pedido, corridos>>

\* delete: first the access user is looked up, and not finding one is an error.
PodeExcluirEmpresa(e) ==
  /\ e \in Gravadas(empresa)
  /\ empresa[e].acesso
  /\ PedidosDe(e) = {}
  /\ FuncionariosDe(e) = {}

DestroyEmpresa(e) ==
  /\ ThreadLivre
  /\ PodeExcluirEmpresa(e)
  /\ empresa' = [empresa EXCEPT ![e].linha = "excluida"]
  /\ UNCHANGED <<funcionario, pedido, requisicao, cruzou, corridos>>

----------------------------------------------------------------------------
(* Orders *)

\* Mutant: any company the form gives.
EmpresaDePedidoSoId(e) == e # Nulo => e \in Empresas \cup {EmpresaPropria}

\* verificaEmpresa of the orders: a customer, or no company (a person).
EmpresaDePedido(e) ==
  /\ e # EmpresaPropria
  /\ e # Nulo => e \in Gravadas(empresa) /\ empresa[e].tipo = "CLIENTE"

verificaEntregador(f) ==
  f # Nulo => f \in Gravadas(funcionario) /\ funcionario[f].funcao = "ENTREGADOR"

\* persist (id is null) and update: the reads of the service.
IniciaPedido(t, id, e, f) ==
  /\ id # Nulo => id \in Gravadas(pedido)
  /\ verificaEntregador(f)
  /\ EmpresaDePedido(e)
  /\ IniciaVinculo(t, [op |-> "pedido", id |-> id, empresa |-> e,
                       entregador |-> f])
  /\ UNCHANGED <<empresa, funcionario, pedido, corridos>>

\* The writes and the commit: the foreign keys check that the rows exist.
GravaPedido(t) ==
  LET r == requisicao[t] IN
  /\ r.op = "pedido"
  /\ r.empresa # Nulo => r.empresa \in Gravadas(empresa)
  /\ r.entregador # Nulo => r.entregador \in Gravadas(funcionario)
  /\ \E p \in IF r.id = Nulo THEN Novas(pedido) ELSE LinhasDoMerge(pedido, r.id) :
       /\ pedido' = [pedido EXCEPT ![p] =
                       [linha |-> "gravada", empresa |-> r.empresa,
                        entregador |-> r.entregador]]
       /\ Marca(t, p)
  /\ Termina(t)
  /\ UNCHANGED <<empresa, funcionario>>

DestroyPedido(p) ==
  /\ ThreadLivre
  /\ p \in Gravadas(pedido)
  /\ pedido' = [pedido EXCEPT ![p].linha = "excluida"]
  /\ UNCHANGED <<empresa, funcionario, requisicao, cruzou, corridos>>

----------------------------------------------------------------------------
(* Employees and deliverers *)

\* Mutant: one form for all functions.
PossiveisFuncoesJuntas == {Funcoes}

\* The two controllers over one service: the functions each one deals with.
PossiveisFuncoes == {{"GERENTE", "ATENDENTE"}, {"ENTREGADOR"}}

\* The company the form carries: fixed in one form, chosen in the other.
EmpresaDoForm(funcoes) ==
  IF "ENTREGADOR" \in funcoes THEN Empresas ELSE {EmpresaPropria}

\* Mutant: a carrier is whatever company there is.
EmpresaDeFuncionarioSemTipo(funcao, e) ==
  /\ e = EmpresaPropria => funcao \in {"GERENTE", "ATENDENTE"}
  /\ e # EmpresaPropria => e \in Gravadas(empresa)

\* verificaEmpresa of the employees.
EmpresaDeFuncionario(funcao, e) ==
  /\ e = EmpresaPropria => funcao \in {"GERENTE", "ATENDENTE"}
  /\ e # EmpresaPropria => e \in Gravadas(empresa) /\ empresa[e].tipo = "ENTREGA"

\* The edit page shows only employees of the controller's functions; the row it
\* shows may be gone when the form comes back, but its id is not used again.
IniciaFuncionario(t, id, funcoes, funcao, e) ==
  /\ funcao \in funcoes
  /\ e \in EmpresaDoForm(funcoes)
  /\ EmpresaDeFuncionario(funcao, e)
  /\ id # Nulo =>
       /\ id \in Gravadas(funcionario)
       /\ funcionario[id].funcao \in funcoes
  /\ IniciaVinculo(t, [op |-> "funcionario", id |-> id, funcao |-> funcao,
                       empresa |-> e])
  /\ UNCHANGED <<empresa, funcionario, pedido, corridos>>

\* A deleted employee has no user any more: the merge fails on its foreign key.
GravaFuncionario(t) ==
  LET r == requisicao[t] IN
  /\ r.op = "funcionario"
  /\ r.empresa # EmpresaPropria => r.empresa \in Gravadas(empresa)
  /\ \E f \in IF r.id = Nulo THEN Novas(funcionario)
                             ELSE {r.id} \cap Gravadas(funcionario) :
       /\ funcionario' = [funcionario EXCEPT ![f] =
                            [linha |-> "gravada", funcao |-> r.funcao,
                             empresa |-> r.empresa]]
       /\ Marca(t, f)
  /\ Termina(t)
  /\ UNCHANGED <<empresa, pedido>>

DestroyFuncionario(f) ==
  /\ ThreadLivre
  /\ f \in Gravadas(funcionario)
  /\ PedidosDoEntregador(f) = {}
  /\ funcionario' = [funcionario EXCEPT ![f].linha = "excluida"]
  /\ UNCHANGED <<empresa, pedido, requisicao, cruzou, corridos>>

----------------------------------------------------------------------------
(* Any request may fail: a row it reads is gone, a key, a lost connection *)

Falha(t) ==
  /\ requisicao[t] # Ociosa
  /\ Termina(t)
  /\ UNCHANGED <<empresa, funcionario, pedido, corridos>>

Next ==
  \/ \E tipo \in Tipos : StoreEmpresa(tipo)
  \/ \E e \in Empresas : DestroyEmpresa(e)
  \/ \E p \in Pedidos : DestroyPedido(p)
  \/ \E f \in Funcionarios : DestroyFuncionario(f)
  \/ \E t \in Threads :
       \/ \E e \in Empresas, tipo \in Tipos : ValidaUpdate(t, e, tipo)
       \/ LeCadastro(t)
       \/ LeAcesso(t)
       \/ MergeEmpresa(t)
       \/ \E id \in Pedidos \cup {Nulo}, e \in Empresas \cup {EmpresaPropria, Nulo},
             f \in Funcionarios \cup {Nulo} : IniciaPedido(t, id, e, f)
       \/ GravaPedido(t)
       \/ \E id \in Funcionarios \cup {Nulo}, funcoes \in PossiveisFuncoes,
             funcao \in Funcoes, e \in Empresas \cup {EmpresaPropria} :
               IniciaFuncionario(t, id, funcoes, funcao, e)
       \/ GravaFuncionario(t)
       \/ Falha(t)

Spec == Init /\ [][Next]_vars

----------------------------------------------------------------------------
(* Properties *)

PedidoDeCliente(p) ==
  LET e == pedido[p].empresa IN
  e # Nulo => e \in Gravadas(empresa) /\ empresa[e].tipo = "CLIENTE"

FuncionarioDaCasa(f) ==
  LET e == funcionario[f].empresa IN
  IF funcionario[f].funcao = "ENTREGADOR"
    THEN e \in Gravadas(empresa) /\ empresa[e].tipo = "ENTREGA"
    ELSE e = EmpresaPropria

\* The company of an order is a customer, that of a deliverer a carrier, and
\* the other employees are the house's own: what verificaEmpresa of both
\* services and setTipoNotValidError keep between them.
LinksMatch ==
  /\ \A p \in Gravadas(pedido) : PedidoDeCliente(p)
  /\ \A f \in Gravadas(funcionario) : FuncionarioDaCasa(f)

\* With several requests at a time, only a row written by a request during
\* which its company was under change may fail to match.
LinksMatchUnlessRaced ==
  /\ \A p \in Gravadas(pedido) \ corridos : PedidoDeCliente(p)
  /\ \A f \in Gravadas(funcionario) \ corridos : FuncionarioDaCasa(f)

\* The deliverer of an order is a deliverer, however the changes of employees
\* and of orders interleave: verificaEntregador reads the function once, and
\* no later form turns a deliverer into something else.
DelivererDelivers ==
  \A p \in Gravadas(pedido) :
    LET f == pedido[p].entregador IN
    f # Nulo => f \in Gravadas(funcionario) /\ funcionario[f].funcao = "ENTREGADOR"

============================================================================
