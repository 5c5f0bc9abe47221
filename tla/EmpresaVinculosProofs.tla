----------------------- MODULE EmpresaVinculosProofs -----------------------
(***************************************************************************)
(* Theorems of EmpresaVinculos, for any number of companies, employees,    *)
(* orders and threads.                                                     *)
(***************************************************************************)
EXTENDS EmpresaVinculos, TLAPS

----------------------------------------------------------------------------
(* Types *)

EmpresaLinhas == [linha : Linha, tipo : Tipos, acesso : BOOLEAN]

FuncionarioLinhas ==
  [linha : Linha, funcao : Funcoes, empresa : Empresas \cup {EmpresaPropria}]

PedidoLinhas ==
  [linha : Linha, empresa : Empresas \cup {Nulo},
   entregador : Funcionarios \cup {Nulo}]

\* What a request holds, by its operation.
LEMMA RequisicaoTipo ==
  ASSUME TypeOK, NEW t \in Threads
  PROVE  /\ requisicao[t].op \in OpsEmpresa =>
              /\ requisicao[t].id \in Empresas
              /\ requisicao[t].tipo \in Tipos
              /\ requisicao[t] = [op |-> requisicao[t].op, id |-> requisicao[t].id,
                                  tipo |-> requisicao[t].tipo]
         /\ requisicao[t].op = "pedido" =>
              /\ requisicao[t].id \in Pedidos \cup {Nulo}
              /\ requisicao[t].empresa \in Empresas \cup {Nulo}
              /\ requisicao[t].entregador \in Funcionarios \cup {Nulo}
         /\ requisicao[t].op = "funcionario" =>
              /\ requisicao[t].id \in Funcionarios \cup {Nulo}
              /\ requisicao[t].funcao \in Funcoes
              /\ requisicao[t].empresa \in Empresas \cup {EmpresaPropria}
<1>1. requisicao[t] \in Requisicoes
  BY DEF TypeOK
<1> QED
  BY <1>1 DEF Requisicoes, OpsEmpresa

\* A request that ends leaves its thread idle.
LEMMA TerminaTipo ==
  ASSUME TypeOK, NEW t \in Threads, Termina(t)
  PROVE  /\ requisicao' \in [Threads -> Requisicoes]
         /\ cruzou' \in [Threads -> SUBSET Empresas]
  BY DEF Termina, TypeOK, Requisicoes, Ociosa

\* A request that starts holds what it has read.
LEMMA IniciaVinculoTipo ==
  ASSUME TypeOK, NEW t \in Threads, NEW r \in Requisicoes, IniciaVinculo(t, r)
  PROVE  /\ requisicao' \in [Threads -> Requisicoes]
         /\ cruzou' \in [Threads -> SUBSET Empresas]
  BY DEF IniciaVinculo, TypeOK, SobAlteracao

\* A step of a company update changes the operation only.
LEMMA AvancaTipo ==
  ASSUME TypeOK, NEW t \in Threads, NEW de \in OpsEmpresa, NEW para \in OpsEmpresa,
         Avanca(t, de, para)
  PROVE  TypeOK'
<1>1. PICK e \in Empresas, tipo \in Tipos :
        requisicao[t] = [op |-> de, id |-> e, tipo |-> tipo]
  BY RequisicaoTipo DEF Avanca
<1>2. [requisicao[t] EXCEPT !.op = para] \in Requisicoes
  BY <1>1 DEF Requisicoes
<1> QED
  BY <1>2 DEF Avanca, TypeOK

\* The history keeps rows of the tables.
LEMMA MarcaTipo ==
  ASSUME TypeOK, NEW t \in Threads, NEW linha \in Pedidos \cup Funcionarios,
         Marca(t, linha)
  PROVE  corridos' \subseteq Pedidos \cup Funcionarios
  BY DEF Marca, TypeOK

LEMMA GravadasEm ==
  /\ \A tabela : Gravadas(tabela) \subseteq DOMAIN tabela
  /\ \A tabela : Novas(tabela) \subseteq DOMAIN tabela
  /\ \A tabela, id : LinhasDoMerge(tabela, id) \subseteq DOMAIN tabela
  BY DEF Gravadas, Novas, LinhasDoMerge

LEMMA TipoInit == Init => TypeOK
  BY DEF Init, TypeOK, Linha, Tipos, Funcoes, Requisicoes, Ociosa

LEMMA TipoNext ==
  ASSUME TypeOK, [Next]_vars
  PROVE  TypeOK'
<1>1. ASSUME NEW tipo \in Tipos, StoreEmpresa(tipo)
      PROVE  TypeOK'
  <2>1. [linha |-> "gravada", tipo |-> tipo, acesso |-> TRUE] \in EmpresaLinhas
    BY DEF EmpresaLinhas, Linha
  <2>2. empresa' \in [Empresas -> EmpresaLinhas]
    BY <1>1, <2>1 DEF StoreEmpresa, TypeOK, EmpresaLinhas
  <2> QED
    BY <1>1, <2>2 DEF StoreEmpresa, TypeOK, EmpresaLinhas
<1>2. ASSUME NEW e \in Empresas, DestroyEmpresa(e)
      PROVE  TypeOK'
  <2>1. [empresa[e] EXCEPT !.linha = "excluida"] \in EmpresaLinhas
    BY DEF TypeOK, EmpresaLinhas, Linha
  <2>2. empresa' \in [Empresas -> EmpresaLinhas]
    BY <1>2, <2>1 DEF DestroyEmpresa, TypeOK, EmpresaLinhas
  <2> QED
    BY <1>2, <2>2 DEF DestroyEmpresa, TypeOK, EmpresaLinhas
<1>3. ASSUME NEW p \in Pedidos, DestroyPedido(p)
      PROVE  TypeOK'
  BY <1>3 DEF DestroyPedido, TypeOK, Linha
<1>4. ASSUME NEW f \in Funcionarios, DestroyFuncionario(f)
      PROVE  TypeOK'
  BY <1>4 DEF DestroyFuncionario, TypeOK, Linha
<1>5. ASSUME NEW t \in Threads, NEW e \in Empresas, NEW tipo \in Tipos,
             ValidaUpdate(t, e, tipo)
      PROVE  TypeOK'
  <2>1. [op |-> "validada", id |-> e, tipo |-> tipo] \in Requisicoes
    BY DEF Requisicoes, OpsEmpresa
  <2> QED
    BY <1>5, <2>1 DEF ValidaUpdate, TypeOK
<1>6. ASSUME NEW t \in Threads, LeCadastro(t) \/ LeAcesso(t)
      PROVE  TypeOK'
  BY <1>6, AvancaTipo DEF LeCadastro, LeAcesso, OpsEmpresa
<1>7. ASSUME NEW t \in Threads, MergeEmpresa(t)
      PROVE  TypeOK'
  <2>1. requisicao[t].op \in OpsEmpresa
    BY <1>7 DEF MergeEmpresa, OpsEmpresa
  <2>2. PICK e \in LinhasDoMerge(empresa, requisicao[t].id) :
          empresa' = [empresa EXCEPT ![e] =
                        [linha |-> "gravada", tipo |-> requisicao[t].tipo,
                         acesso |-> (requisicao[t].op = "com_acesso")]]
    BY <1>7 DEF MergeEmpresa
  <2>3. [linha |-> "gravada", tipo |-> requisicao[t].tipo,
         acesso |-> (requisicao[t].op = "com_acesso")] \in EmpresaLinhas
    BY <2>1, RequisicaoTipo DEF EmpresaLinhas, Linha
  <2>4. empresa' \in [Empresas -> EmpresaLinhas]
    BY <2>2, <2>3 DEF TypeOK, EmpresaLinhas
  <2> QED
    BY <1>7, <2>4, TerminaTipo DEF MergeEmpresa, TypeOK, EmpresaLinhas
<1>8. ASSUME NEW t \in Threads, NEW id \in Pedidos \cup {Nulo},
             NEW e \in Empresas \cup {EmpresaPropria, Nulo},
             NEW f \in Funcionarios \cup {Nulo}, IniciaPedido(t, id, e, f)
      PROVE  TypeOK'
  <2>1. [op |-> "pedido", id |-> id, empresa |-> e, entregador |-> f] \in Requisicoes
    BY <1>8 DEF IniciaPedido, EmpresaDePedido, Requisicoes
  <2> QED
    BY <1>8, <2>1, IniciaVinculoTipo DEF IniciaPedido, TypeOK
<1>9. ASSUME NEW t \in Threads, GravaPedido(t)
      PROVE  TypeOK'
  <2>1. PICK p \in Pedidos :
          /\ pedido' = [pedido EXCEPT ![p] =
                          [linha |-> "gravada", empresa |-> requisicao[t].empresa,
                           entregador |-> requisicao[t].entregador]]
          /\ Marca(t, p)
    BY <1>9, GravadasEm DEF GravaPedido, TypeOK
  <2>2. [linha |-> "gravada", empresa |-> requisicao[t].empresa,
         entregador |-> requisicao[t].entregador] \in PedidoLinhas
    BY <1>9, RequisicaoTipo DEF GravaPedido, PedidoLinhas, Linha
  <2>3. pedido' \in [Pedidos -> PedidoLinhas]
    BY <2>1, <2>2 DEF TypeOK, PedidoLinhas
  <2> QED
    BY <1>9, <2>1, <2>3, TerminaTipo, MarcaTipo DEF GravaPedido, TypeOK, PedidoLinhas
<1>10. ASSUME NEW t \in Threads, NEW id \in Funcionarios \cup {Nulo},
              NEW funcoes \in PossiveisFuncoes, NEW funcao \in Funcoes,
              NEW e \in Empresas \cup {EmpresaPropria},
              IniciaFuncionario(t, id, funcoes, funcao, e)
       PROVE  TypeOK'
  <2>1. [op |-> "funcionario", id |-> id, funcao |-> funcao, empresa |-> e]
          \in Requisicoes
    BY DEF Requisicoes
  <2> QED
    BY <1>10, <2>1, IniciaVinculoTipo DEF IniciaFuncionario, TypeOK
<1>11. ASSUME NEW t \in Threads, GravaFuncionario(t)
       PROVE  TypeOK'
  <2>1. PICK f \in Funcionarios :
          /\ funcionario' = [funcionario EXCEPT ![f] =
                               [linha |-> "gravada", funcao |-> requisicao[t].funcao,
                                empresa |-> requisicao[t].empresa]]
          /\ Marca(t, f)
    BY <1>11, GravadasEm DEF GravaFuncionario, TypeOK
  <2>2. [linha |-> "gravada", funcao |-> requisicao[t].funcao,
         empresa |-> requisicao[t].empresa] \in FuncionarioLinhas
    BY <1>11, RequisicaoTipo DEF GravaFuncionario, FuncionarioLinhas, Linha
  <2>3. funcionario' \in [Funcionarios -> FuncionarioLinhas]
    BY <2>1, <2>2 DEF TypeOK, FuncionarioLinhas
  <2> QED
    BY <1>11, <2>1, <2>3, TerminaTipo, MarcaTipo
       DEF GravaFuncionario, TypeOK, FuncionarioLinhas
<1>12. ASSUME NEW t \in Threads, Falha(t)
       PROVE  TypeOK'
  BY <1>12, TerminaTipo DEF Falha, TypeOK
<1>13. CASE UNCHANGED vars
  BY <1>13 DEF vars, TypeOK
<1> QED
  BY <1>1, <1>2, <1>3, <1>4, <1>5, <1>6, <1>7, <1>8, <1>9, <1>10, <1>11, <1>12,
     <1>13 DEF Next

\* The tables, the requests and the history always have their types.
THEOREM TypeCorrect == Spec => []TypeOK
<1> QED
  BY TipoInit, TipoNext, PTL DEF Spec

----------------------------------------------------------------------------
(* The inductive invariant *)

\* The foreign keys: a row refers to rows that are there.
LinksExist ==
  /\ \A p \in Gravadas(pedido) :
       pedido[p].empresa # Nulo => pedido[p].empresa \in Gravadas(empresa)
  /\ \A f \in Gravadas(funcionario) :
       funcionario[f].empresa # EmpresaPropria =>
         funcionario[f].empresa \in Gravadas(empresa)

\* While a company is to become of a type, the rows that do not go with this
\* type, of which there was none when the form was validated, are in the history.
ChangesCovered ==
  \A t \in Threads, e \in Empresas : Altera(t, e) =>
    /\ requisicao[t].tipo = "CLIENTE" => FuncionariosDe(e) \subseteq corridos
    /\ requisicao[t].tipo = "ENTREGA" => PedidosDe(e) \subseteq corridos

\* A request to whose company a change is under way knows of it.
CrossingKnown ==
  \A t, u \in Threads : Vincula(t) /\ Altera(u, requisicao[t].empresa) =>
    requisicao[t].empresa \in cruzou[t]

\* What a request has checked of its company holds until the company is changed,
\* and a company it has read is never a company to come.
CheckStillHolds ==
  \A t \in Threads : Vincula(t) =>
    LET r == requisicao[t] IN
    /\ r.empresa \in Empresas =>
         /\ empresa[r.empresa].linha # "nova"
         /\ r.empresa \in cruzou[t] \/
              empresa[r.empresa].tipo = IF r.op = "pedido" THEN "CLIENTE" ELSE "ENTREGA"
    /\ r.op = "funcionario" =>
         (r.funcao = "ENTREGADOR" <=> r.empresa # EmpresaPropria)

\* Deliverers stay deliverers: that of an order to be saved, and the employee a
\* form is about, which stays among the functions of its form.
DelivererStays ==
  \A t \in Threads :
    LET r == requisicao[t] IN
    /\ r.op = "pedido" /\ r.entregador # Nulo =>
         /\ funcionario[r.entregador].linha # "nova"
         /\ funcionario[r.entregador].funcao = "ENTREGADOR"
    /\ r.op = "funcionario" /\ r.id # Nulo =>
         /\ funcionario[r.id].linha # "nova"
         /\ funcionario[r.id].funcao = "ENTREGADOR" <=> r.funcao = "ENTREGADOR"

VinculosInv ==
  /\ LinksMatchUnlessRaced
  /\ LinksExist
  /\ ChangesCovered
  /\ CrossingKnown
  /\ CheckStillHolds

EntregadorInv ==
  /\ DelivererDelivers
  /\ DelivererStays

----------------------------------------------------------------------------
(* Deliverers *)

\* A request that ends holds nothing, and the others what they held.
LEMMA TerminaResto ==
  ASSUME TypeOK, NEW t \in Threads, Termina(t)
  PROVE  /\ requisicao'[t] = Ociosa /\ cruzou'[t] = {}
         /\ \A u \in Threads : u # t => /\ requisicao'[u] = requisicao[u]
                                        /\ cruzou'[u] = cruzou[u]
  BY DEF Termina, TypeOK

LEMMA IniciaVinculoResto ==
  ASSUME TypeOK, NEW t \in Threads, NEW r, IniciaVinculo(t, r)
  PROVE  /\ requisicao'[t] = r /\ cruzou'[t] = SobAlteracao
         /\ \A u \in Threads : u # t => /\ requisicao'[u] = requisicao[u]
                                        /\ cruzou'[u] = cruzou[u]
  BY DEF IniciaVinculo, TypeOK

LEMMA AvancaResto ==
  ASSUME TypeOK, NEW t \in Threads, NEW de \in OpsEmpresa, NEW para \in OpsEmpresa,
         Avanca(t, de, para)
  PROVE  /\ requisicao'[t].op = para
         /\ requisicao'[t].id = requisicao[t].id
         /\ requisicao'[t].tipo = requisicao[t].tipo
         /\ \A u \in Threads : u # t => requisicao'[u] = requisicao[u]
<1>1. PICK e \in Empresas, tipo \in Tipos :
        requisicao[t] = [op |-> de, id |-> e, tipo |-> tipo]
  BY RequisicaoTipo DEF Avanca
<1> QED
  BY <1>1 DEF Avanca, TypeOK

\* The request of t ends and changes neither orders nor employees.
LEMMA EntregadorTermina ==
  ASSUME TypeOK, EntregadorInv, NEW t \in Threads, Termina(t),
         UNCHANGED <<funcionario, pedido>>
  PROVE  EntregadorInv'
<1>1. DelivererDelivers'
  BY DEF EntregadorInv, DelivererDelivers, Gravadas
<1>2. DelivererStays'
  BY TerminaResto DEF EntregadorInv, DelivererStays, Ociosa
<1> QED
  BY <1>1, <1>2 DEF EntregadorInv

LEMMA EntregadorNext ==
  ASSUME TypeOK, EntregadorInv, [Next]_vars
  PROVE  EntregadorInv'
<1> USE DEF EntregadorInv
<1>1. ASSUME UNCHANGED <<funcionario, pedido, requisicao>>
      PROVE  EntregadorInv'
  BY <1>1 DEF DelivererDelivers, DelivererStays, Gravadas
<1>2. ASSUME NEW tipo \in Tipos, StoreEmpresa(tipo)
      PROVE  EntregadorInv'
  BY <1>1, <1>2 DEF StoreEmpresa
<1>3. ASSUME NEW e \in Empresas, DestroyEmpresa(e)
      PROVE  EntregadorInv'
  BY <1>1, <1>3 DEF DestroyEmpresa
<1>4. ASSUME NEW p \in Pedidos, DestroyPedido(p)
      PROVE  EntregadorInv'
  <2>1. DelivererDelivers'
    BY <1>4 DEF DestroyPedido, DelivererDelivers, Gravadas, TypeOK
  <2> QED
    BY <1>4, <2>1 DEF DestroyPedido, DelivererStays
<1>5. ASSUME NEW f \in Funcionarios, DestroyFuncionario(f)
      PROVE  EntregadorInv'
  <2>1. \A g \in Funcionarios :
          /\ funcionario'[g].funcao = funcionario[g].funcao
          /\ g # f => funcionario'[g] = funcionario[g]
          /\ funcionario[g].linha # "nova" => funcionario'[g].linha # "nova"
    BY <1>5 DEF DestroyFuncionario, TypeOK
  <2>2. DelivererDelivers'
    BY <1>5, <2>1 DEF DestroyFuncionario, DelivererDelivers, Gravadas, TypeOK,
                      PedidosDoEntregador
  <2>3. DelivererStays'
    BY <1>5, <2>1, RequisicaoTipo DEF DestroyFuncionario, DelivererStays
  <2> QED
    BY <2>2, <2>3
<1>6. ASSUME NEW t \in Threads, NEW e \in Empresas, NEW tipo \in Tipos,
             ValidaUpdate(t, e, tipo)
      PROVE  EntregadorInv'
  <2>1. DelivererDelivers'
    BY <1>6 DEF ValidaUpdate, DelivererDelivers, Gravadas
  <2>2. DelivererStays'
    BY <1>6 DEF ValidaUpdate, DelivererStays, TypeOK
  <2> QED
    BY <2>1, <2>2
<1>7. ASSUME NEW t \in Threads, LeCadastro(t) \/ LeAcesso(t)
      PROVE  EntregadorInv'
  <2>1. PICK de \in OpsEmpresa, para \in OpsEmpresa : Avanca(t, de, para)
    BY <1>7 DEF LeCadastro, LeAcesso, OpsEmpresa
  <2>2. DelivererDelivers'
    BY <2>1 DEF Avanca, DelivererDelivers, Gravadas
  <2>3. DelivererStays'
    BY <2>1, AvancaResto DEF Avanca, DelivererStays, OpsEmpresa
  <2> QED
    BY <2>2, <2>3
<1>8. ASSUME NEW t \in Threads, MergeEmpresa(t) \/ Falha(t)
      PROVE  EntregadorInv'
  BY <1>8, EntregadorTermina DEF MergeEmpresa, Falha
<1>9. ASSUME NEW t \in Threads, NEW id \in Pedidos \cup {Nulo},
             NEW e \in Empresas \cup {EmpresaPropria, Nulo},
             NEW f \in Funcionarios \cup {Nulo}, IniciaPedido(t, id, e, f)
      PROVE  EntregadorInv'
  <2> DEFINE r == [op |-> "pedido", id |-> id, empresa |-> e, entregador |-> f]
  <2>1. DelivererDelivers'
    BY <1>9 DEF IniciaPedido, DelivererDelivers, Gravadas
  <2>2. IniciaVinculo(t, r)
    BY <1>9 DEF IniciaPedido
  <2>3. f # Nulo => /\ funcionario[f].linha # "nova"
                    /\ funcionario[f].funcao = "ENTREGADOR"
    BY <1>9 DEF IniciaPedido, verificaEntregador, Gravadas
  <2>4. DelivererStays'
    BY <1>9, <2>2, <2>3, IniciaVinculoResto DEF IniciaPedido, DelivererStays
  <2> QED
    BY <2>1, <2>4
<1>10. ASSUME NEW t \in Threads, GravaPedido(t)
       PROVE  EntregadorInv'
  <2>1. PICK p \in Pedidos :
          pedido' = [pedido EXCEPT ![p] =
                       [linha |-> "gravada", empresa |-> requisicao[t].empresa,
                        entregador |-> requisicao[t].entregador]]
    BY <1>10, GravadasEm DEF GravaPedido, TypeOK
  <2>2. DelivererDelivers'
    BY <1>10, <2>1 DEF GravaPedido, DelivererDelivers, DelivererStays, Gravadas, TypeOK
  <2>3. DelivererStays'
    BY <1>10, TerminaResto DEF GravaPedido, DelivererStays, Ociosa
  <2> QED
    BY <2>2, <2>3
<1>11. ASSUME NEW t \in Threads, NEW id \in Funcionarios \cup {Nulo},
              NEW funcoes \in PossiveisFuncoes, NEW funcao \in Funcoes,
              NEW e \in Empresas \cup {EmpresaPropria},
              IniciaFuncionario(t, id, funcoes, funcao, e)
       PROVE  EntregadorInv'
  <2> DEFINE r == [op |-> "funcionario", id |-> id, funcao |-> funcao, empresa |-> e]
  <2>1. DelivererDelivers'
    BY <1>11 DEF IniciaFuncionario, DelivererDelivers, Gravadas
  <2>2. IniciaVinculo(t, r)
    BY <1>11 DEF IniciaFuncionario
  <2>3. id # Nulo => /\ funcionario[id].linha # "nova"
                     /\ funcionario[id].funcao = "ENTREGADOR" <=> funcao = "ENTREGADOR"
    BY <1>11 DEF IniciaFuncionario, PossiveisFuncoes, Gravadas
  <2>4. DelivererStays'
    BY <1>11, <2>2, <2>3, IniciaVinculoResto DEF IniciaFuncionario, DelivererStays
  <2> QED
    BY <2>1, <2>4
<1>12. ASSUME NEW t \in Threads, GravaFuncionario(t)
       PROVE  EntregadorInv'
  <2>1. PICK f \in Funcionarios :
          /\ f \in IF requisicao[t].id = Nulo THEN Novas(funcionario)
                                              ELSE {requisicao[t].id}
          /\ funcionario' = [funcionario EXCEPT ![f] =
                               [linha |-> "gravada", funcao |-> requisicao[t].funcao,
                                empresa |-> requisicao[t].empresa]]
    BY <1>12, GravadasEm DEF GravaFuncionario, TypeOK
  <2>2. /\ funcionario'[f].linha = "gravada"
        /\ funcionario[f].linha # "nova" =>
             (funcionario'[f].funcao = "ENTREGADOR" <=> funcionario[f].funcao = "ENTREGADOR")
        /\ \A g \in Funcionarios : g # f => funcionario'[g] = funcionario[g]
    BY <1>12, <2>1 DEF GravaFuncionario, DelivererStays, Novas, TypeOK
  <2>3. DelivererDelivers'
    BY <1>12, <2>2 DEF GravaFuncionario, DelivererDelivers, Gravadas, TypeOK
  <2>4. \A g \in Funcionarios : funcionario[g].linha # "nova" =>
          /\ funcionario'[g].linha # "nova"
          /\ funcionario'[g].funcao = "ENTREGADOR" <=> funcionario[g].funcao = "ENTREGADOR"
    BY <2>2
  <2>5. ASSUME NEW u \in Threads, u # t
        PROVE  LET r == requisicao[u] IN
               /\ r.op = "pedido" /\ r.entregador # Nulo =>
                    /\ funcionario'[r.entregador].linha # "nova"
                    /\ funcionario'[r.entregador].funcao = "ENTREGADOR"
               /\ r.op = "funcionario" /\ r.id # Nulo =>
                    /\ funcionario'[r.id].linha # "nova"
                    /\ funcionario'[r.id].funcao = "ENTREGADOR" <=> r.funcao = "ENTREGADOR"
    BY <2>4, RequisicaoTipo DEF DelivererStays
  <2>6. DelivererStays'
    BY <1>12, <2>5, TerminaResto DEF GravaFuncionario, DelivererStays, Ociosa
  <2> QED
    BY <2>3, <2>6
<1>13. CASE UNCHANGED vars
  BY <1>1, <1>13 DEF vars
<1> QED
  BY <1>2, <1>3, <1>4, <1>5, <1>6, <1>7, <1>8, <1>9, <1>10, <1>11, <1>12, <1>13
     DEF Next

\* The deliverer of an order is one, whatever the requests and their order: the
\* function the order's request read stays true of the row until it is saved,
\* and then the row stays, as the foreign key keeps it.
THEOREM DeliverersDeliver == Spec => []DelivererDelivers
<1>1. Init => EntregadorInv
  BY DEF Init, EntregadorInv, DelivererDelivers, DelivererStays, Gravadas, Ociosa
<1> QED
  BY <1>1, EntregadorNext, TypeCorrect, PTL DEF Spec, EntregadorInv

----------------------------------------------------------------------------
(* Companies and what is tied to them *)

\* No request starts: each is as it was, or over.
Mantidas ==
  \A u \in Threads :
    \/ requisicao'[u] = requisicao[u] /\ cruzou'[u] = cruzou[u]
    \/ requisicao'[u] = Ociosa

LEMMA CrossingMantida ==
  ASSUME CrossingKnown, Mantidas
  PROVE  CrossingKnown'
  BY DEF CrossingKnown, Mantidas, Vincula, Altera, OpsEmpresa, Ociosa

LEMMA ChangesMantida ==
  ASSUME ChangesCovered, Mantidas, UNCHANGED <<pedido, funcionario, corridos>>
  PROVE  ChangesCovered'
  BY DEF ChangesCovered, Mantidas, Altera, OpsEmpresa, Ociosa, PedidosDe,
         FuncionariosDe, Gravadas

\* A step may change the type of a company under change only, and makes none
\* unused again.
EmpresasMantidas ==
  \A e \in Empresas : empresa[e].linha # "nova" =>
    /\ empresa'[e].linha # "nova"
    /\ \/ empresa'[e].tipo = empresa[e].tipo
       \/ \E u \in Threads : Altera(u, e)

LEMMA CheckMantida ==
  ASSUME CheckStillHolds, CrossingKnown, Mantidas, EmpresasMantidas
  PROVE  CheckStillHolds'
<1> SUFFICES ASSUME NEW t \in Threads, Vincula(t)'
             PROVE  CheckStillHolds!(t)'
  BY DEF CheckStillHolds
<1>1. requisicao'[t] = requisicao[t] /\ cruzou'[t] = cruzou[t]
  BY DEF Mantidas, Vincula, Ociosa
<1>2. Vincula(t)
  BY <1>1 DEF Vincula
<1> QED
  BY <1>1, <1>2 DEF CheckStillHolds, CrossingKnown, EmpresasMantidas

\* A row no order and no employee can refer to yet becomes a company.
LEMMA EmpresaNova ==
  ASSUME TypeOK, VinculosInv, Mantidas, NEW e \in Novas(empresa),
         NEW v \in EmpresaLinhas, v.linha = "gravada",
         empresa' = [empresa EXCEPT ![e] = v],
         UNCHANGED <<pedido, funcionario, corridos>>
  PROVE  VinculosInv'
<1> USE DEF VinculosInv
<1>1. e \in Empresas /\ empresa[e].linha = "nova"
  BY DEF Novas, TypeOK
<1>2. empresa'[e] = v /\ \A g \in Empresas : g # e => empresa'[g] = empresa[g]
  BY <1>1 DEF TypeOK
<1>3. \A g \in Gravadas(empresa) : g \in Gravadas(empresa)' /\ empresa'[g] = empresa[g]
  BY <1>1, <1>2 DEF Gravadas, TypeOK
<1>4. LinksExist'
  BY <1>3 DEF LinksExist, Gravadas
<1>5. LinksMatchUnlessRaced'
  BY <1>3 DEF LinksMatchUnlessRaced, LinksExist, PedidoDeCliente, FuncionarioDaCasa,
              Gravadas
<1>6. EmpresasMantidas
  BY <1>1, <1>2 DEF EmpresasMantidas
<1> QED
  BY <1>4, <1>5, <1>6, CrossingMantida, ChangesMantida, CheckMantida

\* A request changes the company it was about.
LEMMA EmpresaAlterada ==
  ASSUME TypeOK, VinculosInv, Mantidas, NEW t \in Threads, NEW e \in Empresas,
         Altera(t, e), e \in Gravadas(empresa),
         NEW v \in EmpresaLinhas, v.linha = "gravada", v.tipo = requisicao[t].tipo,
         empresa' = [empresa EXCEPT ![e] = v],
         UNCHANGED <<pedido, funcionario, corridos>>
  PROVE  VinculosInv'
<1> USE DEF VinculosInv
<1>1. empresa'[e] = v /\ \A g \in Empresas : g # e => empresa'[g] = empresa[g]
  BY DEF TypeOK
<1>2. Gravadas(empresa)' = Gravadas(empresa)
  BY <1>1 DEF Gravadas, TypeOK
<1>3. LinksExist'
  BY <1>2 DEF LinksExist, Gravadas
<1>4. v.tipo \in Tipos
  BY DEF EmpresaLinhas
<1>5. v.tipo # "CLIENTE" => PedidosDe(e) \subseteq corridos
  BY <1>4 DEF ChangesCovered, Tipos
<1>6. v.tipo # "ENTREGA" => FuncionariosDe(e) \subseteq corridos
  BY <1>4 DEF ChangesCovered, Tipos
<1>7. ASSUME NEW p \in Gravadas(pedido) \ corridos
      PROVE  PedidoDeCliente(p)'
  BY <1>1, <1>2, <1>5 DEF LinksMatchUnlessRaced, PedidoDeCliente, PedidosDe,
                          Gravadas, TypeOK
<1>8. ASSUME NEW f \in Gravadas(funcionario) \ corridos
      PROVE  FuncionarioDaCasa(f)'
  BY <1>1, <1>2, <1>6 DEF LinksMatchUnlessRaced, FuncionarioDaCasa, FuncionariosDe,
                          Gravadas, TypeOK
<1>9. LinksMatchUnlessRaced'
  BY <1>7, <1>8 DEF LinksMatchUnlessRaced, Gravadas
<1>10. EmpresasMantidas
  BY <1>1 DEF EmpresasMantidas
<1> QED
  BY <1>3, <1>9, <1>10, CrossingMantida, ChangesMantida, CheckMantida

\* The tables are as they were.
LEMMA TabelasMantidas ==
  ASSUME VinculosInv, UNCHANGED <<empresa, pedido, funcionario, corridos>>
  PROVE  LinksMatchUnlessRaced' /\ LinksExist'
  BY DEF VinculosInv, LinksMatchUnlessRaced, LinksExist, PedidoDeCliente,
         FuncionarioDaCasa, Gravadas

\* The request of t starts, to tie a row to a company it found to be of a type.
LEMMA VinculoInicia ==
  ASSUME TypeOK, VinculosInv, NEW t \in Threads, NEW r \in Requisicoes,
         r.op \in {"pedido", "funcionario"}, IniciaVinculo(t, r),
         UNCHANGED <<empresa, pedido, funcionario, corridos>>,
         r.empresa \in Empresas =>
           /\ r.empresa \in Gravadas(empresa)
           /\ empresa[r.empresa].tipo = IF r.op = "pedido" THEN "CLIENTE" ELSE "ENTREGA",
         r.op = "funcionario" =>
           (r.funcao = "ENTREGADOR" <=> r.empresa # EmpresaPropria)
  PROVE  VinculosInv'
<1> USE DEF VinculosInv
<1>1. LinksMatchUnlessRaced' /\ LinksExist'
  BY TabelasMantidas
<1>2. \A u \in Threads : requisicao'[u].op \in OpsEmpresa =>
        u # t /\ requisicao'[u] = requisicao[u]
  BY IniciaVinculoResto DEF OpsEmpresa
<1>3. ChangesCovered'
  BY <1>2 DEF ChangesCovered, Altera, PedidosDe, FuncionariosDe, Gravadas
<1>4. CrossingKnown'
  <2> SUFFICES ASSUME NEW s \in Threads, NEW u \in Threads, Vincula(s)',
                      Altera(u, requisicao[s].empresa)'
               PROVE  requisicao'[s].empresa \in cruzou'[s]
    BY DEF CrossingKnown
  <2>1. u # t /\ Altera(u, requisicao'[s].empresa)
    BY <1>2 DEF Altera
  <2>2. requisicao'[s].empresa \in Empresas
    BY <2>1, RequisicaoTipo DEF Altera
  <2>3. CASE s = t
    BY <2>1, <2>2, <2>3, IniciaVinculoResto DEF SobAlteracao
  <2>4. CASE s # t
    BY <2>1, <2>4, IniciaVinculoResto DEF CrossingKnown, Vincula
  <2> QED
    BY <2>3, <2>4
<1>5. CheckStillHolds'
  <2> SUFFICES ASSUME NEW s \in Threads, Vincula(s)'
               PROVE  CheckStillHolds!(s)'
    BY DEF CheckStillHolds
  <2>1. CASE s = t
    BY <2>1, IniciaVinculoResto DEF Gravadas
  <2>2. CASE s # t
    BY <2>2, IniciaVinculoResto DEF CheckStillHolds, Vincula
  <2> QED
    BY <2>1, <2>2
<1> QED
  BY <1>1, <1>3, <1>4, <1>5

\* The request of t stores its row p, an order.
LEMMA PedidoGravado ==
  ASSUME TypeOK, VinculosInv, NEW t \in Threads, GravaPedido(t)
  PROVE  VinculosInv'
<1> USE DEF VinculosInv
<1> DEFINE r == requisicao[t]
<1>1. PICK p \in Pedidos :
        /\ pedido' = [pedido EXCEPT ![p] =
                        [linha |-> "gravada", empresa |-> r.empresa,
                         entregador |-> r.entregador]]
        /\ Marca(t, p)
  BY GravadasEm DEF GravaPedido, TypeOK
<1>2. /\ pedido'[p].linha = "gravada" /\ pedido'[p].empresa = r.empresa
      /\ \A q \in Pedidos : q # p => pedido'[q] = pedido[q]
  BY <1>1 DEF TypeOK
<1>3. /\ Vincula(t) /\ r.op = "pedido"
      /\ UNCHANGED <<empresa, funcionario>>
      /\ r.empresa # Nulo => r.empresa \in Empresas /\ r.empresa \in Gravadas(empresa)
  BY RequisicaoTipo DEF GravaPedido, Vincula
<1>4. /\ \A q : q # p => (q \in corridos' <=> q \in corridos)
      /\ p \in corridos' <=> r.empresa \in cruzou[t]
  BY <1>1 DEF Marca
<1>5. Mantidas
  BY TerminaResto DEF GravaPedido, Mantidas
<1>6. /\ Gravadas(empresa)' = Gravadas(empresa)
      /\ Gravadas(funcionario)' = Gravadas(funcionario)
      /\ \A q \in Gravadas(pedido)' :
           q = p \/ (q \in Gravadas(pedido) /\ pedido'[q] = pedido[q])
  BY <1>1, <1>2, <1>3 DEF Gravadas, TypeOK
<1>7. LinksExist'
  BY <1>2, <1>3, <1>6 DEF LinksExist
<1>8. LinksMatchUnlessRaced'
  <2>1. ASSUME NEW q \in Gravadas(pedido)', q \notin corridos'
        PROVE  PedidoDeCliente(q)'
    <3>1. CASE q = p
      <4>1. r.empresa # Nulo => empresa[r.empresa].tipo = "CLIENTE"
        BY <1>3, <1>4, <2>1, <3>1 DEF CheckStillHolds
      <4> QED
        BY <1>2, <1>3, <1>6, <3>1, <4>1 DEF PedidoDeCliente
    <3>2. CASE q # p
      BY <1>3, <1>4, <1>6, <2>1, <3>2 DEF LinksMatchUnlessRaced, PedidoDeCliente
    <3> QED
      BY <3>1, <3>2
  <2>2. ASSUME NEW f \in Gravadas(funcionario)', f \notin corridos'
        PROVE  FuncionarioDaCasa(f)'
    <3>1. f # p
      BY <1>3, ConstantesOK DEF Gravadas, TypeOK
    <3> QED
      BY <1>3, <1>4, <2>2, <3>1 DEF LinksMatchUnlessRaced, FuncionarioDaCasa, Gravadas
  <2> QED
    BY <2>1, <2>2 DEF LinksMatchUnlessRaced
<1>9. ChangesCovered'
  <2> SUFFICES ASSUME NEW u \in Threads, NEW e \in Empresas, Altera(u, e)'
               PROVE  ChangesCovered!(u, e)'
    BY DEF ChangesCovered
  <2>1. Altera(u, e) /\ requisicao'[u] = requisicao[u]
    BY <1>5 DEF Mantidas, Altera, OpsEmpresa, Ociosa
  <2>2. FuncionariosDe(e)' \subseteq corridos' <=> FuncionariosDe(e) \subseteq corridos
    BY <1>3, <1>4, ConstantesOK DEF FuncionariosDe, Gravadas, TypeOK
  <2>3. PedidosDe(e) \subseteq corridos => PedidosDe(e)' \subseteq corridos'
    <3>1. r.empresa = e => p \in corridos'
      BY <1>3, <1>4, <2>1 DEF CrossingKnown
    <3>2. ASSUME NEW q \in PedidosDe(e)', PedidosDe(e) \subseteq corridos
          PROVE  q \in corridos'
      BY <1>2, <1>4, <1>6, <3>1, <3>2 DEF PedidosDe
    <3> QED
      BY <3>2
  <2> QED
    BY <2>1, <2>2, <2>3 DEF ChangesCovered
<1>10. CheckStillHolds' /\ CrossingKnown'
  <2>1. EmpresasMantidas
    BY <1>3 DEF EmpresasMantidas
  <2> QED
    BY <1>5, <2>1, CrossingMantida, CheckMantida
<1> QED
  BY <1>7, <1>8, <1>9, <1>10

\* The request of t stores its row f, an employee.
LEMMA FuncionarioGravado ==
  ASSUME TypeOK, VinculosInv, NEW t \in Threads, GravaFuncionario(t)
  PROVE  VinculosInv'
<1> USE DEF VinculosInv
<1> DEFINE r == requisicao[t]
<1>1. PICK f \in Funcionarios :
        /\ funcionario' = [funcionario EXCEPT ![f] =
                             [linha |-> "gravada", funcao |-> r.funcao,
                              empresa |-> r.empresa]]
        /\ Marca(t, f)
  BY GravadasEm DEF GravaFuncionario, TypeOK
<1>2. /\ funcionario'[f].linha = "gravada"
      /\ funcionario'[f].empresa = r.empresa /\ funcionario'[f].funcao = r.funcao
      /\ \A g \in Funcionarios : g # f => funcionario'[g] = funcionario[g]
  BY <1>1 DEF TypeOK
<1>3. /\ Vincula(t) /\ r.op = "funcionario"
      /\ UNCHANGED <<empresa, pedido>>
      /\ r.empresa # EmpresaPropria =>
           r.empresa \in Empresas /\ r.empresa \in Gravadas(empresa)
  BY RequisicaoTipo DEF GravaFuncionario, Vincula
<1>4. /\ \A g : g # f => (g \in corridos' <=> g \in corridos)
      /\ f \in corridos' <=> r.empresa \in cruzou[t]
  BY <1>1 DEF Marca
<1>5. Mantidas
  BY TerminaResto DEF GravaFuncionario, Mantidas
<1>6. /\ Gravadas(empresa)' = Gravadas(empresa)
      /\ Gravadas(pedido)' = Gravadas(pedido)
      /\ \A g \in Gravadas(funcionario)' :
           g = f \/ (g \in Gravadas(funcionario) /\ funcionario'[g] = funcionario[g])
  BY <1>1, <1>2, <1>3 DEF Gravadas, TypeOK
<1>7. LinksExist'
  BY <1>2, <1>3, <1>6 DEF LinksExist
<1>8. LinksMatchUnlessRaced'
  <2>1. ASSUME NEW g \in Gravadas(funcionario)', g \notin corridos'
        PROVE  FuncionarioDaCasa(g)'
    <3>1. CASE g = f
      <4>1. /\ r.empresa # EmpresaPropria => empresa[r.empresa].tipo = "ENTREGA"
            /\ r.funcao = "ENTREGADOR" <=> r.empresa # EmpresaPropria
        BY <1>3, <1>4, <2>1, <3>1 DEF CheckStillHolds
      <4> QED
        BY <1>2, <1>3, <1>6, <3>1, <4>1 DEF FuncionarioDaCasa
    <3>2. CASE g # f
      BY <1>3, <1>4, <1>6, <2>1, <3>2 DEF LinksMatchUnlessRaced, FuncionarioDaCasa
    <3> QED
      BY <3>1, <3>2
  <2>2. ASSUME NEW p \in Gravadas(pedido)', p \notin corridos'
        PROVE  PedidoDeCliente(p)'
    <3>1. p # f
      BY <1>3, ConstantesOK DEF Gravadas, TypeOK
    <3> QED
      BY <1>3, <1>4, <2>2, <3>1 DEF LinksMatchUnlessRaced, PedidoDeCliente, Gravadas
  <2> QED
    BY <2>1, <2>2 DEF LinksMatchUnlessRaced
<1>9. ChangesCovered'
  <2> SUFFICES ASSUME NEW u \in Threads, NEW e \in Empresas, Altera(u, e)'
               PROVE  ChangesCovered!(u, e)'
    BY DEF ChangesCovered
  <2>1. Altera(u, e) /\ requisicao'[u] = requisicao[u]
    BY <1>5 DEF Mantidas, Altera, OpsEmpresa, Ociosa
  <2>2. PedidosDe(e)' \subseteq corridos' <=> PedidosDe(e) \subseteq corridos
    BY <1>3, <1>4, ConstantesOK DEF PedidosDe, Gravadas, TypeOK
  <2>3. FuncionariosDe(e) \subseteq corridos => FuncionariosDe(e)' \subseteq corridos'
    <3>1. r.empresa = e => f \in corridos'
      BY <1>3, <1>4, <2>1 DEF CrossingKnown
    <3>2. ASSUME NEW g \in FuncionariosDe(e)', FuncionariosDe(e) \subseteq corridos
          PROVE  g \in corridos'
      BY <1>2, <1>4, <1>6, <3>1, <3>2 DEF FuncionariosDe
    <3> QED
      BY <3>2
  <2> QED
    BY <2>1, <2>2, <2>3 DEF ChangesCovered
<1>10. CheckStillHolds' /\ CrossingKnown'
  <2>1. EmpresasMantidas
    BY <1>3 DEF EmpresasMantidas
  <2> QED
    BY <1>5, <2>1, CrossingMantida, CheckMantida
<1> QED
  BY <1>7, <1>8, <1>9, <1>10

LEMMA VinculosNext ==
  ASSUME TypeOK, VinculosInv, [Next]_vars
  PROVE  VinculosInv'
<1>1. ASSUME NEW tipo \in Tipos, StoreEmpresa(tipo)
      PROVE  VinculosInv'
  <2> DEFINE v == [linha |-> "gravada", tipo |-> tipo, acesso |-> TRUE]
  <2>1. v \in EmpresaLinhas
    BY DEF EmpresaLinhas, Linha
  <2>2. Mantidas
    BY <1>1 DEF StoreEmpresa, Mantidas
  <2> QED
    BY <1>1, <2>1, <2>2, EmpresaNova DEF StoreEmpresa
<1>2. ASSUME NEW e \in Empresas, DestroyEmpresa(e)
      PROVE  VinculosInv'
  <2> USE DEF VinculosInv
  <2>1. Mantidas
    BY <1>2 DEF DestroyEmpresa, Mantidas
  <2>2. /\ empresa'[e].linha = "excluida" /\ empresa'[e].tipo = empresa[e].tipo
        /\ \A g \in Empresas : g # e => empresa'[g] = empresa[g]
    BY <1>2 DEF DestroyEmpresa, TypeOK
  <2>3. EmpresasMantidas
    BY <2>2 DEF EmpresasMantidas
  <2>4. LinksExist'
    BY <1>2, <2>2 DEF DestroyEmpresa, PodeExcluirEmpresa, PedidosDe, FuncionariosDe,
                      LinksExist, Gravadas, TypeOK
  <2>5. \A g \in Gravadas(empresa)' : g \in Gravadas(empresa) /\ empresa'[g] = empresa[g]
    BY <1>2, <2>2 DEF DestroyEmpresa, Gravadas, TypeOK
  <2>6. /\ Gravadas(pedido)' = Gravadas(pedido)
        /\ Gravadas(funcionario)' = Gravadas(funcionario)
        /\ UNCHANGED <<pedido, funcionario, corridos>>
    BY <1>2 DEF DestroyEmpresa, Gravadas
  <2>7. LinksMatchUnlessRaced'
    <3>1. EmpresaPropria \notin Gravadas(empresa)
      BY ConstantesOK DEF Gravadas, TypeOK
    <3> QED
      BY <2>4, <2>5, <2>6, <3>1 DEF LinksExist, LinksMatchUnlessRaced,
                                    PedidoDeCliente, FuncionarioDaCasa
  <2> QED
    BY <1>2, <2>1, <2>3, <2>4, <2>7, CrossingMantida, ChangesMantida, CheckMantida
       DEF DestroyEmpresa
<1>3. ASSUME NEW p \in Pedidos, DestroyPedido(p)
      PROVE  VinculosInv'
  <2> USE DEF VinculosInv
  <2>1. Mantidas /\ EmpresasMantidas
    BY <1>3 DEF DestroyPedido, Mantidas, EmpresasMantidas
  <2>2. /\ pedido'[p].linha = "excluida"
        /\ \A q \in Pedidos : q # p => pedido'[q] = pedido[q]
    BY <1>3 DEF DestroyPedido, TypeOK
  <2>3. \A q \in Gravadas(pedido)' : q \in Gravadas(pedido) /\ pedido'[q] = pedido[q]
    BY <1>3, <2>2 DEF DestroyPedido, Gravadas, TypeOK
  <2>4. LinksExist' /\ LinksMatchUnlessRaced'
    BY <1>3, <2>3 DEF DestroyPedido, LinksExist, LinksMatchUnlessRaced,
                      PedidoDeCliente, FuncionarioDaCasa, Gravadas
  <2>5. ChangesCovered'
    BY <1>3, <2>3 DEF DestroyPedido, ChangesCovered, Altera, PedidosDe, FuncionariosDe,
                      Gravadas
  <2> QED
    BY <2>1, <2>4, <2>5, CrossingMantida, CheckMantida
<1>4. ASSUME NEW f \in Funcionarios, DestroyFuncionario(f)
      PROVE  VinculosInv'
  <2> USE DEF VinculosInv
  <2>1. Mantidas /\ EmpresasMantidas
    BY <1>4 DEF DestroyFuncionario, Mantidas, EmpresasMantidas
  <2>2. /\ funcionario'[f].linha = "excluida"
        /\ \A g \in Funcionarios : g # f => funcionario'[g] = funcionario[g]
    BY <1>4 DEF DestroyFuncionario, TypeOK
  <2>3. \A g \in Gravadas(funcionario)' :
          g \in Gravadas(funcionario) /\ funcionario'[g] = funcionario[g]
    BY <1>4, <2>2 DEF DestroyFuncionario, Gravadas, TypeOK
  <2>4. LinksExist' /\ LinksMatchUnlessRaced'
    BY <1>4, <2>3 DEF DestroyFuncionario, LinksExist, LinksMatchUnlessRaced,
                      PedidoDeCliente, FuncionarioDaCasa, Gravadas
  <2>5. ChangesCovered'
    BY <1>4, <2>3 DEF DestroyFuncionario, ChangesCovered, Altera, PedidosDe,
                      FuncionariosDe, Gravadas
  <2> QED
    BY <2>1, <2>4, <2>5, CrossingMantida, CheckMantida
<1>5. ASSUME NEW t \in Threads, NEW e \in Empresas, NEW tipo \in Tipos,
             ValidaUpdate(t, e, tipo)
      PROVE  VinculosInv'
  <2> USE DEF VinculosInv
  <2>1. /\ UNCHANGED <<empresa, pedido, funcionario, corridos>>
        /\ requisicao'[t] = [op |-> "validada", id |-> e, tipo |-> tipo]
        /\ \A u \in Threads : u # t => requisicao'[u] = requisicao[u]
        /\ \A u \in Threads :
             cruzou'[u] = IF Vincula(u) THEN cruzou[u] \cup {e} ELSE cruzou[u]
    BY <1>5 DEF ValidaUpdate, TypeOK
  <2>2. LinksMatchUnlessRaced' /\ LinksExist'
    BY <2>1, TabelasMantidas
  <2>3. ChangesCovered'
    BY <1>5, <2>1 DEF ValidaUpdate, TipoValido, ChangesCovered, Altera, PedidosDe,
                      FuncionariosDe, Gravadas
  <2>4. ASSUME NEW u \in Threads, Vincula(u)'
        PROVE  /\ Vincula(u) /\ requisicao'[u] = requisicao[u]
               /\ cruzou'[u] = cruzou[u] \cup {e}
    <3>1. u # t
      BY <2>1, <2>4 DEF Vincula
    <3>2. requisicao'[u] = requisicao[u] /\ Vincula(u)
      BY <2>1, <2>4, <3>1 DEF Vincula
    <3> QED
      BY <2>1, <3>2
  <2>5. CrossingKnown'
    BY <2>1, <2>4 DEF CrossingKnown, Altera
  <2>6. CheckStillHolds'
    BY <2>1, <2>4 DEF CheckStillHolds
  <2> QED
    BY <2>2, <2>3, <2>5, <2>6
<1>6. ASSUME NEW t \in Threads, LeCadastro(t) \/ LeAcesso(t)
      PROVE  VinculosInv'
  <2> USE DEF VinculosInv
  <2>1. PICK de \in OpsEmpresa, para \in OpsEmpresa : Avanca(t, de, para)
    BY <1>6 DEF LeCadastro, LeAcesso, OpsEmpresa
  <2>2. /\ UNCHANGED <<empresa, pedido, funcionario, cruzou, corridos>>
        /\ requisicao[t].op \in OpsEmpresa /\ requisicao'[t].op \in OpsEmpresa
        /\ requisicao'[t].id = requisicao[t].id
        /\ requisicao'[t].tipo = requisicao[t].tipo
        /\ \A u \in Threads : u # t => requisicao'[u] = requisicao[u]
    BY <2>1, AvancaResto DEF Avanca
  <2>3. LinksMatchUnlessRaced' /\ LinksExist'
    BY <2>2, TabelasMantidas
  <2>4. ChangesCovered'
    BY <2>2 DEF ChangesCovered, Altera, PedidosDe, FuncionariosDe, Gravadas
  <2>5. CrossingKnown'
    BY <2>2 DEF CrossingKnown, Altera, Vincula, OpsEmpresa
  <2>6. CheckStillHolds'
    BY <2>2 DEF CheckStillHolds, Vincula, OpsEmpresa
  <2> QED
    BY <2>3, <2>4, <2>5, <2>6
<1>7. ASSUME NEW t \in Threads, MergeEmpresa(t)
      PROVE  VinculosInv'
  <2> DEFINE r == requisicao[t]
             v == [linha |-> "gravada", tipo |-> r.tipo,
                   acesso |-> (r.op = "com_acesso")]
  <2>1. /\ r.op \in OpsEmpresa /\ r.id \in Empresas /\ r.tipo \in Tipos
        /\ UNCHANGED <<pedido, funcionario, corridos>>
    BY <1>7, RequisicaoTipo DEF MergeEmpresa, OpsEmpresa
  <2>2. v \in EmpresaLinhas
    BY <2>1 DEF EmpresaLinhas, Linha
  <2>3. Mantidas
    BY <1>7, TerminaResto DEF MergeEmpresa, Mantidas
  <2>4. PICK e \in LinhasDoMerge(empresa, r.id) : empresa' = [empresa EXCEPT ![e] = v]
    BY <1>7 DEF MergeEmpresa
  <2>5. CASE r.id \in Gravadas(empresa)
    <3>1. e = r.id /\ Altera(t, e)
      BY <2>1, <2>4, <2>5 DEF LinhasDoMerge, Altera
    <3> QED
      BY <2>1, <2>2, <2>3, <2>4, <2>5, <3>1, EmpresaAlterada
  <2>6. CASE r.id \notin Gravadas(empresa)
    BY <2>1, <2>2, <2>3, <2>4, <2>6, EmpresaNova DEF LinhasDoMerge
  <2> QED
    BY <2>5, <2>6
<1>8. ASSUME NEW t \in Threads, NEW id \in Pedidos \cup {Nulo},
             NEW e \in Empresas \cup {EmpresaPropria, Nulo},
             NEW f \in Funcionarios \cup {Nulo}, IniciaPedido(t, id, e, f)
      PROVE  VinculosInv'
  <2> DEFINE r == [op |-> "pedido", id |-> id, empresa |-> e, entregador |-> f]
  <2>1. r \in Requisicoes
    BY <1>8 DEF IniciaPedido, EmpresaDePedido, Requisicoes
  <2>2. e \in Empresas => e \in Gravadas(empresa) /\ empresa[e].tipo = "CLIENTE"
    BY <1>8, ConstantesOK DEF IniciaPedido, EmpresaDePedido
  <2> QED
    BY <1>8, <2>1, <2>2, VinculoInicia DEF IniciaPedido
<1>9. ASSUME NEW t \in Threads, GravaPedido(t)
      PROVE  VinculosInv'
  BY <1>9, PedidoGravado
<1>10. ASSUME NEW t \in Threads, NEW id \in Funcionarios \cup {Nulo},
              NEW funcoes \in PossiveisFuncoes, NEW funcao \in Funcoes,
              NEW e \in Empresas \cup {EmpresaPropria},
              IniciaFuncionario(t, id, funcoes, funcao, e)
       PROVE  VinculosInv'
  <2> DEFINE r == [op |-> "funcionario", id |-> id, funcao |-> funcao, empresa |-> e]
  <2>1. r \in Requisicoes
    BY DEF Requisicoes
  <2>2. e \in Empresas => e \in Gravadas(empresa) /\ empresa[e].tipo = "ENTREGA"
    BY <1>10, ConstantesOK DEF IniciaFuncionario, EmpresaDeFuncionario
  <2>3. funcao = "ENTREGADOR" <=> e # EmpresaPropria
    BY <1>10, ConstantesOK DEF IniciaFuncionario, PossiveisFuncoes, EmpresaDoForm
  <2> QED
    BY <1>10, <2>1, <2>2, <2>3, VinculoInicia DEF IniciaFuncionario
<1>11. ASSUME NEW t \in Threads, GravaFuncionario(t)
       PROVE  VinculosInv'
  BY <1>11, FuncionarioGravado
<1>12. ASSUME NEW t \in Threads, Falha(t)
       PROVE  VinculosInv'
  <2>1. Mantidas /\ EmpresasMantidas
    BY <1>12, TerminaResto DEF Falha, Mantidas, EmpresasMantidas
  <2> QED
    BY <1>12, <2>1, TabelasMantidas, CrossingMantida, ChangesMantida, CheckMantida
       DEF Falha, VinculosInv
<1>13. CASE UNCHANGED vars
  <2>1. Mantidas /\ EmpresasMantidas
    BY <1>13 DEF vars, Mantidas, EmpresasMantidas
  <2> QED
    BY <1>13, <2>1, TabelasMantidas, CrossingMantida, ChangesMantida, CheckMantida
       DEF vars, VinculosInv
<1> QED
  BY <1>1, <1>2, <1>3, <1>4, <1>5, <1>6, <1>7, <1>8, <1>9, <1>10, <1>11, <1>12,
     <1>13 DEF Next

\* Only a row stored by a request during which its company was under change may
\* contradict the type of the company: the checks of the three services are
\* enough for all the others, as a change finds the rows that are there and the
\* requests that are to come find the change.
THEOREM LinksMatchOrRaced == Spec => []LinksMatchUnlessRaced
<1>1. Init => VinculosInv
  BY DEF Init, VinculosInv, LinksMatchUnlessRaced, LinksExist, ChangesCovered,
         CrossingKnown, CheckStillHolds, Altera, Vincula, OpsEmpresa, Gravadas, Ociosa
<1>2. VinculosInv => LinksMatchUnlessRaced
  BY DEF VinculosInv
<1> QED
  BY <1>1, <1>2, VinculosNext, TypeCorrect, PTL DEF Spec

============================================================================
