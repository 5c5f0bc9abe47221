------------------------------ MODULE Cadastro ------------------------------
(***************************************************************************)
(* The register of customers, as several logged-in employees use it: each  *)
(* customer has a user with the same e-mail, and names the user who stored *)
(* it.  The controller asks whether the e-mail is free and saves later, in *)
(* another transaction; between the two it writes the name of the logged-in*)
(* user to a field of the service, of which there is one for everybody.    *)
(*                                                                         *)
(* A user is known by the e-mail of the login, which another request may   *)
(* change or delete while the session lasts.  Left out: the other fields   *)
(* of the forms and their validation, and the customer's orders, whose     *)
(* foreign key is one more reason for a deletion to fail.                  *)
(***************************************************************************)
EXTENDS Integers, FiniteSets

CONSTANTS
  Funcionarios,   \* employees, each with one session
  EmailInicial,   \* [Funcionarios -> their e-mail at first]
  EmailsLivres,   \* the other e-mails
  Ninguem,        \* null
  MaxClientes     \* bound: customers ever stored

Emails == EmailsLivres \cup {EmailInicial[f] : f \in Funcionarios}

ASSUME ConstantesDoCadastro ==
  /\ MaxClientes \in Nat
  /\ Funcionarios \cap Nat = {} /\ Ninguem \notin Funcionarios \cup Emails \cup Nat
  /\ EmailInicial = [f \in Funcionarios |-> EmailInicial[f]]
  /\ \A f, g \in Funcionarios : EmailInicial[f] = EmailInicial[g] => f = g

VARIABLES
  usuarios,    \* table usuario: [id -> e-mail]
  clientes,    \* table cliente: [id -> e-mail, user, author]
  gravados,    \* the sequence of both tables
  username,    \* ClienteServiceImpl.username
  requisicao,  \* [Funcionarios -> the request of the session]
  nomeTrocado, \* history: the user name was set by another request, between
               \* a request's own setUsername and its transaction
  loginPerdido \* history: an employee's e-mail was changed or deleted

cadastroVars == <<usuarios, clientes, gravados, username, requisicao,
                  nomeTrocado, loginPerdido>>
historiaDoCadastro == <<nomeTrocado, loginPerdido>>

Parada == [pc |-> "parada", op |-> Ninguem, id |-> Ninguem, email |-> Ninguem,
           atual |-> TRUE]

UsuariosCom(e) == {u \in DOMAIN usuarios : usuarios[u] = e}
ClientesCom(e) == {c \in DOMAIN clientes : clientes[c].email = e}

----------------------------------------------------------------------------

Termina(f) == requisicao' = [requisicao EXCEPT ![f] = Parada]

Segue(f, pc) == requisicao' = [requisicao EXCEPT ![f].pc = pc]

Comeca(f, pc, op, id, email) ==
  /\ requisicao[f].pc = "parada"
  /\ requisicao' = [requisicao EXCEPT ![f] =
       [pc |-> pc, op |-> op, id |-> id, email |-> email, atual |-> TRUE]]
  /\ UNCHANGED <<usuarios, clientes, gravados, username, historiaDoCadastro>>

\* A customer's form is sent, for a new customer or one that was there when
\* the form was opened; an employee's form; a deletion.
store(f, email) == Comeca(f, "cliente", "store", Ninguem, email)
update(f, id, email) == Comeca(f, "cliente", "update", id, email)
destroy(f, id) == Comeca(f, "grava", "destroy", id, Ninguem)
updateFuncionario(f, id, email) == Comeca(f, "usuario", "funcionario", id, email)
destroyFuncionario(f, id) == Comeca(f, "grava", "demite", id, Ninguem)

DepoisDeVerificar(f) == IF requisicao[f].op = "store" THEN "nomeia" ELSE "grava"

\* ClienteService.isEmailUnique, first question: a customer with the e-mail.
VerificaCliente(f) ==
  LET r == requisicao[f]  donos == ClientesCom(r.email) IN
  /\ r.pc = "cliente"
  /\ \/ donos = {} /\ Segue(f, "usuario")
     \/ donos # {} /\ donos = {r.id} /\ Segue(f, DepoisDeVerificar(f))
     \/ donos # {} /\ donos # {r.id} /\ Termina(f)
  /\ UNCHANGED <<usuarios, clientes, gravados, username, historiaDoCadastro>>

\* Mutant: the e-mail of an employee is thought to be free.
VerificaUsuarioNunca(f) ==
  /\ requisicao[f].pc = "usuario"
  /\ Segue(f, DepoisDeVerificar(f))
  /\ UNCHANGED <<usuarios, clientes, gravados, username, historiaDoCadastro>>

\* Second question: a user with it.  The form of a customer does not know the
\* id of its user; that of an employee is the user's.
VerificaUsuario(f) ==
  LET r == requisicao[f]  donos == UsuariosCom(r.email) IN
  /\ r.pc = "usuario"
  /\ IF donos = {} \/ (r.op = "funcionario" /\ donos = {r.id})
     THEN Segue(f, DepoisDeVerificar(f)) ELSE Termina(f)
  /\ UNCHANGED <<usuarios, clientes, gravados, username, historiaDoCadastro>>

\* Mutant: the name is set for the first request only.
setUsernameUmaVez(f) ==
  /\ requisicao[f].pc = "nomeia"
  /\ username' = IF username = Ninguem THEN EmailInicial[f] ELSE username
  /\ Segue(f, "grava")
  /\ UNCHANGED <<usuarios, clientes, gravados, historiaDoCadastro>>

\* The e-mail the session logged in with.
setUsername(f) ==
  /\ requisicao[f].pc = "nomeia"
  /\ username' = EmailInicial[f]
  /\ nomeTrocado' = (nomeTrocado \/ \E g \in Funcionarios \ {f} :
                    requisicao[g].pc = "grava" /\ requisicao[g].op = "store")
  /\ Segue(f, "grava")
  /\ UNCHANGED <<usuarios, clientes, gravados, loginPerdido>>

----------------------------------------------------------------------------
(* Transactions.  What another request saves makes the answers of the two  *)
(* questions old.                                                          *)

Grava(f, op) == requisicao[f].pc = "grava" /\ requisicao[f].op = op

Conclui(f) ==
  requisicao' = [g \in Funcionarios |->
    IF g = f THEN Parada
    ELSE IF requisicao[g].pc = "parada" THEN Parada
    ELSE [requisicao[g] EXCEPT !.atual = FALSE]]

\* Any exception: the transaction is rolled back.
Desfaz(f) == Termina(f) /\ UNCHANGED <<usuarios, clientes, gravados, username, historiaDoCadastro>>

Insere(tabela, id, linha) == [k \in DOMAIN tabela \cup {id} |-> IF k = id THEN linha ELSE tabela[k]]
Remove(tabela, ids) == [k \in DOMAIN tabela \ ids |-> tabela[k]]

\* persist inserts the user, looks up the author, whose query sees that user,
\* and inserts the customer.
NovosUsuarios(f) == Insere(usuarios, gravados + 1, requisicao[f].email)
Autores(f) == {u \in DOMAIN NovosUsuarios(f) : NovosUsuarios(f)[u] = username}
PodePersistir(f) ==
  UsuariosCom(requisicao[f].email) \cup ClientesCom(requisicao[f].email) = {}

persist(f) ==
  /\ Grava(f, "store") /\ gravados < MaxClientes
  /\ IF PodePersistir(f) /\ Autores(f) # {}
     THEN /\ usuarios' = NovosUsuarios(f)
          /\ \E autor \in Autores(f) :
               clientes' = Insere(clientes, gravados + 1,
                 [email |-> requisicao[f].email, acesso |-> gravados + 1,
                  autor |-> autor, pedinte |-> f])
          /\ gravados' = gravados + 1
          /\ Conclui(f)
          /\ UNCHANGED <<username, historiaDoCadastro>>
     ELSE Desfaz(f)

PodeAlterar(f) ==
  LET r == requisicao[f] IN
  /\ r.id \in DOMAIN clientes
  /\ UsuariosCom(r.email) \subseteq {clientes[r.id].acesso}
  /\ ClientesCom(r.email) \subseteq {r.id}

\* Mutant: the user keeps the old e-mail.
alteraSemUsuario(f) ==
  LET r == requisicao[f] IN
  /\ Grava(f, "update")
  /\ IF PodeAlterar(f)
     THEN /\ clientes' = [clientes EXCEPT ![r.id].email = r.email]
          /\ Conclui(f)
          /\ UNCHANGED <<usuarios, gravados, username, historiaDoCadastro>>
     ELSE Desfaz(f)

\* update: the user's e-mail is that of the customer.
altera(f) ==
  LET r == requisicao[f] IN
  /\ Grava(f, "update")
  /\ IF PodeAlterar(f)
     THEN /\ usuarios' = [usuarios EXCEPT ![clientes[r.id].acesso] = r.email]
          /\ clientes' = [clientes EXCEPT ![r.id].email = r.email]
          /\ Conclui(f)
          /\ UNCHANGED <<gravados, username, historiaDoCadastro>>
     ELSE Desfaz(f)

\* delete: the customer and then its user.
delete(f) ==
  LET r == requisicao[f] IN
  /\ Grava(f, "destroy")
  /\ IF r.id \in DOMAIN clientes /\ \A c \in DOMAIN clientes : clientes[c].autor # clientes[r.id].acesso
     THEN /\ clientes' = Remove(clientes, {r.id})
          /\ usuarios' = Remove(usuarios, {clientes[r.id].acesso})
          /\ Conclui(f)
          /\ UNCHANGED <<gravados, username, historiaDoCadastro>>
     ELSE Desfaz(f)

PodeAlterarFuncionario(f) ==
  LET r == requisicao[f] IN
  r.id \in DOMAIN usuarios /\ UsuariosCom(r.email) \subseteq {r.id}

alteraFuncionario(f) ==
  LET r == requisicao[f] IN
  /\ Grava(f, "funcionario")
  /\ IF PodeAlterarFuncionario(f)
     THEN /\ usuarios' = [usuarios EXCEPT ![r.id] = r.email]
          /\ loginPerdido' = (loginPerdido \/ r.email # EmailInicial[r.id])
          /\ Conclui(f)
          /\ UNCHANGED <<clientes, gravados, username, nomeTrocado>>
     ELSE Desfaz(f)

\* An employee who is the author of a customer cannot be deleted.
demite(f) ==
  LET r == requisicao[f] IN
  /\ Grava(f, "demite")
  /\ IF r.id \in DOMAIN usuarios /\ \A c \in DOMAIN clientes : clientes[c].autor # r.id
     THEN /\ usuarios' = Remove(usuarios, {r.id})
          /\ loginPerdido' = TRUE
          /\ Conclui(f)
          /\ UNCHANGED <<clientes, gravados, username, nomeTrocado>>
     ELSE Desfaz(f)

----------------------------------------------------------------------------

CadastroInit ==
  /\ usuarios = EmailInicial
  /\ clientes = [c \in {} |-> Ninguem]
  /\ gravados = 0
  /\ username = Ninguem
  /\ requisicao = [f \in Funcionarios |-> Parada]
  /\ nomeTrocado = FALSE /\ loginPerdido = FALSE

CadastroNext ==
  \E f \in Funcionarios :
    \/ \E e \in Emails :
         \/ store(f, e)
         \/ \E c \in DOMAIN clientes : update(f, c, e)
         \/ \E g \in Funcionarios : updateFuncionario(f, g, e)
    \/ \E c \in DOMAIN clientes : destroy(f, c)
    \/ \E g \in Funcionarios : destroyFuncionario(f, g)
    \/ VerificaCliente(f) \/ VerificaUsuario(f) \/ setUsername(f)
    \/ persist(f) \/ altera(f) \/ delete(f) \/ alteraFuncionario(f) \/ demite(f)

----------------------------------------------------------------------------
(* Properties *)

\* Customers and users go together whatever crosses: each customer has a user
\* of its own with its e-mail, and every user but the employees has a customer.
ClienteTemAcesso ==
  /\ \A c \in DOMAIN clientes :
       clientes[c].acesso \in DOMAIN usuarios /\ usuarios[clientes[c].acesso] = clientes[c].email
  /\ DOMAIN usuarios \subseteq Funcionarios \cup {clientes[c].acesso : c \in DOMAIN clientes}
  /\ \A c, d \in DOMAIN clientes : clientes[c].email = clientes[d].email => c = d

\* The questions of the controller are enough: unless another request has been
\* saved since, the database does not refuse what they have allowed.
VerificacaoBasta ==
  \A f \in Funcionarios :
    requisicao[f].pc = "grava" /\ requisicao[f].atual =>
      /\ requisicao[f].op = "store" => PodePersistir(f)
      /\ requisicao[f].op = "update" => PodeAlterar(f)
      /\ requisicao[f].op = "funcionario" =>
           UsuariosCom(requisicao[f].email) \subseteq {requisicao[f].id}

\* A customer's author is the employee who stored it.
AutorEQuemCadastra == \A c \in DOMAIN clientes : clientes[c].autor = clientes[c].pedinte

\* It is, unless two requests met between the name and the transaction, or an
\* employee has lost the e-mail of the login.
AutorSemCruzar == ~nomeTrocado /\ ~loginPerdido => AutorEQuemCadastra

=============================================================================
