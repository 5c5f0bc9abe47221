\* Two employees and one free e-mail, two customers; two pages of orders at
\* once; two tabs, five pages, a stack of three.
CONSTANTS
  f1 = f1
  f2 = f2
  e1 = e1
  e2 = e2
  Funcionarios = {f1, f2}
  EmailInicial <- EmailDe
  EmailsLivres = {e3}
  Ninguem = Ninguem
  MaxClientes = 2
  Threads = {t1, t2}
  Pedidos <- UmDeCada
  Indefinido = Indefinido
  Abas = {a1, a2}
  Paginas = {"/cliente", "/cliente/create", "/cliente/1", "/cliente/1/edit", "/pedido/1"}
  Listas = {"/cliente"}
  Formularios = {"/cliente/create", "/cliente/1/edit"}
  Registros = {"/cliente/1", "/pedido/1"}
  Links <- LinksDasPaginas
  Lista <- ListaDasPaginas
  Erro = Erro
  MaxPilha = 3
SPECIFICATION Spec
INVARIANTS ClienteTemAcesso VerificacaoBasta AutorSemCruzar PaginaCompleta VoltaPeloCaminho
CHECK_DEADLOCK FALSE
