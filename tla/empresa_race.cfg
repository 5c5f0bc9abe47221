SPECIFICATION Spec
CONSTANTS
  Empresas = {e1, e2}
  Funcionarios = {f1}
  Pedidos = {p1}
  Threads = {t1, t2}
  SemAcesso = {e1}
  EmpresaPropria = propria
  Nulo = nulo
INVARIANT LinksMatch
CHECK_DEADLOCK FALSE
