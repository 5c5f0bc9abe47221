\* One user, one tab, answers that are lost or overtake each other.
CONSTANTS
  Sessoes = {u1}
  Abas = {a1}
  Sessao <- UmaSessao
  Produtos = {marmita, suco}
  Quantidades = {1, 2}
  MeioShort = 32768
  MaxPedidos = 2
  MaxRemovidos = 2
  MaxRespostas = 2
  Nulo = Nulo
SPECIFICATION Spec
INVARIANT TotalsAgree
PROPERTY KeepsPromise
SYMMETRY SimetriaProdutos
