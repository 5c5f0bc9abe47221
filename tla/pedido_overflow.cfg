\* Quantities whose sum does not fit a short.
CONSTANTS
  Sessoes = {u1}
  Abas = {a1}
  Sessao <- UmaSessao
  Produtos = {marmita, suco, doce}
  Quantidades = {1, 30000}
  MeioShort = 32768
  MaxPedidos = 1
  MaxRemovidos = 1
  MaxRespostas = 1
  Nulo = Nulo
SPECIFICATION Spec
INVARIANT TotalsAreSums
