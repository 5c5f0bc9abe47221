\* Two users, one tab each.
CONSTANTS
  Sessoes = {u1, u2}
  Abas = {u1, u2}
  Sessao <- UmaAbaPorSessao
  Produtos = {marmita, suco}
  Quantidades = {1}
  MeioShort = 32768
  MaxPedidos = 2
  MaxRemovidos = 1
  MaxRespostas = 1
  Nulo = Nulo
SPECIFICATION Spec
INVARIANT TypeOK
INVARIANT TotalsAgreeUnlessStale
INVARIANT ListBelongsToForm
PROPERTY OneOrderPerRequest
PROPERTY NoResurrection
SYMMETRY Simetria
