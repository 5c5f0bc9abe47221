\* Three rows on pages of two, three requests.
CONSTANTS
  Linhas = {1, 2, 3}
  Tudo = Tudo
  Nome = Nome
  Acha <- AchaPrimeira
  MAX_RESULTS = 2
  Vazia = Vazia
  Nada = Nada
  NaN = NaN
  Nenhuma = Nenhuma
  MaxValor = 5
  MaxPedidos = 3
SPECIFICATION FairSpec
INVARIANTS PaginaComLinhas PaginaLivre IntervaloConfere RelatorioDaTabela
PROPERTY CargaTermina
CHECK_DEADLOCK FALSE
