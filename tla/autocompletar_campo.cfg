\* Two people and a company, three questions in flight, one of which may fail.
CONSTANTS
  Pessoas = {ana, bia}
  Empresas = {acme}
  Tipos <- DoisTipos
  Sugestoes <- PessoasEEmpresas
  Termos = {a}
  Vazio = Vazio
  Nada = Nada
  RatoParado = FALSE
  MaxItens = 2
  MaxPedidos = 4
  MaxFalhas = 1
SPECIFICATION Spec
INVARIANT IdDoTipo
PROPERTY KeepsPromise
