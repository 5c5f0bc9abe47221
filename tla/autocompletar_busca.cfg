\* Two texts to type; the list may open under a mouse at rest.
CONSTANTS
  Pessoas = {ana, bia}
  Empresas = {acme}
  Tipos <- DoisTipos
  Sugestoes <- PessoasEEmpresas
  Termos = {a, b}
  Vazio = Vazio
  Nada = Nada
  RatoParado = TRUE
  MaxItens = 2
  MaxPedidos = 3
  MaxFalhas = 1
SPECIFICATION FairSpec
INVARIANTS TypeOK MenuSoComFoco PendenteConta
PROPERTY TextoProcurado
