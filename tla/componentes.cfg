\* The widgets, one at a time.
CONSTANTS
  Algarismos = {0, 1}
  Gravado = 10110
  MaxCentavos = 111111
  Desconhecido = Desconhecido
  Itens <- MCItens
  MenuDe <- MCMenuDe
  LetraDe <- MCLetraDe
  Raiz = "raiz"
  Nada = "nada"
  MaxTimers = 2
  NAbas = 3
  Remotas = {1, 2}
  Dialogos = {"m", "n", "o"}
  Modais = {"m", "n"}
  Fora = "fora"
  Corpo = "corpo"
  MaxZ = 3
  Elementos = {"p", "c", "n", "x"}
  Pai <- MCPai
  Ninguem = "nada"
  NPaineis = 3
  Minimo = 0
  Maximo = 9
  Passo = 4
  Pagina = 2
  Digitados = {3, Vazio}
  Vazio = Vazio
  MaxConta = 2
  NOpcoes = 4
  Inertes = {2}
  Campos = {"ida", "volta"}
  Dias <- MCDias
  Hoje = 4
  Limites <- MCLimites
  Digitadas <- MCDigitadas
  Nenhum = "nenhum"
  Formatos <- MCFormatos
  Datas <- MCDatas
  EsteAno = {1995, 2017, 2026}
  NomesMeses <- MCNomesMeses
  NomesDias <- MCNomesDias
SPECIFICATION Spec
INVARIANTS
  PrecoChega
  MenuCoerente
  UmaAba PedidoDaAtiva
  FocoPreso
  TituloVolta
  UmPainel
  GiroPara GiroAvisa
  RotuloSegue
  CalendarioDoCampo EscolhaCerta CampoEmDia
  VoltaIgual
