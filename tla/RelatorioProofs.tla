--------------------------- MODULE RelatorioProofs ---------------------------
(***************************************************************************)
(* Theorems of Relatorio, for any rows, searches, pages and bounds.        *)
(***************************************************************************)
EXTENDS Relatorio, FiniteSetTheorems, WellFoundedInduction, TLAPS

----------------------------------------------------------------------------
(* The invariant of the list *)

Offsets == {MAX_RESULTS * p : p \in Nat}
Ordens == {"sorting_asc", "sorting_desc"}

TipoDaConsulta ==
  [indice : Nat, offset : Offsets, ordem : Ordens, query : Buscas,
   resposta : {Nada, Vazia} \cup Tabelas]

TipoDaExclusao == [indice : Nat, id : Linhas, resposta : {Nada, "excluida", "erro"}]

\* A table that was rendered has rows to count, and shows some of them.
TabelaOK(t) ==
  t # Vazia => /\ t \in Tabelas /\ t.offset \in Offsets /\ t.count > 0
               /\ t.linhas \subseteq Acha[t.query]

TipoLista ==
  /\ banco \subseteq Linhas
  /\ TabelaOK(tabela)
  /\ \A c \in consultas :
       /\ c \in TipoDaConsulta
       /\ c.resposta # Nada => TabelaOK(c.resposta)
  /\ exclusoes \subseteq TipoDaExclusao
  /\ enviadas \in Nat
  /\ excluir \in Linhas \cup {Nada}
  /\ {cruzada, perdida, quebrada} \subseteq BOOLEAN

\* Backdrops: one for a modal that is seen, unless it was shown while it was
\* disappearing; and it is shown during a request only.
FundosInv ==
  /\ isShown \in BOOLEAN /\ sumindo \in BOOLEAN /\ reaberta \in BOOLEAN
  /\ fundos \in Nat
  /\ isShown \/ sumindo => fundos > 0
  /\ ~reaberta => ~(isShown /\ sumindo) /\ fundos = (IF isShown \/ sumindo THEN 1 ELSE 0)
  /\ isShown /\ ~quebrada => EmVoo

UmPedido ==
  /\ \A c, e \in consultas : c = e
  /\ \A d, e \in exclusoes : d = e
  /\ consultas = {} \/ exclusoes = {}

\* What the row that is asked about and the one being deleted have to do with
\* the table, and with the one that may come.
LinhaDaTabela ==
  /\ tabela # Vazia => /\ excluir # Nada => excluir \in Acha[tabela.query]
                       /\ \A d \in exclusoes : d.id \in Acha[tabela.query]
  /\ \A c \in consultas :
       /\ isShown \/ c.query = BuscaAtual
       /\ excluir # Nada => excluir \in Acha[c.query]

\* The question in flight is one the database has rows for, as far as it has
\* any; its answer is what the database has.
PerguntaCabe ==
  \A c \in consultas :
    LET achadas == banco \cap Acha[c.query] IN
    /\ c.resposta = Nada => achadas = {} \/ c.offset < Cardinality(achadas)
    /\ c.resposta \notin {Nada, Vazia} =>
         /\ c.resposta.query = c.query
         /\ c.resposta.count = Cardinality(achadas)
         /\ c.resposta.offset < c.resposta.count
         /\ c.resposta.linhas # {}

Excluindo == \E d \in exclusoes : d.resposta = "excluida"

\* Between requests the table is that of the database, but for a row that was
\* deleted and that it still shows.
TabelaEmDia ==
  consultas = {} /\ tabela # Vazia =>
    LET achadas == banco \cap Acha[tabela.query] IN
    /\ tabela.offset < tabela.count
    /\ tabela.count = Cardinality(achadas) + (IF Excluindo THEN 1 ELSE 0)

TemLinhas == tabela # Vazia => tabela.linhas # {}

EmOrdem == UmPedido /\ LinhaDaTabela /\ PerguntaCabe /\ TabelaEmDia /\ TemLinhas

SemCruzarInv == ~cruzada /\ ~perdida => EmOrdem

----------------------------------------------------------------------------
(* The invariant of the slider *)

Numeros == Int \cup {NaN}

\* A number the slider may be at: without limit, none is too great.
Cabe(v) == IF max = NaN THEN v \in Numeros /\ (v \in Int => min <= v) ELSE v \in min..max

\* The values are as they are read, between the limits and in their order, and
\* the form shows them.
ValoresInv ==
  /\ min \in {0, 1} /\ max \in Numeros
  /\ min = 0 => max = 100
  /\ values \in [Alcas -> Numeros]
  /\ \A i \in Alcas : Cabe(values[i])
  /\ max # NaN => values[0] <= values[1]
  /\ formulario \in [intervalo : [Alcas -> Numeros], pagina : Opcoes]
  /\ formulario.intervalo = values

\* What is dragged is a handle.
SliderInv == ValoresInv /\ (arrastando => handleIndex \in Alcas)

ModalInv ==
  /\ aberto \in BOOLEAN /\ recarregada \in BOOLEAN
  /\ aberto => min = 1
  /\ aberto /\ ~recarregada => max = TotalDePaginas

----------------------------------------------------------------------------
(* Arithmetic of pages *)

LEMMA Divide ==
  ASSUME NEW n \in Nat, NEW m \in Nat \ {0}
  PROVE  /\ n \div m \in Nat /\ (n % m) \in 0..(m - 1)
         /\ n = m * (n \div m) + (n % m)
  OBVIOUS

LEMMA PageSize == MAX_RESULTS \in Nat \ {0, 1}
  BY ConstantesDaLista

LEMMA DivideUniquely ==
  \A m \in Nat \ {0} : \A p, q \in Nat : \A r, s \in 0..(m - 1) :
    m * p + r = m * q + s => r = s
  OBVIOUS

\* A last page of one row is seen by the remainder.
LEMMA OneRowRemains ==
  ASSUME NEW p \in Nat
  PROVE  (MAX_RESULTS * p + 1) % MAX_RESULTS = 1
PROOF
  <1> DEFINE n == MAX_RESULTS * p + 1
  <1> USE PageSize
  <1>1. n \in Nat
    OBVIOUS
  <1>2. PICK q \in Nat, r \in 0..(MAX_RESULTS - 1) :
          r = n % MAX_RESULTS /\ n = MAX_RESULTS * q + r
    BY <1>1, Divide
  <1>3. MAX_RESULTS * p + 1 = MAX_RESULTS * q + r /\ 1 \in 0..(MAX_RESULTS - 1)
    BY <1>2
  <1>4. r = 1
    <2> HIDE DEF n
    <2>1. MAX_RESULTS \in Nat \ {0}
      OBVIOUS
    <2> QED
      BY <1>3, <2>1, DivideUniquely, Zenon
  <1> QED
    BY <1>2, <1>4

LEMMA Multiples ==
  ASSUME NEW a \in Int, NEW b \in Int, NEW m \in Nat \ {0}
  PROVE  /\ m * a < m * b <=> a < b
         /\ m * (a - 1) = m * a - m /\ m * (a + 1) = m * a + m
  OBVIOUS

\* The pages of `count` rows hold them all, and all but the last are full.
LEMMA PagesOfRows ==
  ASSUME NEW count \in Nat
  PROVE  /\ getTotalPages(count) \in Nat
         /\ count <= MAX_RESULTS * getTotalPages(count)
         /\ count > 0 => /\ getTotalPages(count) > 0
                         /\ MAX_RESULTS * (getTotalPages(count) - 1) < count
PROOF
  <1> USE PageSize
  <1>1. PICK q \in Nat, r \in 0..(MAX_RESULTS - 1) :
          /\ q = count \div MAX_RESULTS /\ r = count % MAX_RESULTS
          /\ count = MAX_RESULTS * q + r
    BY Divide
  <1>2. getTotalPages(count) = q + (IF r > 0 THEN 1 ELSE 0)
    BY <1>1 DEF getTotalPages
  <1>3. /\ MAX_RESULTS * (q + 1) = MAX_RESULTS * q + MAX_RESULTS
        /\ MAX_RESULTS * (q - 1) = MAX_RESULTS * q - MAX_RESULTS
        /\ MAX_RESULTS * q \in Nat
        /\ q = 0 => MAX_RESULTS * q = 0
    OBVIOUS
  <1>4. CASE r > 0
    <2>1. getTotalPages(count) = q + 1 /\ getTotalPages(count) - 1 = q
      BY <1>2, <1>4
    <2> QED
      BY <1>1, <1>3, <1>4, <2>1
  <1>5. CASE r = 0
    <2>1. getTotalPages(count) = q
      BY <1>2, <1>5
    <2> QED
      BY <1>1, <1>3, <1>5, <2>1
  <1> QED
    BY <1>4, <1>5

----------------------------------------------------------------------------
(* Rows of a page *)

LEMMA RowsAreOrdered ==
  ASSUME NEW ordem \in Ordens, NEW i \in Nat, NEW j \in Nat
  PROVE  /\ ~Antes(ordem, i, i)
         /\ i = j \/ Antes(ordem, i, j) \/ Antes(ordem, j, i)
         /\ Antes(ordem, i, j) => ~Antes(ordem, j, i)
         /\ \A k \in Nat : Antes(ordem, i, j) /\ Antes(ordem, j, k) => Antes(ordem, i, k)
  BY DEF Antes, Ordens

\* The last row in an order.
LEMMA LastRow ==
  ASSUME NEW S, IsFiniteSet(S), S \subseteq Nat, S # {}, NEW ordem \in Ordens
  PROVE  \E x \in S : \A y \in S : y # x => Antes(ordem, y, x)
PROOF
  <1> DEFINE Depois(x) == {y \in S : Antes(ordem, x, y)}
             D == {Depois(x) : x \in S}
  <1>1. D \subseteq FiniteSubsetsOf(S) /\ D # {}
    <2>1. ASSUME NEW x \in S
          PROVE  Depois(x) \in SUBSET S /\ IsFiniteSet(Depois(x))
      BY FS_Subset
    <2> QED
      BY <2>1 DEF FiniteSubsetsOf
  <1>2. PICK m \in D : \A d \in D : ~(<<d, m>> \in StrictSubsetOrdering(S))
    <2> HIDE DEF D
    <2> QED
      BY <1>1, FS_StrictSubsetOrderingWellFounded, WFMin
  <1>3. PICK x \in S : m = Depois(x)
    BY <1>2
  <1>4. ASSUME NEW y \in S, Antes(ordem, x, y)
        PROVE  FALSE
    <2>1. Depois(y) \subseteq Depois(x) /\ y \in Depois(x) /\ y \notin Depois(y)
      BY <1>4, RowsAreOrdered
    <2>2. <<Depois(y), m>> \in StrictSubsetOrdering(S)
      BY <1>3, <2>1 DEF StrictSubsetOrdering
    <2>3. Depois(y) \in D
      OBVIOUS
    <2> QED
      BY <1>2, <2>2, <2>3
  <1>5. \A y \in S : y # x => Antes(ordem, y, x)
    BY <1>4, RowsAreOrdered
  <1> QED
    BY <1>5

\* A page that begins before the end of the rows has a row.
LEMMA PageHasRows ==
  ASSUME NEW S, IsFiniteSet(S), S \subseteq Nat, NEW ordem \in Ordens,
         NEW o \in Nat, o < Cardinality(S)
  PROVE  PaginaDe(S, ordem, o) # {}
PROOF
  <1> DEFINE Anteriores(i) == {j \in S : Antes(ordem, j, i)}
             T == {i \in S : o <= Cardinality(Anteriores(i))}
  <1>1. \A i \in S : IsFiniteSet(Anteriores(i)) /\ Cardinality(Anteriores(i)) \in Nat
    BY FS_Subset, FS_CardinalityType
  <1>2. T # {}
    <2>1. S # {}
      BY FS_EmptySet
    <2>2. PICK g \in S : \A y \in S : y # g => Antes(ordem, y, g)
      BY <2>1, LastRow
    <2>3. Anteriores(g) = S \ {g}
      BY <2>2, RowsAreOrdered
    <2>4. Cardinality(S \ {g}) = Cardinality(S) - 1
      BY FS_RemoveElement
    <2>5. o <= Cardinality(Anteriores(g))
      <3>1. Cardinality(S) \in Nat
        BY FS_CardinalityType
      <3> QED
        BY <2>3, <2>4, <3>1
    <2> QED
      BY <2>5
  <1>3. PICK t \in T : \A u \in T : u # t => Antes(ordem, t, u)
    <2>1. PICK outra \in Ordens : \A i, j \in Nat : Antes(outra, i, j) <=> Antes(ordem, j, i)
      <3>1. "sorting_asc" \in Ordens /\ "sorting_desc" \in Ordens
        BY DEF Ordens
      <3>2. CASE ordem = "sorting_asc"
        BY <3>1, <3>2 DEF Antes
      <3>3. CASE ordem = "sorting_desc"
        BY <3>1, <3>3 DEF Antes
      <3> QED
        BY <3>2, <3>3 DEF Ordens
    <2>2. IsFiniteSet(T) /\ T \subseteq Nat
      BY FS_Subset
    <2>3. PICK t \in T : \A u \in T : u # t => Antes(outra, u, t)
      <3> HIDE DEF T
      <3> QED
        BY <1>2, <2>2, LastRow
    <2> QED
      BY <2>1, <2>2, <2>3
  <1>4. ASSUME Cardinality(Anteriores(t)) > o
        PROVE  FALSE
    <2>1. t \in S /\ Anteriores(t) \subseteq Nat
      OBVIOUS
    <2>2. Anteriores(t) # {}
      BY <1>4, FS_EmptySet
    <2>3. PICK p \in Anteriores(t) : \A y \in Anteriores(t) : y # p => Antes(ordem, y, p)
      <3> HIDE DEF Anteriores
      <3> QED
        BY <1>1, <2>1, <2>2, LastRow
    <2>4. Anteriores(p) = Anteriores(t) \ {p}
      BY <2>1, <2>3, RowsAreOrdered
    <2>5. Cardinality(Anteriores(t) \ {p}) = Cardinality(Anteriores(t)) - 1
      BY <1>1, <2>1, <2>3, FS_RemoveElement
    <2>6. p \in T
      BY <1>1, <1>4, <2>1, <2>4, <2>5
    <2> QED
      BY <1>3, <2>3, <2>6, RowsAreOrdered
  <1>5. Cardinality(Anteriores(t)) = o
    BY <1>1, <1>4
  <1>6. t \in PaginaDe(S, ordem, o)
    BY <1>5, PageSize DEF PaginaDe
  <1> QED
    BY <1>6

----------------------------------------------------------------------------
(* Types of the list *)

ListaNext == Ajax \/ Usuario

LEMMA NadaIsNothingElse ==
  /\ Nada \notin Nat /\ Nada \notin Tabelas /\ Nada # Vazia
  /\ Nada # "excluida" /\ Nada # "erro" /\ Vazia \notin Tabelas
  BY ConstantesDaLista

LEMMA RowsOfSearches ==
  /\ Linhas \subseteq Nat /\ IsFiniteSet(Linhas)
  /\ Tudo \in Buscas /\ \A q \in Buscas : Acha[q] \subseteq Linhas
  BY ConstantesDaLista

\* The rows a search finds can be counted.
LEMMA RowsAreCounted ==
  ASSUME banco \subseteq Linhas, NEW q
  PROVE  LET achadas == banco \cap Acha[q] IN
         /\ achadas \subseteq Nat /\ achadas \subseteq Linhas
         /\ IsFiniteSet(achadas) /\ Cardinality(achadas) \in Nat
         /\ achadas # {} => Cardinality(achadas) > 0
PROOF
  <1> DEFINE achadas == banco \cap Acha[q]
  <1>1. achadas \subseteq Nat /\ achadas \in SUBSET Linhas
    BY RowsOfSearches
  <1>2. IsFiniteSet(achadas)
    BY <1>1, RowsOfSearches, FS_Subset
  <1>3. Cardinality(achadas) \in Nat /\ (achadas # {} => Cardinality(achadas) # 0)
    BY <1>2, FS_CardinalityType, FS_EmptySet
  <1> QED
    BY <1>1, <1>2, <1>3

\* What the server answers is a table, or that there is none.
LEMMA TableServed ==
  ASSUME banco \subseteq Linhas, NEW c, c.offset \in Offsets, c.ordem \in Ordens,
         c.query \in Buscas
  PROVE  list(c) \in {Vazia} \cup Tabelas /\ TabelaOK(list(c))
PROOF
  <1> DEFINE achadas == banco \cap Acha[c.query]
             linhas == PaginaDe(achadas, c.ordem, c.offset)
  <1>1. achadas \subseteq Linhas /\ achadas \subseteq Acha[c.query]
        /\ Cardinality(achadas) \in Nat /\ (achadas # {} => Cardinality(achadas) > 0)
    BY RowsAreCounted
  <1>2. linhas \subseteq achadas
    BY DEF PaginaDe
  <1>3. c.offset \in Nat
    BY PageSize DEF Offsets
  <1>4. CASE achadas = {}
    BY <1>4 DEF list, TabelaOK
  <1>5. CASE achadas # {}
    <2> DEFINE t == [offset |-> c.offset, ordem |-> c.ordem, query |-> c.query,
                     count |-> Cardinality(achadas), linhas |-> linhas]
    <2> HIDE DEF linhas, achadas
    <2>1. t \in Tabelas
      BY <1>1, <1>2, <1>3 DEF Tabelas, Ordens
    <2>2. TabelaOK(t)
      BY <1>1, <1>2, <1>5, <2>1 DEF TabelaOK
    <2>3. list(c) = t
      BY <1>5 DEF list, achadas, linhas
    <2> QED
      BY <2>1, <2>2, <2>3
  <1> QED
    BY <1>4, <1>5

\* A question asked by the page.
LEMMA QuestionAsked ==
  ASSUME NEW n \in Nat, NEW offset \in Offsets, NEW ordem \in Ordens, NEW query \in Buscas
  PROVE  Consulta(n, offset, ordem, query) \in TipoDaConsulta
         /\ Consulta(n, offset, ordem, query).resposta = Nada
  BY DEF Consulta, TipoDaConsulta

LEMMA WhatIsOnThePage ==
  ASSUME TabelaOK(tabela), NEW removida \in BOOLEAN
  PROVE  OffsetAtual(removida) \in Offsets /\ OrdemAtual \in Ordens /\ BuscaAtual \in Buscas
PROOF
  <1> USE PageSize
  <1>1. OrdemAtual \in Ordens /\ BuscaAtual \in Buscas
    BY RowsOfSearches DEF OrdemAtual, BuscaAtual, TabelaOK, Tabelas, Ordens
  <1>2. 0 \in Offsets
    <2>1. 0 = MAX_RESULTS * 0
      OBVIOUS
    <2> QED
      BY <2>1 DEF Offsets
  <1>3. ASSUME tabela # Vazia, tabela.offset > 0
        PROVE  tabela.offset - MAX_RESULTS \in Offsets
    <2>1. PICK p \in Nat : tabela.offset = MAX_RESULTS * p
      BY <1>3 DEF TabelaOK, Offsets
    <2>2. p - 1 \in Nat /\ tabela.offset - MAX_RESULTS = MAX_RESULTS * (p - 1)
      <3>1. p # 0
        BY <1>3, <2>1
      <3> QED
        BY <2>1, <3>1, Multiples
    <2> QED
      BY <2>2 DEF Offsets
  <1>4. OffsetAtual(removida) \in Offsets
    BY <1>2, <1>3 DEF OffsetAtual, TabelaOK
  <1> QED
    BY <1>1, <1>4

\* A step of the list, by its actions.
LEMMA ListaSteps ==
  ASSUME ListaNext
  PROVE  \/ \E q \in Buscas : Procura(q)
         \/ \E p \in Nat : Pagina(MAX_RESULTS * p)
         \/ Ordena
         \/ \E i \in Linhas : AbreExclusao(i)
         \/ Cancela \/ Confirma
         \/ \E c \in consultas : Responde(c) \/ Mostra(c) \/ SemTabela(c)
         \/ \E d \in exclusoes : Destroi(d) \/ Excluida(d) \/ NaoExcluida(d) \/ SemJSON(d)
         \/ hideModal
PROOF
  <1>1. 0..Cardinality(Linhas) \subseteq Nat
    OBVIOUS
  <1> QED
    BY <1>1 DEF ListaNext, Ajax, Atende, Usuario

LEMMA TipoListaInit ==
  ASSUME ListaInit
  PROVE  TipoLista
PROOF
  <1> DEFINE c == [offset |-> 0, ordem |-> "sorting_desc", query |-> Tudo]
  <1>1. 0 \in Offsets /\ "sorting_desc" \in Ordens
    <2>1. 0 = MAX_RESULTS * 0
      BY PageSize
    <2> QED
      BY <2>1 DEF Offsets, Ordens
  <1>2. banco \subseteq Linhas
    BY DEF ListaInit
  <1>3. TabelaOK(list(c))
    BY <1>1, <1>2, RowsOfSearches, TableServed
  <1> QED
    BY <1>2, <1>3 DEF ListaInit, TipoLista

LEMMA LoadTableKeepsTypes ==
  ASSUME TipoLista, NEW offset \in Offsets, NEW ordem \in Ordens, NEW query \in Buscas,
         loadTable(offset, ordem, query)
  PROVE  TipoLista'
PROOF
  <1> DEFINE nova == Consulta(enviadas + 1, offset, ordem, query)
  <1>1. enviadas + 1 \in Nat
    BY DEF TipoLista
  <1>2. nova \in TipoDaConsulta /\ nova.resposta = Nada
    BY <1>1, QuestionAsked
  <1>3. consultas' = consultas \cup {nova} /\ enviadas' = enviadas + 1
        /\ UNCHANGED <<banco, tabela, exclusoes, excluir, perdida, quebrada>>
    BY DEF loadTable, Envia
  <1>4. cruzada' \in BOOLEAN
    BY DEF loadTable, Cruza, EmVoo, TipoLista
  <1> HIDE DEF nova
  <1> QED
    BY <1>1, <1>2, <1>3, <1>4 DEF TipoLista, TabelaOK

LEMMA TipoListaStep ==
  ASSUME TipoLista, ListaNext
  PROVE  TipoLista'
PROOF
  <1>0. TabelaOK(tabela) /\ banco \subseteq Linhas /\ enviadas \in Nat
        /\ excluir \in Linhas \cup {Nada} /\ exclusoes \subseteq TipoDaExclusao
        /\ {cruzada, perdida, quebrada} \subseteq BOOLEAN
    BY DEF TipoLista
  <1>1. ASSUME NEW q \in Buscas, Procura(q)
        PROVE  TipoLista'
    <2>1. 0 \in Offsets
      <3>1. 0 = MAX_RESULTS * 0
        BY PageSize
      <3> QED
        BY <3>1 DEF Offsets
    <2> QED
      BY <1>0, <1>1, <2>1, WhatIsOnThePage, LoadTableKeepsTypes DEF Procura
  <1>2. ASSUME NEW p \in Nat, Pagina(MAX_RESULTS * p)
        PROVE  TipoLista'
    <2>1. MAX_RESULTS * p \in Offsets
      BY DEF Offsets
    <2> QED
      BY <1>0, <1>2, <2>1, WhatIsOnThePage, LoadTableKeepsTypes DEF Pagina
  <1>3. ASSUME Ordena
        PROVE  TipoLista'
    <2>1. "sorting_asc" \in Ordens /\ "sorting_desc" \in Ordens /\ FALSE \in BOOLEAN
      BY DEF Ordens
    <2>2. PICK ordem \in Ordens : loadTable(OffsetAtual(FALSE), ordem, BuscaAtual)
      BY <1>3, <2>1 DEF Ordena
    <2> QED
      BY <1>0, <2>1, <2>2, WhatIsOnThePage, LoadTableKeepsTypes
  <1>4. ASSUME NEW i \in Linhas, AbreExclusao(i)
        PROVE  TipoLista'
    BY <1>4 DEF AbreExclusao, TipoLista, TabelaOK, pedidosVars, cargaVars, historia
  <1>5. ASSUME Cancela
        PROVE  TipoLista'
    BY <1>5 DEF Cancela, TipoLista, TabelaOK, pedidosVars, cargaVars, historia
  <1>6. ASSUME Confirma
        PROVE  TipoLista'
    <2>1. [indice |-> enviadas + 1, id |-> excluir, resposta |-> Nada] \in TipoDaExclusao
      BY <1>0, <1>6 DEF Confirma, TipoDaExclusao
    <2> QED
      BY <1>0, <1>6, <2>1 DEF Confirma, Envia, Cruza, EmVoo, TipoLista, TabelaOK
  <1>7. ASSUME NEW c \in consultas, Responde(c)
        PROVE  TipoLista'
    <2>1. c \in TipoDaConsulta
      BY DEF TipoLista
    <2>2. list(c) \in {Vazia} \cup Tabelas /\ TabelaOK(list(c))
      BY <1>0, <2>1, TableServed DEF TipoDaConsulta
    <2>3. [c EXCEPT !.resposta = list(c)] \in TipoDaConsulta
          /\ [c EXCEPT !.resposta = list(c)].resposta = list(c)
      BY <2>1, <2>2 DEF TipoDaConsulta
    <2> QED
      BY <1>7, <2>2, <2>3 DEF Responde, TipoLista, TabelaOK, cargaVars, historia
  <1>8. ASSUME NEW c \in consultas, Mostra(c)
        PROVE  TipoLista'
    <2>1. TabelaOK(c.resposta)
      BY <1>8 DEF Mostra, TipoLista
    <2>2. TabelaOK(tabela)'
      BY <1>8, <2>1 DEF Mostra, TabelaOK
    <2> QED
      BY <1>8, <2>2 DEF Mostra, TipoLista, TabelaOK, historia
  <1>9. ASSUME NEW c \in consultas, SemTabela(c)
        PROVE  TipoLista'
    BY <1>9 DEF SemTabela, TipoLista, TabelaOK
  <1>10. ASSUME NEW d \in exclusoes, Destroi(d)
         PROVE  TipoLista'
    <2>1. /\ [d EXCEPT !.resposta = "excluida"] \in TipoDaExclusao
          /\ [d EXCEPT !.resposta = "erro"] \in TipoDaExclusao
      BY <1>0 DEF TipoDaExclusao
    <2>2. banco' \subseteq Linhas /\ exclusoes' \subseteq TipoDaExclusao
      BY <1>0, <1>10, <2>1 DEF Destroi
    <2> QED
      BY <1>10, <2>2 DEF Destroi, TipoLista, TabelaOK, cargaVars, historia
  <1>11. ASSUME NEW d \in exclusoes, Excluida(d)
         PROVE  TipoLista'
    <2> DEFINE nova == Consulta(enviadas + 1, OffsetAtual(TRUE), OrdemAtual, BuscaAtual)
    <2>1. nova \in TipoDaConsulta /\ nova.resposta = Nada
      <3>1. TRUE \in BOOLEAN
        OBVIOUS
      <3>2. OffsetAtual(TRUE) \in Offsets /\ OrdemAtual \in Ordens /\ BuscaAtual \in Buscas
        BY <1>0, <3>1, WhatIsOnThePage
      <3>3. enviadas + 1 \in Nat
        BY <1>0
      <3> QED
        BY <3>2, <3>3, QuestionAsked
    <2>2. consultas' = consultas \cup {nova} /\ exclusoes' \subseteq exclusoes
          /\ enviadas' \in Nat /\ excluir' = Nada /\ cruzada' \in BOOLEAN
          /\ UNCHANGED <<banco, tabela, perdida, quebrada>>
      BY <1>0, <1>11 DEF Excluida
    <2> HIDE DEF nova
    <2> QED
      BY <1>0, <2>1, <2>2 DEF TipoLista, TabelaOK
  <1>12. ASSUME NEW d \in exclusoes, NaoExcluida(d)
         PROVE  TipoLista'
    BY <1>12 DEF NaoExcluida, TipoLista, TabelaOK, historia
  <1>13. ASSUME NEW d \in exclusoes, SemJSON(d)
         PROVE  TipoLista'
    BY <1>13 DEF SemJSON, TipoLista, TabelaOK, cargaVars
  <1>14. ASSUME hideModal
         PROVE  TipoLista'
    BY <1>14 DEF hideModal, TipoLista, TabelaOK, pedidosVars, historia
  <1> QED
    BY <1>1, <1>2, <1>3, <1>4, <1>5, <1>6, <1>7, <1>8, <1>9, <1>10, <1>11, <1>12, <1>13,
       <1>14, ListaSteps

----------------------------------------------------------------------------
(* Backdrops *)

LEMMA FundosInit ==
  ASSUME ListaInit
  PROVE  FundosInv
  BY DEF ListaInit, FundosInv

LEMMA LoadingShowKeepsBackdrops ==
  ASSUME FundosInv, loadingShow, quebrada' = quebrada, EmVoo'
  PROVE  FundosInv'
  BY DEF FundosInv, loadingShow

LEMMA LoadingHideKeepsBackdrops ==
  ASSUME FundosInv, loadingHide
  PROVE  FundosInv'
  BY DEF FundosInv, loadingHide

\* Carregando does not change, and a request stays one.
LEMMA CarregandoStays ==
  ASSUME FundosInv, UNCHANGED <<isShown, sumindo, fundos, reaberta>>,
         EmVoo => EmVoo' \/ quebrada', quebrada => quebrada'
  PROVE  FundosInv'
  BY DEF FundosInv

LEMMA FundosStep ==
  ASSUME FundosInv, ListaNext, quebrada \in BOOLEAN
  PROVE  FundosInv'
PROOF
  <1>1. ASSUME NEW offset, NEW ordem, NEW query, loadTable(offset, ordem, query)
        PROVE  FundosInv'
    BY <1>1, LoadingShowKeepsBackdrops DEF loadTable, EmVoo
  <1>2. ASSUME NEW i \in Linhas, AbreExclusao(i)
        PROVE  FundosInv'
    BY <1>2, CarregandoStays DEF AbreExclusao, pedidosVars, cargaVars, historia, EmVoo
  <1>3. ASSUME Cancela
        PROVE  FundosInv'
    BY <1>3, CarregandoStays DEF Cancela, pedidosVars, cargaVars, historia, EmVoo
  <1>4. ASSUME Confirma
        PROVE  FundosInv'
    BY <1>4, LoadingShowKeepsBackdrops DEF Confirma, EmVoo
  <1>5. ASSUME NEW c \in consultas, Responde(c)
        PROVE  FundosInv'
    BY <1>5, CarregandoStays DEF Responde, cargaVars, historia, EmVoo
  <1>6. ASSUME NEW c \in consultas, Mostra(c) \/ SemTabela(c)
        PROVE  FundosInv'
    BY <1>6, LoadingHideKeepsBackdrops DEF Mostra, SemTabela
  <1>7. ASSUME NEW d \in exclusoes, Destroi(d)
        PROVE  FundosInv'
    BY <1>7, CarregandoStays DEF Destroi, cargaVars, historia, EmVoo
  <1>8. ASSUME NEW d \in exclusoes, Excluida(d)
        PROVE  FundosInv'
    <2>1. /\ isShown' = FALSE /\ sumindo' = TRUE
          /\ reaberta' = (reaberta \/ (~isShown /\ sumindo))
          /\ isShown => fundos' = fundos
          /\ ~isShown => fundos' = fundos + 1
      BY <1>8 DEF Excluida
    <2>2. /\ reaberta' \in BOOLEAN
          /\ ~reaberta' => ~reaberta /\ (isShown \/ ~sumindo)
      BY <2>1 DEF FundosInv
    <2>3. isShown => fundos \in Nat /\ fundos > 0 /\ (~reaberta => fundos = 1)
      BY DEF FundosInv
    <2>4. ~isShown => fundos \in Nat /\ (~reaberta /\ ~sumindo => fundos = 0)
      BY DEF FundosInv
    <2>5. fundos' \in Nat /\ fundos' > 0 /\ (~reaberta' => fundos' = 1)
      BY <2>1, <2>2, <2>3, <2>4
    <2> QED
      BY <2>1, <2>2, <2>5 DEF FundosInv
  <1>9. ASSUME NEW d \in exclusoes, NaoExcluida(d)
        PROVE  FundosInv'
    BY <1>9, LoadingHideKeepsBackdrops DEF NaoExcluida
  <1>10. ASSUME NEW d \in exclusoes, SemJSON(d)
         PROVE  FundosInv'
    BY <1>10, CarregandoStays DEF SemJSON, cargaVars
  <1>11. ASSUME hideModal
         PROVE  FundosInv'
    <2>1. /\ sumindo /\ sumindo' = FALSE
          /\ isShown => fundos' = fundos + 1
          /\ ~isShown => fundos' = fundos - 1
          /\ UNCHANGED <<isShown, reaberta, quebrada, consultas, exclusoes>>
      BY <1>11 DEF hideModal, pedidosVars, historia
    <2>2. fundos \in Nat /\ fundos > 0 /\ (~reaberta => ~isShown /\ fundos = 1)
      BY <2>1 DEF FundosInv
    <2>3. fundos' \in Nat /\ (isShown => fundos' > 0) /\ (~reaberta => fundos' = 0)
      BY <2>1, <2>2 DEF FundosInv
    <2>4. isShown' /\ ~quebrada' => EmVoo'
      BY <2>1 DEF FundosInv, EmVoo
    <2>5. ~reaberta' => ~isShown' /\ ~sumindo' /\ fundos' = 0
      BY <2>1, <2>2, <2>3
    <2> QED
      BY <2>1, <2>3, <2>4, <2>5 DEF FundosInv
  <1> QED
    BY <1>1, <1>2, <1>3, <1>4, <1>5, <1>6, <1>7, <1>8, <1>9, <1>10, <1>11, ListaSteps
       DEF Procura, Pagina, Ordena

LEMMA FundosSafe ==
  ASSUME FundosInv
  PROVE  PaginaLivre
  BY DEF FundosInv, PaginaLivre, EmVoo

----------------------------------------------------------------------------
(* Rows while no requests cross and none is lost *)

LEMMA CountOfFound ==
  ASSUME TipoLista, NEW q
  PROVE  /\ Cardinality(banco \cap Acha[q]) \in Nat
         /\ banco \cap Acha[q] # {} => 0 < Cardinality(banco \cap Acha[q])
  BY RowsAreCounted DEF TipoLista

\* Between requests the table counts what the database has.
LEMMA TableCounts ==
  ASSUME TipoLista, EmOrdem, ~EmVoo, tabela # Vazia
  PROVE  /\ tabela.offset \in Offsets /\ tabela.count \in Nat
         /\ tabela.offset < tabela.count
         /\ tabela.count = Cardinality(banco \cap Acha[tabela.query])
PROOF
  <1>1. consultas = {} /\ ~Excluindo
    BY DEF EmVoo, Excluindo
  <1>2. tabela.offset < tabela.count
        /\ tabela.count = Cardinality(banco \cap Acha[tabela.query]) + 0
    BY <1>1 DEF EmOrdem, TabelaEmDia
  <1>3. tabela.offset \in Offsets /\ tabela.count \in Nat
    BY DEF TipoLista, TabelaOK, Tabelas
  <1>4. Cardinality(banco \cap Acha[tabela.query]) \in Nat
    BY CountOfFound
  <1> QED
    BY <1>2, <1>3, <1>4

\* Where a link leads, or the order, there are rows.
LEMMA LinksHaveRows ==
  ASSUME TipoLista, EmOrdem, ~EmVoo, tabela # Vazia, NEW o \in Links(tabela)
  PROVE  o < Cardinality(banco \cap Acha[tabela.query])
PROOF
  <1> DEFINE n == tabela.count
             total == getTotalPages(n)
  <1> USE PageSize
  <1>1. /\ tabela.offset \in Nat /\ n \in Nat
        /\ tabela.offset < n
        /\ n = Cardinality(banco \cap Acha[tabela.query])
    BY TableCounts DEF Offsets
  <1>2. total \in Nat /\ MAX_RESULTS * (total - 1) < n
    <2>1. n > 0
      BY <1>1
    <2> HIDE DEF n
    <2> QED
      BY <1>1, <2>1, PagesOfRows
  <1>3. CASE o = 0
    BY <1>1, <1>3
  <1>4. ASSUME NEW p \in 0..(total - 1), o = MAX_RESULTS * p
        PROVE  o < n
    <2>1. p \in Int /\ total - 1 \in Int /\ p <= total - 1
      BY <1>2
    <2>2. MAX_RESULTS * p <= MAX_RESULTS * (total - 1)
      BY <2>1, Multiples
    <2> HIDE DEF total
    <2>3. MAX_RESULTS * (total - 1) \in Int /\ MAX_RESULTS * p \in Int
      BY <2>1
    <2> QED
      BY <1>1, <1>2, <1>4, <2>2, <2>3
  <1>5. CASE o = tabela.offset - MAX_RESULTS
    BY <1>1, <1>5
  <1>6. CASE o < n
    BY <1>1, <1>6
  <1> QED
    BY <1>1, <1>3, <1>4, <1>5, <1>6 DEF Links

\* A question asked while nothing is in flight, which the database has rows for.
LEMMA AsksInOrder ==
  ASSUME TipoLista, EmOrdem, NEW offset, NEW ordem, NEW query,
         loadTable(offset, ordem, query), ~cruzada', excluir = Nada,
         LET achadas == banco \cap Acha[query] IN
           achadas = {} \/ offset < Cardinality(achadas)
  PROVE  EmOrdem'
PROOF
  <1> DEFINE nova == Consulta(enviadas + 1, offset, ordem, query)
  <1>1. consultas = {} /\ exclusoes = {}
    BY DEF loadTable, Cruza, EmVoo
  <1>2. consultas' = {nova} /\ exclusoes' = {} /\ isShown' = TRUE
        /\ UNCHANGED <<banco, tabela, excluir>>
    BY <1>1 DEF loadTable, loadingShow
  <1>3. nova.resposta = Nada /\ nova.query = query /\ nova.offset = offset
    BY DEF Consulta
  <1> HIDE DEF nova
  <1>4. UmPedido' /\ TemLinhas'
    BY <1>2 DEF UmPedido, EmOrdem, TemLinhas
  <1>5. LinhaDaTabela'
    BY <1>2 DEF LinhaDaTabela
  <1>6. PerguntaCabe'
    BY <1>2, <1>3 DEF PerguntaCabe
  <1>7. TabelaEmDia'
    BY <1>2 DEF TabelaEmDia
  <1> QED
    BY <1>4, <1>5, <1>6, <1>7 DEF EmOrdem

LEMMA UserAsksInOrder ==
  ASSUME TipoLista, EmOrdem, ~cruzada', \/ \E q \in Buscas : Procura(q)
                                        \/ \E p \in Nat : Pagina(MAX_RESULTS * p)
                                        \/ Ordena
  PROVE  EmOrdem'
PROOF
  <1>1. ASSUME NEW q \in Buscas, Procura(q)
        PROVE  EmOrdem'
    BY <1>1, CountOfFound, AsksInOrder DEF Procura
  <1>2. ASSUME NEW p \in Nat, Pagina(MAX_RESULTS * p)
        PROVE  EmOrdem'
    <2>1. ~EmVoo /\ tabela # Vazia /\ excluir = Nada /\ MAX_RESULTS * p \in Links(tabela)
          /\ BuscaAtual = tabela.query
      BY <1>2 DEF Pagina, Clicavel, loadTable, Cruza, BuscaAtual
    <2>2. MAX_RESULTS * p < Cardinality(banco \cap Acha[BuscaAtual])
      BY <2>1, LinksHaveRows
    <2> QED
      BY <1>2, <2>1, <2>2, AsksInOrder DEF Pagina
  <1>3. ASSUME Ordena
        PROVE  EmOrdem'
    <2>1. PICK ordem : loadTable(OffsetAtual(FALSE), ordem, BuscaAtual)
      BY <1>3 DEF Ordena
    <2>2. ~EmVoo /\ tabela # Vazia /\ excluir = Nada
          /\ BuscaAtual = tabela.query /\ OffsetAtual(FALSE) = tabela.offset
      BY <1>3 DEF Ordena, Clicavel, loadTable, Cruza, BuscaAtual, OffsetAtual
    <2>3. OffsetAtual(FALSE) < Cardinality(banco \cap Acha[BuscaAtual])
      BY <2>2, TableCounts
    <2> QED
      BY <2>1, <2>2, <2>3, AsksInOrder
  <1> QED
    BY <1>1, <1>2, <1>3

\* The modal of a deletion asks about a row of the table.
LEMMA ChoosesInOrder ==
  ASSUME TipoLista, FundosInv, EmOrdem, (\E i \in Linhas : AbreExclusao(i)) \/ Cancela
  PROVE  EmOrdem'
PROOF
  <1>1. UNCHANGED <<banco, tabela, consultas, exclusoes, isShown>>
    BY DEF AbreExclusao, Cancela, pedidosVars, cargaVars, historia
  <1>2. (tabela # Vazia /\ excluir' # Nada) => excluir' \in Acha[tabela.query]
    BY DEF AbreExclusao, Cancela, TipoLista, TabelaOK
  <1>3. \A c \in consultas : excluir' # Nada => excluir' \in Acha[c.query]
    <2>1. CASE Cancela
      BY <2>1 DEF Cancela
    <2>2. CASE \E i \in Linhas : AbreExclusao(i)
      <3>1. ~isShown /\ tabela # Vazia /\ BuscaAtual = tabela.query
        BY <2>2 DEF AbreExclusao, Clicavel, FundosInv, BuscaAtual
      <3> QED
        BY <1>2, <3>1 DEF EmOrdem, LinhaDaTabela
    <2> QED
      BY <2>1, <2>2
  <1>4. UmPedido' /\ TemLinhas' /\ PerguntaCabe' /\ TabelaEmDia'
    BY <1>1 DEF EmOrdem, UmPedido, TemLinhas, PerguntaCabe, TabelaEmDia, Excluindo
  <1>5. LinhaDaTabela'
    BY <1>1, <1>2, <1>3 DEF EmOrdem, LinhaDaTabela, BuscaAtual
  <1> QED
    BY <1>4, <1>5 DEF EmOrdem

LEMMA DeletesInOrder ==
  ASSUME TipoLista, EmOrdem, Confirma, ~cruzada'
  PROVE  EmOrdem'
PROOF
  <1> DEFINE d == [indice |-> enviadas + 1, id |-> excluir, resposta |-> Nada]
  <1>1. consultas = {} /\ exclusoes = {} /\ ~Excluindo
    BY DEF Confirma, Cruza, EmVoo, Excluindo
  <1>2. consultas' = {} /\ exclusoes' = {d} /\ UNCHANGED <<banco, tabela, excluir>>
        /\ excluir # Nada
    BY <1>1 DEF Confirma
  <1>3. d.id = excluir /\ d.resposta = Nada
    OBVIOUS
  <1> HIDE DEF d
  <1>4. ~Excluindo'
    BY <1>2, <1>3, NadaIsNothingElse DEF Excluindo
  <1>5. UmPedido' /\ TemLinhas' /\ PerguntaCabe'
    BY <1>2 DEF EmOrdem, UmPedido, TemLinhas, PerguntaCabe
  <1>6. LinhaDaTabela'
    BY <1>2, <1>3 DEF EmOrdem, LinhaDaTabela
  <1>7. TabelaEmDia'
    BY <1>1, <1>2, <1>4 DEF EmOrdem, TabelaEmDia
  <1> QED
    BY <1>5, <1>6, <1>7 DEF EmOrdem

\* The answer to the only question is a table with rows, or there are none.
LEMMA AnswersInOrder ==
  ASSUME TipoLista, EmOrdem, NEW c \in consultas, Responde(c)
  PROVE  EmOrdem'
PROOF
  <1> DEFINE e == [c EXCEPT !.resposta = list(c)]
             achadas == banco \cap Acha[c.query]
  <1>1. consultas = {c} /\ exclusoes = {}
    BY DEF EmOrdem, UmPedido
  <1>2. consultas' = {e} /\ exclusoes' = {}
        /\ UNCHANGED <<banco, tabela, excluir, isShown>>
    BY <1>1 DEF Responde, cargaVars, historia
  <1>3. c \in TipoDaConsulta
    BY DEF TipoLista
  <1>4. e.query = c.query /\ e.resposta = list(c)
    BY <1>3 DEF TipoDaConsulta
  <1>5. list(c) # Nada
    <2>1. list(c) \in {Vazia} \cup Tabelas
      BY <1>3, TableServed DEF TipoLista, TipoDaConsulta
    <2> QED
      BY <2>1, NadaIsNothingElse
  <1>6. ASSUME list(c) # Vazia
        PROVE  /\ list(c).query = c.query
               /\ list(c).count = Cardinality(achadas)
               /\ list(c).offset < list(c).count
               /\ list(c).linhas # {}
    <2>1. achadas # {} /\ c.resposta = Nada
      BY <1>6 DEF list, Responde
    <2>2. c.offset < Cardinality(achadas)
      BY <2>1 DEF EmOrdem, PerguntaCabe
    <2>3. PaginaDe(achadas, c.ordem, c.offset) # {}
      <3>1. IsFiniteSet(achadas) /\ achadas \subseteq Nat
        BY RowsAreCounted DEF TipoLista
      <3>2. c.offset \in Nat /\ c.ordem \in Ordens
        BY <1>3, PageSize DEF TipoDaConsulta, Offsets
      <3> HIDE DEF achadas
      <3> QED
        BY <2>2, <3>1, <3>2, PageHasRows
    <2> QED
      BY <2>1, <2>2, <2>3 DEF list
  <1> HIDE DEF e, achadas
  <1>7. PerguntaCabe'
    BY <1>2, <1>4, <1>5, <1>6 DEF PerguntaCabe, achadas
  <1>8. LinhaDaTabela'
    BY <1>1, <1>2, <1>4 DEF EmOrdem, LinhaDaTabela, BuscaAtual
  <1>9. UmPedido' /\ TemLinhas' /\ TabelaEmDia'
    BY <1>2 DEF EmOrdem, UmPedido, TemLinhas, TabelaEmDia
  <1> QED
    BY <1>7, <1>8, <1>9 DEF EmOrdem

LEMMA ShowsInOrder ==
  ASSUME TipoLista, EmOrdem, NEW c \in consultas, Mostra(c)
  PROVE  EmOrdem'
PROOF
  <1> DEFINE t == c.resposta
             achadas == banco \cap Acha[t.query]
  <1>1. consultas' = {} /\ exclusoes = {} /\ exclusoes' = {} /\ tabela' = t
        /\ t # Nada /\ UNCHANGED <<banco, excluir>>
    BY DEF EmOrdem, UmPedido, Mostra
  <1>2. ASSUME t # Vazia
        PROVE  /\ t.query = c.query
               /\ t.count = Cardinality(achadas)
               /\ t.offset < t.count
               /\ t.linhas # {}
    BY <1>1, <1>2 DEF EmOrdem, PerguntaCabe
  <1>3. ~Excluindo' /\ UmPedido' /\ PerguntaCabe'
    BY <1>1 DEF Excluindo, UmPedido, PerguntaCabe
  <1>4. LinhaDaTabela'
    <2>1. t # Vazia /\ excluir # Nada => excluir \in Acha[t.query]
      BY <1>2 DEF EmOrdem, LinhaDaTabela
    <2> QED
      BY <1>1, <2>1 DEF LinhaDaTabela
  <1>5. TabelaEmDia'
    <2>1. t # Vazia => t.count = Cardinality(achadas) + 0
      <3>1. Cardinality(achadas) \in Nat
        BY CountOfFound
      <3> QED
        BY <1>2, <3>1
    <2> QED
      BY <1>1, <1>2, <1>3, <2>1 DEF TabelaEmDia
  <1>6. TemLinhas'
    BY <1>1, <1>2 DEF TemLinhas
  <1> QED
    BY <1>3, <1>4, <1>5, <1>6 DEF EmOrdem

\* What is deleted is a row the table counts, which it goes on counting.
LEMMA DestroysInOrder ==
  ASSUME TipoLista, EmOrdem, NEW d \in exclusoes, Destroi(d)
  PROVE  EmOrdem'
PROOF
  <1> DEFINE achadas == banco \cap Acha[tabela.query]
  <1>1. /\ exclusoes = {d} /\ consultas = {} /\ consultas' = {}
        /\ UNCHANGED <<tabela, excluir, isShown>>
        /\ d.resposta = Nada /\ d \in TipoDaExclusao
    BY DEF EmOrdem, UmPedido, Destroi, cargaVars, historia, TipoLista
  <1>2. PICK e : exclusoes' = {e} /\ e.id = d.id
                 /\ \/ e.resposta = "excluida" /\ d.id \in banco /\ banco' = banco \ {d.id}
                    \/ e.resposta = "erro" /\ banco' = banco
    <2> DEFINE sim == [d EXCEPT !.resposta = "excluida"]
               nao == [d EXCEPT !.resposta = "erro"]
    <2>1. /\ sim.id = d.id /\ sim.resposta = "excluida"
          /\ nao.id = d.id /\ nao.resposta = "erro"
      BY <1>1 DEF TipoDaExclusao
    <2>2. \/ exclusoes' = {sim} /\ d.id \in banco /\ banco' = banco \ {d.id}
          \/ exclusoes' = {nao} /\ banco' = banco
      BY <1>1 DEF Destroi
    <2> HIDE DEF sim, nao
    <2> QED
      BY <2>1, <2>2
  <1>3. ~Excluindo /\ (Excluindo' <=> e.resposta = "excluida")
    BY <1>1, <1>2, NadaIsNothingElse DEF Excluindo
  <1>4. UmPedido' /\ PerguntaCabe' /\ TemLinhas'
    BY <1>1, <1>2 DEF EmOrdem, UmPedido, PerguntaCabe, TemLinhas
  <1>5. LinhaDaTabela'
    BY <1>1, <1>2 DEF EmOrdem, LinhaDaTabela
  <1>6. ASSUME tabela # Vazia
        PROVE  /\ tabela.offset < tabela.count
               /\ tabela.count = Cardinality(banco' \cap Acha[tabela.query])
                                 + (IF Excluindo' THEN 1 ELSE 0)
    <2>1. tabela.offset < tabela.count /\ d.id \in Acha[tabela.query]
          /\ tabela.count = Cardinality(achadas) + 0
      BY <1>1, <1>3, <1>6 DEF EmOrdem, TabelaEmDia, LinhaDaTabela
    <2>2. IsFiniteSet(achadas) /\ Cardinality(achadas) \in Nat
      BY RowsAreCounted DEF TipoLista
    <2>3. CASE e.resposta = "erro"
      <3>1. ~Excluindo' /\ banco' = banco
        BY <1>2, <1>3, <2>3
      <3> QED
        BY <2>1, <2>2, <3>1
    <2>4. CASE e.resposta = "excluida"
      <3>1. Excluindo' /\ banco' \cap Acha[tabela.query] = achadas \ {d.id} /\ d.id \in achadas
        BY <1>2, <1>3, <2>1, <2>4
      <3>2. Cardinality(achadas \ {d.id}) = Cardinality(achadas) - 1
        <4> HIDE DEF achadas
        <4> QED
          BY <2>2, <3>1, FS_RemoveElement
      <3> QED
        BY <2>1, <2>2, <3>1, <3>2
    <2> QED
      BY <1>2, <2>3, <2>4
  <1>7. TabelaEmDia'
    BY <1>1, <1>6 DEF TabelaEmDia
  <1> QED
    BY <1>4, <1>5, <1>7 DEF EmOrdem

\* Whoever deleted the only row of a last page goes back a page; on any other
\* page another row is left.
LEMMA StepsBackInOrder ==
  ASSUME TipoLista, EmOrdem, consultas = {}, Excluindo
  PROVE  LET achadas == banco \cap Acha[BuscaAtual] IN
         achadas = {} \/ OffsetAtual(TRUE) < Cardinality(achadas)
PROOF
  <1> DEFINE achadas == banco \cap Acha[BuscaAtual]
             n == Cardinality(achadas)
             o == OffsetAtual(TRUE)
  <1> USE PageSize
  <1>1. n \in Nat /\ (achadas # {} => 0 < n)
    BY CountOfFound
  <1>2. CASE tabela = Vazia
    BY <1>1, <1>2 DEF OffsetAtual
  <1>3. ASSUME tabela # Vazia
        PROVE  n = 0 \/ o < n
    <2>1. tabela.offset < tabela.count /\ tabela.count = n + 1
      BY <1>3 DEF EmOrdem, TabelaEmDia, BuscaAtual
    <2>2. PICK p \in Nat : tabela.offset = MAX_RESULTS * p
      BY <1>3 DEF TipoLista, TabelaOK, Offsets
    <2>3. tabela.offset \in Nat /\ tabela.offset <= n
      BY <1>1, <2>1, <2>2
    <2>4. CASE tabela.offset > 0 /\ tabela.count % MAX_RESULTS = 1
      <3>1. o = tabela.offset - MAX_RESULTS
        BY <1>3, <2>4 DEF OffsetAtual
      <3> HIDE DEF n, o
      <3> QED
        BY <1>1, <2>3, <3>1
    <2>5. CASE ~(tabela.offset > 0 /\ tabela.count % MAX_RESULTS = 1)
      <3>1. o = tabela.offset
        BY <1>3, <2>5 DEF OffsetAtual
      <3>2. ASSUME tabela.offset = n, n > 0
            PROVE  FALSE
        <4>1. tabela.count = MAX_RESULTS * p + 1
          BY <2>1, <2>2, <3>2
        <4>2. tabela.count % MAX_RESULTS = 1
          BY <4>1, OneRowRemains
        <4> QED
          BY <2>5, <3>2, <4>2
      <3>3. n = 0 \/ tabela.offset < n
        <4> HIDE DEF n
        <4> QED
          BY <1>1, <2>3, <3>2
      <3> HIDE DEF n, o
      <3> QED
        BY <3>1, <3>3
    <2> QED
      BY <2>4, <2>5
  <1>4. achadas = {} \/ o < n
    <2> HIDE DEF n, o, achadas
    <2>1. tabela = Vazia => achadas = {} \/ o < n
      BY <1>2 DEF n, o, achadas
    <2> QED
      BY <1>1, <1>3, <2>1
  <1> QED
    BY <1>4

LEMMA ReloadsInOrder ==
  ASSUME TipoLista, EmOrdem, NEW d \in exclusoes, Excluida(d)
  PROVE  EmOrdem'
PROOF
  <1> DEFINE nova == Consulta(enviadas + 1, OffsetAtual(TRUE), OrdemAtual, BuscaAtual)
  <1>1. consultas = {} /\ exclusoes = {d} /\ Excluindo
    BY DEF EmOrdem, UmPedido, Excluida, Excluindo
  <1>2. consultas' = {nova} /\ exclusoes' = {} /\ excluir' = Nada /\ UNCHANGED <<banco, tabela>>
    BY <1>1 DEF Excluida
  <1>3. nova.resposta = Nada /\ nova.query = BuscaAtual /\ nova.offset = OffsetAtual(TRUE)
    BY DEF Consulta
  <1>4. banco \cap Acha[BuscaAtual] = {}
        \/ OffsetAtual(TRUE) < Cardinality(banco \cap Acha[BuscaAtual])
    BY <1>1, StepsBackInOrder
  <1> HIDE DEF nova
  <1>5. PerguntaCabe'
    BY <1>2, <1>3, <1>4 DEF PerguntaCabe
  <1>6. LinhaDaTabela'
    BY <1>2, <1>3 DEF LinhaDaTabela, BuscaAtual
  <1>7. UmPedido' /\ TabelaEmDia' /\ TemLinhas'
    BY <1>2 DEF EmOrdem, UmPedido, TabelaEmDia, TemLinhas
  <1> QED
    BY <1>5, <1>6, <1>7 DEF EmOrdem

LEMMA RefusedInOrder ==
  ASSUME TipoLista, EmOrdem, NEW d \in exclusoes, NaoExcluida(d)
  PROVE  EmOrdem'
PROOF
  <1>1. consultas = {} /\ exclusoes = {d} /\ ~Excluindo
    BY DEF EmOrdem, UmPedido, NaoExcluida, Excluindo
  <1>2. consultas' = {} /\ exclusoes' = {} /\ excluir' = Nada /\ UNCHANGED <<banco, tabela>>
    BY <1>1 DEF NaoExcluida
  <1>3. ~Excluindo'
    BY <1>2 DEF Excluindo
  <1>4. TabelaEmDia'
    BY <1>1, <1>2, <1>3 DEF EmOrdem, TabelaEmDia
  <1>5. UmPedido' /\ LinhaDaTabela' /\ PerguntaCabe' /\ TemLinhas'
    BY <1>2 DEF EmOrdem, UmPedido, LinhaDaTabela, PerguntaCabe, TemLinhas
  <1> QED
    BY <1>4, <1>5 DEF EmOrdem

LEMMA SemCruzarInit ==
  ASSUME ListaInit
  PROVE  SemCruzarInv
PROOF
  <1> DEFINE c == [offset |-> 0, ordem |-> "sorting_desc", query |-> Tudo]
             achadas == banco \cap Acha[Tudo]
  <1>1. TipoLista
    BY TipoListaInit
  <1>2. ~Excluindo /\ consultas = {} /\ exclusoes = {} /\ excluir = Nada /\ tabela = list(c)
    BY DEF ListaInit, Excluindo
  <1>3. ASSUME tabela # Vazia
        PROVE  /\ tabela.query = Tudo /\ tabela.offset < tabela.count /\ tabela.linhas # {}
               /\ tabela.count = Cardinality(achadas) + 0
    <2>1. achadas # {} /\ tabela.query = Tudo /\ tabela.offset = 0
          /\ tabela.count = Cardinality(achadas)
          /\ tabela.linhas = PaginaDe(achadas, "sorting_desc", 0)
      BY <1>2, <1>3 DEF list
    <2>2. Cardinality(achadas) \in Nat /\ 0 < Cardinality(achadas)
      BY <1>1, <2>1, CountOfFound
    <2>3. IsFiniteSet(achadas) /\ achadas \subseteq Nat
      BY <1>1, RowsAreCounted DEF TipoLista
    <2>4. PaginaDe(achadas, "sorting_desc", 0) # {}
      <3>1. "sorting_desc" \in Ordens
        BY DEF Ordens
      <3> HIDE DEF achadas
      <3> QED
        BY <2>2, <2>3, <3>1, PageHasRows
    <2>5. tabela.count = Cardinality(achadas) + 0 /\ tabela.offset < tabela.count
      <3> HIDE DEF achadas
      <3> QED
        BY <2>1, <2>2
    <2> QED
      BY <2>1, <2>4, <2>5
  <1>4. TabelaEmDia /\ TemLinhas
    BY <1>2, <1>3 DEF TabelaEmDia, TemLinhas
  <1>5. UmPedido /\ LinhaDaTabela /\ PerguntaCabe
    BY <1>2 DEF UmPedido, LinhaDaTabela, PerguntaCabe
  <1> QED
    BY <1>4, <1>5 DEF SemCruzarInv, EmOrdem

LEMMA SemCruzarStep ==
  ASSUME TipoLista, FundosInv, SemCruzarInv, ListaNext
  PROVE  SemCruzarInv'
PROOF
  <1> SUFFICES ASSUME ~cruzada', ~perdida'
               PROVE  EmOrdem'
    BY DEF SemCruzarInv
  <1>1. ASSUME ~cruzada, ~perdida
        PROVE  EmOrdem
    BY <1>1 DEF SemCruzarInv
  <1>2. ASSUME \/ \E q \in Buscas : Procura(q)
               \/ \E p \in Nat : Pagina(MAX_RESULTS * p)
               \/ Ordena
        PROVE  EmOrdem'
    <2>1. ASSUME NEW offset, NEW ordem, NEW query, loadTable(offset, ordem, query)
          PROVE  ~cruzada /\ ~perdida
      BY <2>1 DEF loadTable, Cruza
    <2> QED
      BY <1>1, <1>2, <2>1, UserAsksInOrder DEF Procura, Pagina, Ordena
  <1>3. ASSUME (\E i \in Linhas : AbreExclusao(i)) \/ Cancela
        PROVE  EmOrdem'
    <2>1. ~cruzada /\ ~perdida
      BY <1>3 DEF AbreExclusao, Cancela, historia
    <2> QED
      BY <1>1, <1>3, <2>1, ChoosesInOrder
  <1>4. ASSUME Confirma
        PROVE  EmOrdem'
    <2>1. ~cruzada /\ ~perdida
      BY <1>4 DEF Confirma, Cruza
    <2> QED
      BY <1>1, <1>4, <2>1, DeletesInOrder
  <1>5. ASSUME NEW c \in consultas, Responde(c)
        PROVE  EmOrdem'
    <2>1. ~cruzada /\ ~perdida
      BY <1>5 DEF Responde, historia
    <2> QED
      BY <1>1, <1>5, <2>1, AnswersInOrder
  <1>6. ASSUME NEW c \in consultas, Mostra(c)
        PROVE  EmOrdem'
    <2>1. ~cruzada /\ ~perdida
      BY <1>6 DEF Mostra, historia
    <2> QED
      BY <1>1, <1>6, <2>1, ShowsInOrder
  <1>7. ASSUME NEW c \in consultas, SemTabela(c)
        PROVE  FALSE
    BY <1>7 DEF SemTabela
  <1>8. ASSUME NEW d \in exclusoes, Destroi(d)
        PROVE  EmOrdem'
    <2>1. ~cruzada /\ ~perdida
      BY <1>8 DEF Destroi, historia
    <2> QED
      BY <1>1, <1>8, <2>1, DestroysInOrder
  <1>9. ASSUME NEW d \in exclusoes, Excluida(d)
        PROVE  EmOrdem'
    <2>1. ~cruzada /\ ~perdida
      BY <1>9 DEF Excluida
    <2> QED
      BY <1>1, <1>9, <2>1, ReloadsInOrder
  <1>10. ASSUME NEW d \in exclusoes, NaoExcluida(d)
         PROVE  EmOrdem'
    <2>1. ~cruzada /\ ~perdida
      BY <1>10 DEF NaoExcluida, historia
    <2> QED
      BY <1>1, <1>10, <2>1, RefusedInOrder
  <1>11. ASSUME NEW d \in exclusoes, SemJSON(d)
         PROVE  FALSE
    BY <1>11 DEF SemJSON
  <1>12. ASSUME hideModal
         PROVE  EmOrdem'
    <2>1. ~cruzada /\ ~perdida
          /\ UNCHANGED <<banco, tabela, consultas, exclusoes, excluir, isShown>>
      BY <1>12 DEF hideModal, pedidosVars, historia
    <2> QED
      BY <1>1, <2>1 DEF EmOrdem, UmPedido, LinhaDaTabela, PerguntaCabe, TabelaEmDia, TemLinhas,
                        Excluindo, BuscaAtual
  <1> QED
    BY <1>2, <1>3, <1>4, <1>5, <1>6, <1>7, <1>8, <1>9, <1>10, <1>11, <1>12, ListaSteps

LEMMA SemCruzarSafe ==
  ASSUME SemCruzarInv
  PROVE  PaginaComLinhas
  BY DEF SemCruzarInv, EmOrdem, TemLinhas, PaginaComLinhas

----------------------------------------------------------------------------
(* The slider *)

LEMMA NaNIsNoInteger == NaN \notin Int
  BY ConstantesDoSlider

\* Values that fit are read as they were written.
LEMMA FitsAsItIs ==
  ASSUME min \in {0, 1}, max \in Numeros, NEW v, Cabe(v)
  PROVE  Trim(v) = v /\ v \in Numeros
  BY NaNIsNoInteger DEF Cabe, Trim, Numeros

LEMMA ReadAsWritten ==
  ASSUME ValoresInv
  PROVE  /\ \A i \in Alcas : Valor(i) = values[i]
         /\ Valores = values
         /\ max # NaN => min <= max
PROOF
  <1>1. \A i \in Alcas : Valor(i) = values[i]
    BY FitsAsItIs DEF ValoresInv, Valor
  <1>2. Valores = values
    BY <1>1 DEF Valores, ValoresInv
  <1>3. max # NaN => min <= max
    BY NaNIsNoInteger DEF ValoresInv, Cabe, Alcas, Numeros
  <1> QED
    BY <1>1, <1>2, <1>3

LEMMA TrimFits ==
  ASSUME min \in {0, 1}, max \in Numeros, max # NaN => min <= max, NEW v \in Int
  PROVE  Cabe(Trim(v))
  BY NaNIsNoInteger DEF Cabe, Trim, Numeros

\* A handle stops at the other one.
LEMMA StopsAtTheOther ==
  ASSUME ValoresInv, NEW i \in Alcas, NEW novo, Cabe(novo)
  PROVE  /\ Cabe(limita(i, novo))
         /\ max # NaN => /\ i = 0 => limita(i, novo) <= values[1]
                         /\ i = 1 => values[0] <= limita(i, novo)
PROOF
  <1>1. /\ Valor(0) = values[0] /\ Valor(1) = values[1]
        /\ Cabe(values[0]) /\ Cabe(values[1])
        /\ max \in Numeros /\ min \in {0, 1}
    BY ReadAsWritten DEF ValoresInv, Alcas
  <1>2. CASE max = NaN
    <2>1. \A v \in {novo, values[0], values[1]} : v \in Numeros /\ (v \in Int => min <= v)
      BY <1>1, <1>2 DEF Cabe
    <2>2. limita(i, novo) = NaN \/ limita(i, novo) \in {novo, values[0], values[1]}
      BY <1>1 DEF limita, Menor, Maior
    <2> QED
      BY <1>2, <2>1, <2>2, NaNIsNoInteger DEF Cabe, Numeros
  <1>3. CASE max # NaN
    <2>1. /\ novo \in min..max /\ values[0] \in min..max /\ values[1] \in min..max
          /\ min \in Int /\ max \in Int
      BY <1>1, <1>3 DEF Cabe, Numeros
    <2>2. NaN # novo /\ NaN # values[0] /\ NaN # values[1]
      BY <2>1, NaNIsNoInteger
    <2>3. CASE i = 0
      BY <1>1, <1>3, <2>1, <2>2, <2>3 DEF limita, Menor, Cabe
    <2>4. CASE i = 1
      BY <1>1, <1>3, <2>1, <2>2, <2>4 DEF limita, Maior, Cabe
    <2> QED
      BY <2>3, <2>4 DEF Alcas
  <1> QED
    BY <1>2, <1>3

LEMMA SlideKeepsValues ==
  ASSUME ValoresInv, NEW i \in Alcas, NEW novo, Cabe(novo), slide(i, novo),
         UNCHANGED <<min, max>>
  PROVE  ValoresInv'
PROOF
  <1> DEFINE v == limita(i, novo)
  <1>1. /\ Valores = values /\ Cabe(v) /\ Trim(v) = v /\ v \in Numeros
        /\ max # NaN => /\ i = 0 => v <= values[1]
                        /\ i = 1 => values[0] <= v
    BY ReadAsWritten, StopsAtTheOther, FitsAsItIs DEF ValoresInv
  <1>2. CASE UNCHANGED <<values, formulario>>
    BY <1>2 DEF ValoresInv, Cabe
  <1>3. CASE avisa(i, v) /\ values' = [values EXCEPT ![i] = Trim(v)]
    <2>1. /\ values' = [values EXCEPT ![i] = v]
          /\ formulario' = [intervalo |-> values', pagina |-> "selecionada"]
      BY <1>1, <1>3 DEF avisa, atualizaIntervalos
    <2> HIDE DEF v
    <2>2. /\ values' \in [Alcas -> Numeros]
          /\ formulario' \in [intervalo : [Alcas -> Numeros], pagina : Opcoes]
          /\ formulario'.intervalo = values'
      BY <1>1, <2>1 DEF ValoresInv, Opcoes
    <2>3. \A j \in Alcas : values'[j] = v \/ values'[j] = values[j]
      BY <2>1 DEF ValoresInv
    <2>4. \A j \in Alcas : Cabe(values'[j])
      BY <1>1, <2>3 DEF ValoresInv
    <2>5. max # NaN => values'[0] <= values'[1]
      BY <1>1, <2>1 DEF ValoresInv, Alcas
    <2> QED
      BY <2>2, <2>4, <2>5 DEF ValoresInv, Cabe
  <1> QED
    BY <1>2, <1>3 DEF slide

\* A key moves a handle to where it fits.
LEMMA KeysFit ==
  ASSUME ValoresInv, NEW tecla \in Teclas, NEW i \in Alcas
  PROVE  Cabe(Destino(tecla, Valor(i)))
PROOF
  <1> DEFINE cur == Valor(i)
  <1>1. /\ Cabe(cur) /\ cur \in Numeros /\ max \in Numeros /\ min \in {0, 1}
        /\ max # NaN => min <= max
    BY ReadAsWritten, FitsAsItIs DEF ValoresInv
  <1> HIDE DEF cur
  <1>2. Cabe(min) /\ Cabe(max)
    BY <1>1, NaNIsNoInteger DEF Cabe, Numeros
  <1>3. max = NaN => Cabe(NaN)
    BY <1>1, NaNIsNoInteger DEF Cabe, Numeros
  <1>4. max # NaN => cur \in Int /\ max \in Int
    BY <1>1 DEF Cabe, Numeros
  <1>5. ASSUME NEW n \in {-1, 1}
        PROVE  Cabe(Passo(cur, n))
    <2>1. CASE max = NaN
      BY <1>3, <2>1 DEF Passo
    <2>2. CASE max # NaN
      <3>1. cur + (2 * n * (max - min) + 5) \div 10 \in Int
        BY <1>1, <1>4, <2>2
      <3>2. Passo(cur, n) = Trim(cur + (2 * n * (max - min) + 5) \div 10)
        BY <1>4, <2>2, NaNIsNoInteger DEF Passo
      <3> QED
        BY <1>1, <3>1, <3>2, TrimFits
    <2> QED
      BY <2>1, <2>2
  <1>6. cur # NaN => Cabe(Trim(cur + 1)) /\ Cabe(Trim(cur - 1))
    <2>1. cur # NaN => cur + 1 \in Int /\ cur - 1 \in Int
      BY <1>1 DEF Numeros
    <2> QED
      BY <1>1, <2>1, TrimFits
  <1>7. Cabe(Destino(tecla, cur))
    BY <1>1, <1>2, <1>5, <1>6 DEF Destino, Teclas
  <1> QED
    BY <1>7 DEF cur

LEMMA SliderInitInv ==
  ASSUME SliderInit
  PROVE  SliderInv
PROOF
  <1>1. 100 \in Int /\ 0 \in Int /\ NaN # 100
    BY NaNIsNoInteger
  <1>2. values = [i \in Alcas |-> 0] /\ min = 0 /\ max = 100 /\ ~arrastando
        /\ formulario = [intervalo |-> values, pagina |-> "todas"]
    BY DEF SliderInit
  <1>3. ValoresInv
    BY <1>1, <1>2 DEF ValoresInv, Cabe, Alcas, Numeros, Opcoes
  <1> QED
    BY <1>2, <1>3 DEF SliderInv

LEMMA NearestIsAHandle == \A x : MaisProxima(x) \in Alcas
  BY DEF MaisProxima, Alcas

LEMMA SliderStep ==
  ASSUME SliderInv, NoSlider \/ NoDocumento
  PROVE  SliderInv' /\ UNCHANGED <<min, max>>
PROOF
  <1>1. ValoresInv
    BY DEF SliderInv
  <1>2. \A x \in SobOMouse : Cabe(x)
    BY <1>1, NaNIsNoInteger DEF SobOMouse, Cabe, Numeros
  <1>3. UNCHANGED <<values, min, max, formulario>> => ValoresInv'
    BY <1>1 DEF ValoresInv, Cabe
  <1>4. ASSUME NEW x \in SobOMouse, NEW naAlca \in BOOLEAN, MouseDown(x, naAlca)
        PROVE  SliderInv' /\ UNCHANGED <<min, max>>
    <2>1. UNCHANGED <<min, max>> /\ ~arrastando
      BY <1>4 DEF MouseDown
    <2>2. CASE x = NaN
      BY <1>3, <1>4, <2>1, <2>2 DEF MouseDown, SliderInv
    <2>3. CASE x # NaN
      <3>1. handleIndex' \in Alcas
        BY <1>4, <2>3, NearestIsAHandle DEF MouseDown
      <3>2. UNCHANGED <<values, formulario>> \/ slide(MaisProxima(x), x)
        BY <1>4, <2>3 DEF MouseDown
      <3>3. ValoresInv'
        BY <1>1, <1>2, <1>3, <2>1, <3>2, NearestIsAHandle, SlideKeepsValues
      <3> QED
        BY <2>1, <3>1, <3>3 DEF SliderInv
    <2> QED
      BY <2>2, <2>3
  <1>5. ASSUME NEW x \in SobOMouse, MouseMove(x)
        PROVE  SliderInv' /\ UNCHANGED <<min, max>>
    <2>1. handleIndex \in Alcas /\ slide(handleIndex, x)
          /\ UNCHANGED <<min, max, arrastando, handleIndex>>
      BY <1>5 DEF MouseMove, SliderInv
    <2>2. ValoresInv'
      BY <1>1, <1>2, <2>1, SlideKeepsValues
    <2> QED
      BY <2>1, <2>2 DEF SliderInv
  <1>6. ASSUME MouseUp
        PROVE  SliderInv' /\ UNCHANGED <<min, max>>
    BY <1>3, <1>6 DEF MouseUp, SliderInv
  <1>7. ASSUME NEW tecla \in Teclas, KeyDown(tecla)
        PROVE  SliderInv' /\ UNCHANGED <<min, max>>
    <2>1. foco \in Alcas /\ slide(foco, Destino(tecla, Valor(foco)))
          /\ UNCHANGED <<min, max, arrastando, handleIndex>>
      BY <1>7 DEF KeyDown
    <2>2. ValoresInv'
      BY <1>1, <2>1, KeysFit, SlideKeepsValues
    <2> QED
      BY <2>1, <2>2 DEF SliderInv
  <1>8. ASSUME KeyUp
        PROVE  SliderInv' /\ UNCHANGED <<min, max>>
    BY <1>3, <1>8 DEF KeyUp, SliderInv
  <1>9. ASSUME NEW i \in Alcas \cup {Nenhuma}, Foca(i)
        PROVE  SliderInv' /\ UNCHANGED <<min, max>>
    BY <1>3, <1>9 DEF Foca, SliderInv
  <1> QED
    BY <1>4, <1>5, <1>6, <1>7, <1>8, <1>9 DEF NoSlider, NoDocumento

----------------------------------------------------------------------------
(* The modal, and the page with it *)

RelatorioInv ==
  TipoLista /\ FundosInv /\ SemCruzarInv /\ SliderInv /\ ModalInv

LEMMA PagesOfTheTable ==
  ASSUME TabelaOK(tabela)
  PROVE  /\ TotalDePaginas \in Numeros /\ (TotalDePaginas # NaN => 1 <= TotalDePaginas)
         /\ tabela # Vazia =>
              /\ TotalDePaginas = getTotalPages(tabela.count)
              /\ TotalDePaginas \in Nat
              /\ MAX_RESULTS * (TotalDePaginas - 1) < tabela.count
PROOF
  <1>1. CASE tabela = Vazia
    BY <1>1 DEF TotalDePaginas, Numeros
  <1>2. CASE tabela # Vazia
    <2>1. tabela.count \in Nat /\ tabela.count > 0
      BY <1>2 DEF TabelaOK, Tabelas
    <2>2. TotalDePaginas = getTotalPages(tabela.count)
      BY <1>2 DEF TotalDePaginas
    <2>3. TotalDePaginas \in Nat /\ TotalDePaginas > 0
          /\ MAX_RESULTS * (TotalDePaginas - 1) < tabela.count
      BY <2>1, <2>2, PagesOfRows
    <2> QED
      BY <1>2, <2>2, <2>3 DEF Numeros
  <1> QED
    BY <1>1, <1>2

LEMMA OpeningKeepsTheSlider ==
  ASSUME TipoLista, SliderInv, AbreRelatorio
  PROVE  SliderInv' /\ ModalInv'
PROOF
  <1>1. ValoresInv /\ ~arrastando /\ 1 \in Int /\ NaN # 1 /\ NaN # 100
    BY NaNIsNoInteger DEF SliderInv, AbreRelatorio
  <1>2. Trim(1) = 1
    <2>1. min \in {0, 1} /\ max \in Numeros /\ (min = 0 => max = 100)
      BY <1>1 DEF ValoresInv
    <2> QED
      BY <1>1, <2>1 DEF Trim
  <1>3. /\ values' = [i \in Alcas |-> 1] /\ min' = 1 /\ max' = TotalDePaginas
        /\ formulario' = [intervalo |-> [i \in Alcas |-> 1], pagina |-> "selecionada"]
        /\ UNCHANGED <<arrastando, handleIndex, listaVars>>
        /\ aberto' = TRUE /\ recarregada' = FALSE
    BY <1>2 DEF AbreRelatorio, setIntervalos, Reinicia, atualizaIntervalos
  <1>4. TotalDePaginas \in Numeros /\ (TotalDePaginas # NaN => 1 <= TotalDePaginas)
    BY PagesOfTheTable DEF TipoLista
  <1>5. \A i \in Alcas : Cabe(values[i])'
    BY <1>1, <1>3, <1>4 DEF Cabe, Numeros
  <1>6. /\ values' \in [Alcas -> Numeros]
        /\ formulario' \in [intervalo : [Alcas -> Numeros], pagina : Opcoes]
        /\ formulario'.intervalo = values'
    BY <1>1, <1>3 DEF Numeros, Opcoes
  <1>7. values'[0] <= values'[1]
    BY <1>3 DEF Alcas
  <1>8. ValoresInv'
    BY <1>3, <1>4, <1>5, <1>6, <1>7 DEF ValoresInv
  <1>9. TotalDePaginas' = TotalDePaginas
    BY <1>3 DEF TotalDePaginas, listaVars
  <1> QED
    BY <1>1, <1>3, <1>8, <1>9 DEF SliderInv, ModalInv

LEMMA TheListStays ==
  ASSUME TipoLista, FundosInv, SemCruzarInv, UNCHANGED listaVars
  PROVE  TipoLista' /\ FundosInv' /\ SemCruzarInv'
PROOF
  <1> USE DEF listaVars
  <1>1. TipoLista'
    BY DEF TipoLista, TabelaOK
  <1>2. FundosInv'
    BY DEF FundosInv, EmVoo
  <1>3. SemCruzarInv'
    BY DEF SemCruzarInv, EmOrdem, UmPedido, LinhaDaTabela, PerguntaCabe, TabelaEmDia,
           TemLinhas, Excluindo, BuscaAtual
  <1> QED
    BY <1>1, <1>2, <1>3

LEMMA TheSliderStays ==
  ASSUME SliderInv, UNCHANGED <<values, min, max, arrastando, handleIndex>>,
         formulario'.intervalo = formulario.intervalo,
         formulario' \in [intervalo : [Alcas -> Numeros], pagina : Opcoes]
  PROVE  SliderInv'
  BY DEF SliderInv, ValoresInv, Cabe

LEMMA RelatorioInit ==
  ASSUME Init
  PROVE  RelatorioInv
  BY TipoListaInit, FundosInit, SemCruzarInit, SliderInitInv DEF Init, RelatorioInv, ModalInv

LEMMA RelatorioStep ==
  ASSUME RelatorioInv, [Next]_vars
  PROVE  RelatorioInv'
PROOF
  <1> USE DEF RelatorioInv
  <1>0. formulario \in [intervalo : [Alcas -> Numeros], pagina : Opcoes]
    BY DEF SliderInv, ValoresInv
  <1>1. UNCHANGED <<tabela, min, max, aberto, recarregada>> => ModalInv'
    BY DEF ModalInv, TotalDePaginas
  <1>2. CASE Lista
    <2>1. ListaNext
      BY <1>2 DEF Lista, ListaNext
    <2>2. TipoLista' /\ FundosInv' /\ SemCruzarInv'
      BY <2>1, TipoListaStep, FundosStep, SemCruzarStep DEF TipoLista
    <2>3. UNCHANGED <<values, min, max, arrastando, handleIndex, formulario, aberto>>
          /\ recarregada' = (recarregada \/ tabela' # tabela)
      BY <1>2 DEF Lista, sliderVars
    <2>4. SliderInv'
      BY <1>0, <2>3, TheSliderStays
    <2>5. ModalInv'
      BY <2>3 DEF ModalInv, TotalDePaginas
    <2> QED
      BY <2>2, <2>4, <2>5
  <1>3. CASE AbreRelatorio
    <2>1. UNCHANGED listaVars
      BY <1>3 DEF AbreRelatorio
    <2> QED
      BY <1>3, <2>1, OpeningKeepsTheSlider, TheListStays
  <1>4. CASE Desliza
    <2>1. (NoSlider \/ NoDocumento) /\ UNCHANGED <<listaVars, aberto, recarregada>>
      BY <1>4 DEF Desliza, relatorioVars
    <2>2. SliderInv' /\ UNCHANGED <<min, max>>
      BY <2>1, SliderStep
    <2>3. UNCHANGED tabela
      BY <2>1 DEF listaVars
    <2> QED
      BY <1>1, <2>1, <2>2, <2>3, TheListStays
  <1>5. ASSUME NEW opcao \in Opcoes, Escolhe(opcao)
        PROVE  RelatorioInv'
    <2>1. UNCHANGED <<values, min, max, arrastando, handleIndex, listaVars, aberto, recarregada>>
          /\ formulario' = [formulario EXCEPT !.pagina = opcao]
      BY <1>5 DEF Escolhe, relatorioVars
    <2>2. formulario'.intervalo = formulario.intervalo
          /\ formulario' \in [intervalo : [Alcas -> Numeros], pagina : Opcoes]
      BY <1>0, <2>1
    <2>3. UNCHANGED tabela
      BY <2>1 DEF listaVars
    <2> QED
      BY <1>1, <2>1, <2>2, <2>3, TheSliderStays, TheListStays
  <1>6. CASE Gera
    <2>1. UNCHANGED <<values, min, max, arrastando, handleIndex, formulario, listaVars>>
          /\ aberto' = FALSE /\ recarregada' = recarregada
      BY <1>6 DEF Gera, Fecha
    <2>2. SliderInv'
      BY <1>0, <2>1, TheSliderStays
    <2>3. ModalInv'
      BY <2>1 DEF ModalInv
    <2> QED
      BY <2>1, <2>2, <2>3, TheListStays
  <1>7. CASE UNCHANGED vars
    <2>1. UNCHANGED <<values, min, max, arrastando, handleIndex, formulario, listaVars,
                      tabela, aberto, recarregada>>
      BY <1>7 DEF vars, sliderVars, relatorioVars, listaVars
    <2>2. SliderInv'
      BY <1>0, <2>1, TheSliderStays
    <2> QED
      BY <1>1, <2>1, <2>2, TheListStays
  <1> QED
    BY <1>2, <1>3, <1>4, <1>5, <1>6, <1>7 DEF Next

LEMMA RelatorioCorrect == Spec => []RelatorioInv
PROOF
  <1>1. Init => RelatorioInv
    BY RelatorioInit
  <1>2. RelatorioInv /\ [Next]_vars => RelatorioInv'
    BY RelatorioStep
  <1> QED
    BY <1>1, <1>2, PTL DEF Spec

LEMMA ModalSafe ==
  ASSUME RelatorioInv
  PROVE  IntervaloConfere
PROOF
  <1>1. ValoresInv
    BY DEF RelatorioInv, SliderInv
  <1>2. Valor(0) = values[0] /\ Valor(1) = values[1] /\ Valores = values
    BY <1>1, ReadAsWritten DEF Alcas
  <1>3. aberto => min = 1
    BY DEF RelatorioInv, ModalInv
  <1>4. max # NaN => values[0] \in min..max /\ values[1] \in min..max /\ values[0] <= values[1]
    BY <1>1 DEF ValoresInv, Cabe, Alcas
  <1> QED
    BY <1>1, <1>2, <1>3, <1>4 DEF ValoresInv, IntervaloConfere

LEMMA ReportSafe ==
  ASSUME RelatorioInv
  PROVE  RelatorioDaTabela
PROOF
  <1> SUFFICES ASSUME aberto, ~recarregada, tabela # Vazia
               PROVE  /\ Pedido.primeira < tabela.count \/ formulario.pagina = "atual"
                      /\ formulario.pagina = "selecionada" =>
                           Pedido.primeira + Pedido.tamanho
                             <= MAX_RESULTS * getTotalPages(tabela.count)
    BY DEF RelatorioDaTabela
  <1> DEFINE a == Valor(0)
             b == Valor(1)
             total == getTotalPages(tabela.count)
  <1> USE PageSize
  <1>1. ValoresInv /\ TabelaOK(tabela) /\ max = TotalDePaginas /\ min = 1
    BY DEF RelatorioInv, SliderInv, TipoLista, ModalInv
  <1>2. /\ max = total /\ total \in Nat /\ tabela.count \in Nat /\ tabela.count > 0
        /\ MAX_RESULTS * (total - 1) < tabela.count
    BY <1>1, PagesOfTheTable DEF TabelaOK, Tabelas
  <1>3. a = values[0] /\ b = values[1]
    BY <1>1, ReadAsWritten DEF Alcas
  <1>4. a \in 1..total /\ b \in 1..total /\ a <= b /\ a # NaN /\ b # NaN
    <2>1. max # NaN
      BY <1>2, NaNIsNoInteger
    <2>2. values[0] \in min..max /\ values[1] \in min..max /\ values[0] <= values[1]
      BY <1>1, <2>1 DEF ValoresInv, Cabe, Alcas
    <2> HIDE DEF a, b, total
    <2> QED
      BY <1>1, <1>2, <1>3, <2>2, NaNIsNoInteger
  <1>5. formulario.pagina \in Opcoes
    BY <1>1 DEF ValoresInv
  <1>6. formulario.pagina = "todas" => Pedido.primeira = 0
    BY DEF Pedido
  <1>7. formulario.pagina = "selecionada" =>
          /\ Pedido.primeira = (a - 1) * MAX_RESULTS
          /\ Pedido.tamanho = (b - a + 1) * MAX_RESULTS
    BY <1>4 DEF Pedido, getPageFirst, getPageSize
  <1> HIDE DEF a, b, total
  <1>8. (a - 1) * MAX_RESULTS < tabela.count
    <2>1. MAX_RESULTS * (a - 1) <= MAX_RESULTS * (total - 1)
      BY <1>2, <1>4, Multiples
    <2>2. (a - 1) * MAX_RESULTS = MAX_RESULTS * (a - 1)
      BY <1>4
    <2> QED
      BY <1>2, <1>4, <2>1, <2>2
  <1>9. (a - 1) * MAX_RESULTS + (b - a + 1) * MAX_RESULTS <= MAX_RESULTS * total
    <2>1. (a - 1) * MAX_RESULTS + (b - a + 1) * MAX_RESULTS = MAX_RESULTS * b
      BY <1>4
    <2>2. MAX_RESULTS * b <= MAX_RESULTS * total
      BY <1>2, <1>4, Multiples
    <2> QED
      BY <2>1, <2>2
  <1> QED
    BY <1>2, <1>5, <1>6, <1>7, <1>8, <1>9 DEF Opcoes, total

----------------------------------------------------------------------------
(* Theorems *)

\* Whoever deletes the last row of the last page is shown the page before it: a
\* table is never shown without rows while no requests cross and no answer is
\* lost (loadTable, getDataTableOffset).
THEOREM PagesKeepRows == Spec => []PaginaComLinhas
  BY RelatorioCorrect, SemCruzarSafe, PTL DEF RelatorioInv

\* Once every request is complete no backdrop of Carregando covers the page,
\* unless it was shown again while it disappeared (ajaxSend, ajaxComplete).
THEOREM PageIsFree == Spec => []PaginaLivre
  BY RelatorioCorrect, FundosSafe, PTL DEF RelatorioInv

\* However keys and mouse move the handles at once, in the open modal they are
\* in order, within the pages, and where its text says (_slide, slide).
THEOREM RangeIsShown == Spec => []IntervaloConfere
  BY RelatorioCorrect, ModalSafe, PTL

\* The rows a report is asked for are of the table the page shows, unless it
\* was replaced after the modal was opened (getPageFirst, getPageSize).
THEOREM ReportOfTheTable == Spec => []RelatorioDaTabela
  BY RelatorioCorrect, ReportSafe, PTL

=============================================================================
