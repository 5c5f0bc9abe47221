--------------------------- MODULE CalendarioProofs ---------------------------
(***************************************************************************)
(* Theorems of the calendar of Componentes, for any fields, months, limits *)
(* and texts.                                                              *)
(***************************************************************************)
EXTENDS Componentes, WellFoundedInduction, TLAPS

----------------------------------------------------------------------------
(* Dates *)

Meses == 1..Len(Dias)
Fins == 1..Len(Dias) + 1

\* What a field may offer: not the first month, nor the last.
Oferta == Antes[2] + 1..Antes[Len(Dias)]
MesesDaOferta == 2..Len(Dias) - 1

TodosOsDias == 1..Antes[Len(Dias) + 1]

LEMMA MonthsHaveDays ==
  /\ Len(Dias) \in Nat /\ Len(Dias) > 2
  /\ \A m \in Meses : Dias[m] \in Nat /\ Dias[m] > 0
  BY ConstantesDoCalendario DEF Meses

\* Up to any month the days before it can be counted.
LEMMA DaysAreCounted ==
  /\ Antes \in [Fins -> Nat] /\ Antes[1] = 0
  /\ \A m \in Meses : Antes[m + 1] = Antes[m] + Dias[m]
PROOF
  <1> USE MonthsHaveDays
  <1> DEFINE Conta(g, k) == \A m \in 1..k : g[m + 1] = g[m] + Dias[m]
             Certa(g, k) == g \in [1..k + 1 -> Nat] /\ g[1] = 0 /\ Conta(g, k)
             Erradas == {k \in 0..Len(Dias) : ~\E g \in [1..k + 1 -> Nat] : Certa(g, k)}
  <1>1. Erradas = {}
    <2> SUFFICES ASSUME Erradas # {} PROVE FALSE
      OBVIOUS
    <2>1. PICK k \in Erradas : \A j \in Erradas : ~(<<j, k>> \in OpToRel(<, Nat))
      <3>1. Erradas \subseteq Nat
        OBVIOUS
      <3> HIDE DEF Erradas
      <3> QED
        BY <3>1, NatLessThanWellFounded, WFMin
    <2>2. k \in 0..Len(Dias) /\ ~\E g \in [1..k + 1 -> Nat] : Certa(g, k)
      OBVIOUS
    <2>3. k # 0
      <3> SUFFICES ASSUME k = 0 PROVE FALSE
        OBVIOUS
      <3> DEFINE g == [m \in 1..0 + 1 |-> 0]
      <3>1. g \in [1..0 + 1 -> Nat] /\ g[1] = 0
        OBVIOUS
      <3>2. Certa(g, 0)
        BY <3>1
      <3> QED
        BY <2>2, <3>1, <3>2
    <2>4. k - 1 \in Nat /\ k - 1 < k /\ k \in Nat
      BY <2>2, <2>3
    <2>5. <<k - 1, k>> \in OpToRel(<, Nat)
      BY <2>4 DEF OpToRel
    <2>6. k - 1 \notin Erradas
      BY <2>1, <2>5
    <2>7. PICK g \in [1..(k - 1) + 1 -> Nat] : Certa(g, k - 1)
      BY <2>2, <2>4, <2>6
    <2> DEFINE h == [m \in 1..k + 1 |-> IF m <= k THEN g[m] ELSE g[k] + Dias[k]]
    <2>8. g \in [1..k -> Nat] /\ k \in Meses /\ g[1] = 0 /\ \A m \in 1..k - 1 : g[m + 1] = g[m] + Dias[m]
      BY <2>2, <2>4, <2>7 DEF Meses
    <2>9. h \in [1..k + 1 -> Nat] /\ h[1] = 0
      BY <2>4, <2>8
    <2>10. \A m \in 1..k : h[m + 1] = h[m] + Dias[m]
      BY <2>4, <2>8
    <2> QED
      BY <2>2, <2>9, <2>10
  <1>2. PICK g \in [1..Len(Dias) + 1 -> Nat] : Certa(g, Len(Dias))
    <2>1. Len(Dias) \in 0..Len(Dias) /\ Len(Dias) \notin Erradas
      BY <1>1
    <2> QED
      BY <2>1
  <1> DEFINE Somando(f) == [m \in 1..Len(Dias) + 1 |-> IF m = 1 THEN 0 ELSE f[m - 1] + Dias[m - 1]]
  <1>3. g = Somando(g)
    <2>1. ASSUME NEW m \in 1..Len(Dias) + 1 PROVE g[m] = Somando(g)[m]
      <3>1. CASE m = 1
        BY <1>2, <3>1
      <3>2. CASE m # 1
        <4>1. m - 1 \in 1..Len(Dias) /\ (m - 1) + 1 = m
          BY <3>2
        <4>2. g[(m - 1) + 1] = g[m - 1] + Dias[m - 1]
          BY <1>2, <4>1
        <4> QED
          BY <3>2, <4>1, <4>2
      <3> QED
        BY <3>1, <3>2
    <2> QED
      BY <1>2, <2>1
  <1>4. Antes = Somando(Antes)
    <2>1. Antes = CHOOSE f : f = Somando(f)
      BY Zenon DEF Antes
    <2> HIDE DEF Somando
    <2> QED
      BY <1>3, <2>1
  <1> HIDE DEF Somando
  <1>5. /\ DOMAIN Antes = Fins /\ Antes = [m \in Fins |-> Antes[m]] /\ Antes[1] = 0
        /\ \A m \in Meses : Antes[m + 1] = Antes[m] + Dias[m]
    <2>1. Antes = [m \in Fins |-> IF m = 1 THEN 0 ELSE Antes[m - 1] + Dias[m - 1]]
      BY <1>4 DEF Somando, Fins
    <2>2. ASSUME NEW m \in Meses PROVE Antes[m + 1] = Antes[m] + Dias[m]
      <3>1. m + 1 \in Fins /\ m + 1 # 1 /\ (m + 1) - 1 = m
        BY DEF Meses, Fins
      <3> HIDE DEF Fins
      <3>2. Antes[m + 1] = Antes[(m + 1) - 1] + Dias[(m + 1) - 1]
        BY <2>1, <3>1
      <3> QED
        BY <3>1, <3>2
    <2>3. 1 \in Fins
      BY DEF Fins
    <2> HIDE DEF Fins
    <2> QED
      BY <2>1, <2>2, <2>3
  <1>6. \A m \in Fins : Antes[m] \in Nat
    <2> DEFINE Sem == {m \in Fins : Antes[m] \notin Nat}
    <2> SUFFICES ASSUME Sem # {} PROVE FALSE
      OBVIOUS
    <2>1. PICK k \in Sem : \A j \in Sem : ~(<<j, k>> \in OpToRel(<, Nat))
      <3>1. Sem \subseteq Nat
        BY DEF Fins
      <3> HIDE DEF Sem
      <3> QED
        BY <3>1, NatLessThanWellFounded, WFMin
    <2>2. k \in Fins /\ Antes[k] \notin Nat /\ k # 1
      BY <1>5
    <2>3. k - 1 \in Meses /\ k - 1 \in Fins /\ (k - 1) + 1 = k /\ k - 1 \in Nat /\ k \in Nat /\ k - 1 < k
      BY <2>2 DEF Fins, Meses
    <2>4. <<k - 1, k>> \in OpToRel(<, Nat)
      BY <2>3 DEF OpToRel
    <2>5. Antes[k - 1] \in Nat
      BY <2>1, <2>3, <2>4
    <2>6. Antes[(k - 1) + 1] = Antes[k - 1] + Dias[k - 1]
      BY <1>5, <2>3
    <2> QED
      BY <2>2, <2>3, <2>5, <2>6
  <1> QED
    BY <1>5, <1>6

\* Later months begin later.
LEMMA DaysGrow ==
  \A m, k \in Fins : m < k => Antes[m] < Antes[k]
PROOF
  <1> USE MonthsHaveDays
  <1> SUFFICES ASSUME NEW m \in Fins PROVE \A k \in Fins : m < k => Antes[m] < Antes[k]
    OBVIOUS
  <1> DEFINE Cedo == {k \in Fins : m < k /\ ~(Antes[m] < Antes[k])}
  <1> SUFFICES ASSUME Cedo # {} PROVE FALSE
    OBVIOUS
  <1>1. PICK k \in Cedo : \A j \in Cedo : ~(<<j, k>> \in OpToRel(<, Nat))
    <2>1. Cedo \subseteq Nat
      BY DEF Fins
    <2> HIDE DEF Cedo
    <2> QED
      BY <2>1, NatLessThanWellFounded, WFMin
  <1>2. /\ k \in Fins /\ k - 1 \in Fins /\ k - 1 \in Meses /\ (k - 1) + 1 = k /\ m <= k - 1
        /\ k \in Nat /\ k - 1 \in Nat /\ k - 1 < k
    BY DEF Fins, Meses
  <1>3. Antes[k] = Antes[k - 1] + Dias[k - 1] /\ Antes[k] \in Nat /\ Antes[k - 1] \in Nat
    BY <1>2, DaysAreCounted
  <1>4. Antes[k - 1] < Antes[k]
    BY <1>2, <1>3
  <1>5. m # k - 1 /\ ~(Antes[m] < Antes[k - 1])
    BY <1>3, <1>4, <1>2, DaysAreCounted
  <1>6. <<k - 1, k>> \in OpToRel(<, Nat)
    BY <1>2 DEF OpToRel
  <1>7. m < k - 1 /\ m \in Nat
    BY <1>2, <1>5 DEF Fins
  <1>8. k - 1 \in Cedo
    BY <1>2, <1>5, <1>7
  <1> QED
    BY <1>1, <1>6, <1>8

\* Every day is in one month.
LEMMA DayHasMonth ==
  ASSUME NEW n \in TodosOsDias
  PROVE  /\ MesDe(n) \in Meses /\ Antes[MesDe(n)] < n /\ n <= Antes[MesDe(n) + 1]
         /\ \A m \in Meses : Antes[m] < n /\ n <= Antes[m + 1] => MesDe(n) = m
PROOF
  <1> USE MonthsHaveDays
  <1> DEFINE Ate == {k \in Fins : n <= Antes[k]}
  <1>0. Len(Dias) + 1 \in Ate
    BY DEF Fins, TodosOsDias
  <1>1. PICK k \in Ate : \A j \in Ate : ~(<<j, k>> \in OpToRel(<, Nat))
    <2>1. Ate \subseteq Nat
      BY DEF Fins
    <2> HIDE DEF Ate
    <2> QED
      BY <1>0, <2>1, NatLessThanWellFounded, WFMin
  <1>2. k \in Fins /\ n <= Antes[k] /\ n > 0 /\ n \in Nat
    BY DaysAreCounted DEF Fins, TodosOsDias
  <1>3. k # 1
    BY <1>2, DaysAreCounted
  <1>4. k - 1 \in Meses /\ k - 1 \in Fins /\ (k - 1) + 1 = k /\ k - 1 \in Nat /\ k \in Nat /\ k - 1 < k
    BY <1>2, <1>3 DEF Fins, Meses
  <1>5. <<k - 1, k>> \in OpToRel(<, Nat)
    BY <1>4 DEF OpToRel
  <1>6. ~(n <= Antes[k - 1])
    BY <1>1, <1>4, <1>5
  <1>7. Antes[k - 1] < n /\ n <= Antes[(k - 1) + 1]
    BY <1>2, <1>4, <1>6, DaysAreCounted
  <1>8. MesDe(n) \in Meses /\ Antes[MesDe(n)] < n /\ n <= Antes[MesDe(n) + 1]
    BY <1>4, <1>7 DEF MesDe, Meses
  <1>9. ASSUME NEW m \in Meses, NEW p \in Meses,
               Antes[m] < n, n <= Antes[m + 1], Antes[p] < n, n <= Antes[p + 1]
        PROVE  ~(m < p)
    <2> SUFFICES ASSUME m < p PROVE FALSE
      OBVIOUS
    <2>1. m + 1 \in Fins /\ p \in Fins /\ (m + 1 = p \/ m + 1 < p)
      BY DEF Meses, Fins
    <2>2. Antes[m + 1] <= Antes[p] /\ Antes[m + 1] \in Nat /\ Antes[p] \in Nat
      BY <2>1, DaysGrow, DaysAreCounted
    <2> QED
      BY <1>2, <1>9, <2>2
  <1>10. ASSUME NEW m \in Meses, Antes[m] < n, n <= Antes[m + 1] PROVE MesDe(n) = m
    <2>1. ~(m < MesDe(n)) /\ ~(MesDe(n) < m)
      BY <1>8, <1>9, <1>10
    <2> QED
      BY <1>8, <2>1 DEF Meses
  <1> QED
    BY <1>8, <1>10

LEMMA PairOfDay ==
  ASSUME NEW n \in TodosOsDias
  PROVE  /\ Par(n).m = MesDe(n) /\ Par(n).m \in Meses /\ Par(n).d \in Nat \ {0}
         /\ Par(n) \in [m : Meses, d : Nat \ {0}]
         /\ Par(n).d <= Dias[Par(n).m] /\ Data(Par(n).m, Par(n).d) = n
PROOF
  <1> DEFINE k == MesDe(n)
  <1>1. k \in Meses /\ Antes[k] < n /\ n <= Antes[k + 1] /\ n \in Nat
    BY DayHasMonth, DaysAreCounted, MonthsHaveDays DEF TodosOsDias
  <1>2. Antes[k] \in Nat /\ Antes[k + 1] = Antes[k] + Dias[k] /\ Dias[k] \in Nat
    BY <1>1, DaysAreCounted, MonthsHaveDays DEF Meses, Fins
  <1>3. Par(n) = [m |-> k, d |-> n - Antes[k]]
    BY DEF Par
  <1> HIDE DEF k
  <1>4. Par(n).m = k /\ Par(n).d = n - Antes[k]
    BY <1>3
  <1>5. n - Antes[k] \in Nat \ {0} /\ n - Antes[k] <= Dias[k] /\ Antes[k] + (n - Antes[k]) = n
    BY <1>1, <1>2
  <1> QED
    BY <1>1, <1>3, <1>4, <1>5 DEF k, Data

LEMMA DayOfPair ==
  ASSUME NEW m \in Meses, NEW d \in Nat
  PROVE  /\ Data(m, d) \in Nat /\ Data(m, d) = Antes[m] + d /\ Antes[m] \in Nat
         /\ d \in 1..Dias[m] => Data(m, d) \in TodosOsDias /\ MesDe(Data(m, d)) = m
PROOF
  <1> USE MonthsHaveDays
  <1>1. m \in Fins /\ m + 1 \in Fins /\ Len(Dias) + 1 \in Fins /\ (m + 1 = Len(Dias) + 1 \/ m + 1 < Len(Dias) + 1)
    BY DEF Meses, Fins
  <1>2. /\ Antes[m] \in Nat /\ Antes[m + 1] \in Nat /\ Antes[Len(Dias) + 1] \in Nat
        /\ Antes[m + 1] = Antes[m] + Dias[m] /\ Antes[m + 1] <= Antes[Len(Dias) + 1]
    BY <1>1, DaysAreCounted, DaysGrow
  <1>3. Data(m, d) = Antes[m] + d
    BY DEF Data
  <1>4. ASSUME d \in 1..Dias[m] PROVE Data(m, d) \in TodosOsDias /\ MesDe(Data(m, d)) = m
    <2>1. Data(m, d) \in TodosOsDias /\ Antes[m] < Data(m, d) /\ Data(m, d) <= Antes[m + 1]
      BY <1>2, <1>3, <1>4 DEF TodosOsDias
    <2> QED
      BY <2>1, DayHasMonth
  <1> QED
    BY <1>2, <1>3, <1>4

\* What a field may offer has a month before it and one after it.
LEMMA OfferedDay ==
  ASSUME NEW n \in Oferta
  PROVE  n \in TodosOsDias /\ n \in Nat /\ MesDe(n) \in MesesDaOferta /\ MesDe(n) \in Meses
PROOF
  <1> USE MonthsHaveDays
  <1>1. /\ 1 \in Fins /\ 2 \in Fins /\ Len(Dias) \in Fins /\ Len(Dias) + 1 \in Fins
        /\ 1 \in Meses /\ Len(Dias) \in Meses
    BY DEF Fins, Meses
  <1>2. /\ Antes[2] \in Nat /\ Antes[Len(Dias)] \in Nat /\ Antes[Len(Dias) + 1] \in Nat
        /\ Antes[Len(Dias)] < Antes[Len(Dias) + 1]
    BY <1>1, DaysAreCounted, DaysGrow
  <1>3. n \in TodosOsDias /\ n \in Nat /\ Antes[2] < n /\ n <= Antes[Len(Dias)]
    BY <1>2 DEF Oferta, TodosOsDias
  <1>4. MesDe(n) \in Meses /\ Antes[MesDe(n)] < n /\ n <= Antes[MesDe(n) + 1]
    BY <1>3, DayHasMonth
  <1>5. MesDe(n) # 1 /\ MesDe(n) # Len(Dias)
    BY <1>2, <1>3, <1>4
  <1> QED
    BY <1>3, <1>4, <1>5 DEF Meses, MesesDaOferta

\* A day of one month in another one that is offered runs over the end at most
\* into the last month.
LEMMA DayRunsOver ==
  ASSUME NEW m \in MesesDaOferta, NEW k \in Meses, NEW d \in 1..Dias[k]
  PROVE  Data(m, d) \in TodosOsDias /\ m \in Meses
PROOF
  <1> USE MonthsHaveDays
  <1>1. /\ m \in Meses /\ m \in Fins /\ Len(Dias) - 1 \in Fins /\ Len(Dias) - 1 \in Meses /\ Len(Dias) \in Meses
        /\ Len(Dias) \in Fins /\ Len(Dias) + 1 \in Fins /\ (m = Len(Dias) - 1 \/ m < Len(Dias) - 1)
        /\ (Len(Dias) - 1) + 1 = Len(Dias)
    BY DEF MesesDaOferta, Meses, Fins
  <1>2. /\ Antes[m] \in Nat /\ Antes[Len(Dias) - 1] \in Nat /\ Antes[m] <= Antes[Len(Dias) - 1]
        /\ Antes[Len(Dias)] = Antes[Len(Dias) - 1] + Dias[Len(Dias) - 1]
        /\ Antes[Len(Dias) + 1] = Antes[Len(Dias)] + Dias[Len(Dias)]
    <2>1. Antes[(Len(Dias) - 1) + 1] = Antes[Len(Dias) - 1] + Dias[Len(Dias) - 1]
      BY <1>1, DaysAreCounted
    <2> QED
      BY <1>1, <2>1, DaysAreCounted, DaysGrow
  <1>3. Dias[k] <= Dias[Len(Dias) - 1] + Dias[Len(Dias)] /\ Dias[k] \in Nat
        /\ Dias[Len(Dias) - 1] \in Nat /\ Dias[Len(Dias)] \in Nat
    BY <1>1, ConstantesDoCalendario DEF Meses
  <1>4. d \in Nat /\ 1 <= d /\ d <= Dias[k] /\ Data(m, d) = Antes[m] + d
    BY <1>3 DEF Data
  <1>5. Data(m, d) \in Nat /\ 1 <= Data(m, d) /\ Data(m, d) <= Antes[Len(Dias) + 1]
    <2> DEFINE inicio == Antes[m]
               fim == Antes[Len(Dias) + 1]
               base == Antes[Len(Dias) - 1]
               p == Dias[Len(Dias) - 1]
               q == Dias[Len(Dias)]
               x == Data(m, d)
    <2>1. /\ inicio \in Nat /\ base \in Nat /\ p \in Nat /\ q \in Nat /\ d \in Nat /\ 1 <= d
          /\ inicio <= base /\ fim = (base + p) + q /\ x = inicio + d
      BY <1>2, <1>3, <1>4
    <2>2. Dias[k] \in Nat /\ d <= Dias[k] /\ Dias[k] <= p + q
      BY <1>3, <1>4
    <2>3. d <= p + q
      <3> HIDE DEF p, q
      <3> QED
        BY <2>1, <2>2
    <2> HIDE DEF inicio, fim, base, p, q, x
    <2>4. x \in Nat /\ 1 <= x /\ x <= fim /\ fim \in Nat
      BY <2>1, <2>3
    <2> QED
      BY <2>4 DEF x, fim
  <1>6. Antes[Len(Dias) + 1] \in Nat
    BY <1>1, DaysAreCounted
  <1> QED
    BY <1>1, <1>5, <1>6 DEF TodosOsDias

----------------------------------------------------------------------------
(* Limits *)

LimitesPossiveis == UNION {Limites[i] : i \in Campos}

LEMMA LimitsOffered ==
  /\ Hoje \in Oferta
  /\ \A l \in LimitesPossiveis : l[1] \in Oferta /\ l[2] \in Oferta /\ l[1] <= l[2]
  /\ \A i \in Campos : \A l \in Limites[i] : l \in LimitesPossiveis
PROOF
  <1>1. \A n \in {Hoje} \cup UNION {{l[1], l[2]} : l \in LimitesPossiveis} : n \in Oferta
    BY ConstantesDoCalendario DEF Oferta, LimitesPossiveis
  <1>2. \A i \in Campos : \A l \in Limites[i] : l[1] <= l[2]
    BY ConstantesDoCalendario
  <1>3. ASSUME NEW l \in LimitesPossiveis PROVE l[1] \in Oferta /\ l[2] \in Oferta /\ l[1] <= l[2]
    <2>1. {l[1], l[2]} \in {{k[1], k[2]} : k \in LimitesPossiveis}
      OBVIOUS
    <2>2. l[1] \in Oferta /\ l[2] \in Oferta
      BY <1>1, <2>1
    <2> QED
      BY <1>2, <2>2 DEF LimitesPossiveis
  <1> QED
    BY <1>1, <1>3 DEF LimitesPossiveis

LEMMA OfferedNumbers == \A n \in Oferta : n \in Nat
  BY OfferedDay

\* What is restricted to the limits of a field is in them.
LEMMA Restricted ==
  ASSUME NEW w, NEW i \in Campos, w.limite[i] \in LimitesPossiveis, NEW n \in Int
  PROVE  /\ _restrictMinMax(w, i, n) \in w.limite[i][1]..w.limite[i][2]
         /\ _restrictMinMax(w, i, n) \in Oferta
         /\ n \in w.limite[i][1]..w.limite[i][2] => _restrictMinMax(w, i, n) = n
PROOF
  <1> DEFINE l == w.limite[i]
  <1>1. l[1] \in Oferta /\ l[2] \in Oferta /\ l[1] <= l[2] /\ l[1] \in Nat /\ l[2] \in Nat
    BY LimitsOffered, OfferedNumbers
  <1>2. \A k \in l[1]..l[2] : k \in Oferta
    <2>1. Antes[2] \in Nat /\ Antes[Len(Dias)] \in Nat
      BY DaysAreCounted, MonthsHaveDays DEF Fins
    <2> QED
      BY <1>1, <2>1 DEF Oferta
  <1>3. _restrictMinMax(w, i, n) = IF n < l[1] THEN l[1] ELSE IF n > l[2] THEN l[2] ELSE n
    BY DEF _restrictMinMax
  <1> HIDE DEF l
  <1>4. _restrictMinMax(w, i, n) \in l[1]..l[2] /\ (n \in l[1]..l[2] => _restrictMinMax(w, i, n) = n)
    BY <1>1, <1>3
  <1> QED
    BY <1>2, <1>4 DEF l

----------------------------------------------------------------------------
(* The calendar and its fields *)

CamposOuNenhum == Campos \cup {Nenhum}
Conteudos == [campo : CamposOuNenhum, mes : Meses, over : Int, atual : Int, dias : SUBSET TodosOsDias]
Selecoes == [Campos -> [m : Meses, d : Nat \ {0}]]
Correntes == [Campos -> {0} \cup TodosOsDias]
Textos == [Campos -> {-1, 0} \cup TodosOsDias]
Lidos == [Campos -> {-2, -1, 0} \cup TodosOsDias]
Marcas == [Campos -> BOOLEAN]
LimitesDosCampos == [Campos -> LimitesPossiveis]
ConjuntosDeCampos == SUBSET Campos

TipoDoCalendario ==
  [showing : BOOLEAN, curInst : CamposOuNenhum, lastInput : CamposOuNenhum,
   disabledInputs : ConjuntosDeCampos, conteudo : Conteudos, sel : Selecoes, curr : Correntes,
   keyEvent : Marcas, lastVal : Lidos, limite : LimitesDosCampos, texto : Textos,
   foco : CamposOuNenhum, errada : BOOLEAN, retipado : Marcas]

\* A selection leaves room for a month before it and one after it.
ComMesAoLado(w) == \A i \in Campos : w.sel[i].m \in MesesDaOferta

\* The date of a field that was read last is its text.
EmDia(w) ==
  \A i \in Campos : w.texto[i] > 0 /\ w.texto[i] = w.lastVal[i] /\ ~w.retipado[i] => w.curr[i] = w.texto[i]

CamposOK(w) == w \in TipoDoCalendario /\ ComMesAoLado(w) /\ EmDia(w)

\* What is drawn is of some field, and its days of one month.
Desenhado(c) ==
  /\ c.campo \in Campos /\ c.mes \in MesesDaOferta
  /\ \A n \in c.dias : n \in Oferta /\ MesDe(n) = c.mes

Aberto(w) ==
  /\ w.showing <=> w.lastInput # Nenhum
  /\ w.showing => w.lastInput = w.curInst /\ Desenhado(w.conteudo)

CalendarioOK(w) == CamposOK(w) /\ Aberto(w)

\* The selection is a day of its month that the field may offer.
SelecaoOK(w, i) ==
  /\ w.sel[i].d <= Dias[w.sel[i].m]
  /\ Data(w.sel[i].m, w.sel[i].d) \in w.limite[i][1]..w.limite[i][2]

\* The open calendar is drawn for the field it was opened for, as that now is.
Fiel(w) ==
  w.showing =>
    LET i == w.curInst IN
    /\ w.conteudo.campo = i /\ w.foco \in {Nenhum, i} /\ i \notin w.disabledInputs
    /\ w.conteudo.mes = w.sel[i].m /\ SelecaoOK(w, i)
    /\ \A n \in w.conteudo.dias : n \in w.limite[i][1]..w.limite[i][2]

\* What a change of one field leaves alone.
MesmaPagina(v, w) ==
  /\ w.showing = v.showing /\ w.curInst = v.curInst /\ w.lastInput = v.lastInput
  /\ w.disabledInputs = v.disabledInputs /\ w.conteudo = v.conteudo /\ w.foco = v.foco
  /\ w.errada = v.errada /\ w.keyEvent = v.keyEvent

LEMMA SamePageOpen ==
  ASSUME NEW v, NEW w, MesmaPagina(v, w), Aberto(v)
  PROVE  Aberto(w)
  BY DEF MesmaPagina, Aberto

\* A selection that is written.
LEMMA SelectionWritten ==
  ASSUME NEW w, w \in TipoDoCalendario, NEW i \in Campos, NEW p \in [m : Meses, d : Nat \ {0}]
  PROVE  LET v == [w EXCEPT !.sel[i] = p] IN
         /\ v \in TipoDoCalendario /\ MesmaPagina(w, v)
         /\ v.sel[i] = p /\ \A j \in Campos : j # i => v.sel[j] = w.sel[j]
         /\ v.curr = w.curr /\ v.lastVal = w.lastVal /\ v.limite = w.limite /\ v.texto = w.texto
         /\ v.retipado = w.retipado
PROOF
  <1> DEFINE v == [w EXCEPT !.sel[i] = p]
  <1>1. w.sel \in Selecoes
    BY DEF TipoDoCalendario
  <1>2. [w.sel EXCEPT ![i] = p] \in Selecoes
    BY <1>1 DEF Selecoes
  <1>3. v.sel = [w.sel EXCEPT ![i] = p]
    BY DEF TipoDoCalendario
  <1>4. v \in TipoDoCalendario
    BY <1>2 DEF TipoDoCalendario
  <1>5. MesmaPagina(w, v)
    BY DEF TipoDoCalendario, MesmaPagina
  <1>6. v.sel[i] = p /\ \A j \in Campos : j # i => v.sel[j] = w.sel[j]
    BY <1>1, <1>3 DEF Selecoes
  <1>7. /\ v.curr = w.curr /\ v.lastVal = w.lastVal /\ v.limite = w.limite /\ v.texto = w.texto
        /\ v.retipado = w.retipado
    BY DEF TipoDoCalendario
  <1> QED
    BY <1>4, <1>5, <1>6, <1>7

\* A step of months and days ends at a day of the limits.
LEMMA Adjusted ==
  ASSUME NEW w, w \in TipoDoCalendario, NEW i \in Campos, NEW meses \in {-1, 0, 1}, NEW dias \in {-1, 0, 1},
         w.sel[i].m + meses \in Meses,
         \A j \in Campos : j # i => w.sel[j].m \in MesesDaOferta
  PROVE  LET v == _adjustInstDate(w, i, meses, dias) IN
         /\ v \in TipoDoCalendario /\ ComMesAoLado(v) /\ MesmaPagina(w, v) /\ SelecaoOK(v, i)
         /\ \A j \in Campos : j # i => v.sel[j] = w.sel[j]
         /\ v.curr = w.curr /\ v.lastVal = w.lastVal /\ v.limite = w.limite /\ v.texto = w.texto
         /\ v.retipado = w.retipado
PROOF
  <1> DEFINE m == w.sel[i].m + meses
             dim == Dias[m]
             d == (IF w.sel[i].d > dim THEN dim ELSE w.sel[i].d) + dias
             n == _restrictMinMax(w, i, Data(m, d))
             v == [w EXCEPT !.sel[i] = Par(n)]
  <1>1. w.sel \in Selecoes /\ w.limite \in LimitesDosCampos
    BY DEF TipoDoCalendario
  <1>2. w.sel[i].d \in Nat \ {0} /\ w.limite[i] \in LimitesPossiveis
    BY <1>1 DEF Selecoes, LimitesDosCampos
  <1>3. m \in Meses /\ dim \in Nat \ {0} /\ d \in Nat
    <2>1. m \in Meses
      OBVIOUS
    <2> HIDE DEF m
    <2>2. dim \in Nat \ {0}
      BY <2>1, MonthsHaveDays
    <2> HIDE DEF dim
    <2>3. (IF w.sel[i].d > dim THEN dim ELSE w.sel[i].d) \in Nat \ {0}
      BY <1>2, <2>2
    <2> QED
      BY <2>1, <2>2, <2>3
  <1> HIDE DEF m, dim
  <1>4. Data(m, d) \in Int
    BY <1>3, DayOfPair
  <1> HIDE DEF d
  <1>5. n \in w.limite[i][1]..w.limite[i][2] /\ n \in Oferta
    BY <1>2, <1>4, Restricted
  <1> HIDE DEF n
  <1>6. /\ Par(n) \in [m : Meses, d : Nat \ {0}] /\ Par(n).m \in MesesDaOferta
        /\ Par(n).d <= Dias[Par(n).m] /\ Data(Par(n).m, Par(n).d) = n
    <2>1. n \in TodosOsDias /\ MesDe(n) \in MesesDaOferta
      BY <1>5, OfferedDay
    <2> QED
      BY <2>1, PairOfDay
  <1>7. _adjustInstDate(w, i, meses, dias) = v
    BY DEF _adjustInstDate, _getDaysInMonth, m, dim, d, n
  <1>8. /\ v \in TipoDoCalendario /\ MesmaPagina(w, v)
        /\ v.sel[i] = Par(n) /\ \A j \in Campos : j # i => v.sel[j] = w.sel[j]
        /\ v.curr = w.curr /\ v.lastVal = w.lastVal /\ v.limite = w.limite /\ v.texto = w.texto
        /\ v.retipado = w.retipado
    BY <1>6, SelectionWritten
  <1> HIDE DEF v
  <1>9. ComMesAoLado(v)
    BY <1>6, <1>8 DEF ComMesAoLado
  <1>10. SelecaoOK(v, i)
    BY <1>5, <1>6, <1>8 DEF SelecaoOK
  <1> QED
    BY <1>7, <1>8, <1>9, <1>10

\* What is written of a field when it is parsed, and when it is filled.
Lido(w, v, i, p, t, b, c) ==
  /\ v \in TipoDoCalendario /\ MesmaPagina(w, v)
  /\ v.sel[i] = p /\ v.lastVal[i] = t /\ v.retipado[i] = b /\ v.curr[i] = c
  /\ \A j \in Campos : j # i => /\ v.sel[j] = w.sel[j] /\ v.lastVal[j] = w.lastVal[j]
                                /\ v.retipado[j] = w.retipado[j] /\ v.curr[j] = w.curr[j]
  /\ v.limite = w.limite /\ v.texto = w.texto

Preenchido(w, v, i, p, c, t, b) ==
  /\ v \in TipoDoCalendario /\ MesmaPagina(w, v)
  /\ v.sel[i] = p /\ v.texto[i] = t /\ v.retipado[i] = b /\ v.curr[i] = c
  /\ \A j \in Campos : j # i => /\ v.sel[j] = w.sel[j] /\ v.texto[j] = w.texto[j]
                                /\ v.retipado[j] = w.retipado[j] /\ v.curr[j] = w.curr[j]
  /\ v.limite = w.limite /\ v.lastVal = w.lastVal

Le(w, i, p, t, b, c) == [w EXCEPT !.lastVal[i] = t, !.sel[i] = p, !.retipado[i] = b, !.curr[i] = c]
Preenche(w, i, p, c, t, b) == [w EXCEPT !.sel[i] = p, !.curr[i] = c, !.texto[i] = t, !.retipado[i] = b]

LEMMA FieldParsed ==
  ASSUME NEW w, w \in TipoDoCalendario, NEW i \in Campos, NEW p \in [m : Meses, d : Nat \ {0}],
         NEW t \in {-2, -1, 0} \cup TodosOsDias, NEW b \in BOOLEAN, NEW c \in {0} \cup TodosOsDias
  PROVE  Lido(w, Le(w, i, p, t, b, c), i, p, t, b, c)
PROOF
  <1> DEFINE v == [w EXCEPT !.lastVal[i] = t, !.sel[i] = p, !.retipado[i] = b, !.curr[i] = c]
             sel == [w.sel EXCEPT ![i] = p]
             lastVal == [w.lastVal EXCEPT ![i] = t]
             retipado == [w.retipado EXCEPT ![i] = b]
             curr == [w.curr EXCEPT ![i] = c]
  <1>1. w.sel \in Selecoes /\ w.lastVal \in Lidos /\ w.retipado \in Marcas /\ w.curr \in Correntes
    BY DEF TipoDoCalendario
  <1>2. sel \in Selecoes /\ lastVal \in Lidos /\ retipado \in Marcas /\ curr \in Correntes
    BY <1>1 DEF Selecoes, Lidos, Marcas, Correntes
  <1>3. /\ sel[i] = p /\ lastVal[i] = t /\ retipado[i] = b /\ curr[i] = c
        /\ \A j \in Campos : j # i => /\ sel[j] = w.sel[j] /\ lastVal[j] = w.lastVal[j]
                                      /\ retipado[j] = w.retipado[j] /\ curr[j] = w.curr[j]
    BY <1>1 DEF Selecoes, Lidos, Marcas, Correntes
  <1>4. v = [w EXCEPT !.lastVal = lastVal, !.sel = sel, !.retipado = retipado, !.curr = curr]
    BY DEF TipoDoCalendario
  <1> HIDE DEF v, sel, lastVal, retipado, curr
  <1>5. v \in TipoDoCalendario
    BY <1>2, <1>4 DEF TipoDoCalendario
  <1>6. v.sel = sel /\ v.lastVal = lastVal /\ v.retipado = retipado /\ v.curr = curr
    BY <1>4 DEF TipoDoCalendario
  <1>7. MesmaPagina(w, v) /\ v.limite = w.limite /\ v.texto = w.texto
    BY <1>4 DEF TipoDoCalendario, MesmaPagina
  <1> QED
    BY <1>3, <1>5, <1>6, <1>7 DEF v, Lido, Le

\* A field is read: what the date then is, and where the selection.
LEMMA FieldRead ==
  ASSUME NEW w, CamposOK(w), NEW i \in Campos, NEW noDefault \in BOOLEAN
  PROVE  LET v == _setDateFromField(w, i, noDefault) IN
         /\ CamposOK(v) /\ MesmaPagina(w, v) /\ v.limite = w.limite /\ v.texto = w.texto
         /\ \A j \in Campos : j # i => v.sel[j] = w.sel[j] /\ v.lastVal[j] = w.lastVal[j]
         /\ v.lastVal[i] = w.texto[i]
         /\ w.texto[i] # w.lastVal[i] => SelecaoOK(v, i)
         /\ w.texto[i] = w.lastVal[i] => v = w
PROOF
  <1> DEFINE t == w.texto[i]
             data == IF t > 0 THEN t ELSE _getDefaultDate(w, i)
             nada == t = 0 \/ (t = -1 /\ noDefault)
             c == IF nada THEN 0 ELSE data
             nao == FALSE
             u == [w EXCEPT !.lastVal[i] = t, !.sel[i] = Par(data), !.retipado[i] = nao, !.curr[i] = c]
             v == _setDateFromField(w, i, noDefault)
  <1>0. w \in TipoDoCalendario /\ ComMesAoLado(w) /\ EmDia(w)
    BY DEF CamposOK
  <1>1. CASE t = w.lastVal[i]
    <2>1. v = w
      BY <1>1 DEF _setDateFromField
    <2> QED
      BY <1>1, <2>1 DEF CamposOK, MesmaPagina
  <1>2. CASE t # w.lastVal[i]
    <2>1. t \in {-1, 0} \cup TodosOsDias /\ w.limite[i] \in LimitesPossiveis
      BY <1>0 DEF TipoDoCalendario, Textos, LimitesDosCampos
    <2>2. \A k \in TodosOsDias : k \in Nat /\ k > 0
      BY DaysAreCounted, MonthsHaveDays DEF TodosOsDias, Fins
    <2>3. _getDefaultDate(w, i) \in TodosOsDias
      <3>1. Hoje \in Int
        BY LimitsOffered, OfferedNumbers
      <3>2. _getDefaultDate(w, i) \in Oferta
        BY <2>1, <3>1, Restricted DEF _getDefaultDate, _determineDate
      <3> QED
        BY <3>2, OfferedDay
    <2>4. data \in TodosOsDias /\ c \in {0} \cup TodosOsDias /\ (t > 0 => c = t)
      <3> HIDE DEF t
      <3> QED
        BY <2>1, <2>2, <2>3
    <2>5. v = _adjustInstDate(u, i, 0, 0)
      BY <1>2 DEF _setDateFromField
    <2> HIDE DEF v, c, data
    <2>6. Par(data) \in [m : Meses, d : Nat \ {0}] /\ Par(data).m \in Meses
      BY <2>4, PairOfDay
    <2>7. /\ u \in TipoDoCalendario /\ MesmaPagina(w, u)
          /\ u.sel[i] = Par(data) /\ u.lastVal[i] = t /\ ~u.retipado[i] /\ u.curr[i] = c
          /\ \A j \in Campos : j # i => /\ u.sel[j] = w.sel[j] /\ u.lastVal[j] = w.lastVal[j]
                                        /\ u.retipado[j] = w.retipado[j] /\ u.curr[j] = w.curr[j]
          /\ u.limite = w.limite /\ u.texto = w.texto
      <3>1. t \in {-2, -1, 0} \cup TodosOsDias
        BY <2>1
      <3>2. nao \in BOOLEAN /\ ~nao
        OBVIOUS
      <3> HIDE DEF t, nao
      <3>0. u = Le(w, i, Par(data), t, nao, c)
        BY Zenon DEF Le
      <3> HIDE DEF u
      <3>3. Lido(w, u, i, Par(data), t, nao, c)
        BY <1>0, <2>4, <2>6, <3>0, <3>1, <3>2, FieldParsed
      <3> QED
        BY <3>2, <3>3 DEF Lido
    <2> HIDE DEF u
    <2>8. /\ u.sel[i].m + 0 \in Meses
          /\ \A j \in Campos : j # i => u.sel[j].m \in MesesDaOferta
      <3>1. u.sel[i].m + 0 = u.sel[i].m
        BY <2>6, <2>7, MonthsHaveDays DEF Meses
      <3> QED
        BY <1>0, <2>6, <2>7, <3>1 DEF ComMesAoLado
    <2>9. /\ v \in TipoDoCalendario /\ ComMesAoLado(v) /\ MesmaPagina(u, v) /\ SelecaoOK(v, i)
          /\ \A j \in Campos : j # i => v.sel[j] = u.sel[j]
          /\ v.curr = u.curr /\ v.lastVal = u.lastVal /\ v.limite = u.limite /\ v.texto = u.texto
          /\ v.retipado = u.retipado
      BY <2>5, <2>7, <2>8, Adjusted
    <2>10. EmDia(v)
      <3> SUFFICES ASSUME NEW j \in Campos, v.texto[j] > 0, v.texto[j] = v.lastVal[j], ~v.retipado[j]
                   PROVE  v.curr[j] = v.texto[j]
        BY DEF EmDia
      <3>1. CASE j = i
        BY <2>4, <2>7, <2>9, <3>1
      <3>2. CASE j # i
        BY <1>0, <2>7, <2>9, <3>2 DEF EmDia
      <3> QED
        BY <3>1, <3>2
    <2>11. CamposOK(v)
      BY <2>9, <2>10 DEF CamposOK
    <2>12. MesmaPagina(w, v)
      BY <2>7, <2>9 DEF MesmaPagina
    <2>13. v.limite = w.limite /\ v.texto = w.texto /\ v.lastVal[i] = w.texto[i]
           /\ \A j \in Campos : j # i => v.sel[j] = w.sel[j] /\ v.lastVal[j] = w.lastVal[j]
      BY <2>7, <2>9
    <2> QED
      BY <1>2, <2>9, <2>11, <2>12, <2>13 DEF v
  <1> QED
    BY <1>1, <1>2

LEMMA FieldFilled ==
  ASSUME NEW w, w \in TipoDoCalendario, NEW i \in Campos, NEW p \in [m : Meses, d : Nat \ {0}],
         NEW c \in {0} \cup TodosOsDias, NEW t \in {-1, 0} \cup TodosOsDias, NEW b \in BOOLEAN
  PROVE  Preenchido(w, Preenche(w, i, p, c, t, b), i, p, c, t, b)
PROOF
  <1> DEFINE v == [w EXCEPT !.sel[i] = p, !.curr[i] = c, !.texto[i] = t, !.retipado[i] = b]
             sel == [w.sel EXCEPT ![i] = p]
             texto == [w.texto EXCEPT ![i] = t]
             retipado == [w.retipado EXCEPT ![i] = b]
             curr == [w.curr EXCEPT ![i] = c]
  <1>1. w.sel \in Selecoes /\ w.texto \in Textos /\ w.retipado \in Marcas /\ w.curr \in Correntes
    BY DEF TipoDoCalendario
  <1>2. sel \in Selecoes /\ texto \in Textos /\ retipado \in Marcas /\ curr \in Correntes
    BY <1>1 DEF Selecoes, Textos, Marcas, Correntes
  <1>3. /\ sel[i] = p /\ texto[i] = t /\ retipado[i] = b /\ curr[i] = c
        /\ \A j \in Campos : j # i => /\ sel[j] = w.sel[j] /\ texto[j] = w.texto[j]
                                      /\ retipado[j] = w.retipado[j] /\ curr[j] = w.curr[j]
    BY <1>1 DEF Selecoes, Textos, Marcas, Correntes
  <1>4. v = [w EXCEPT !.sel = sel, !.curr = curr, !.texto = texto, !.retipado = retipado]
    BY DEF TipoDoCalendario
  <1> HIDE DEF v, sel, texto, retipado, curr
  <1>5. v \in TipoDoCalendario
    BY <1>2, <1>4 DEF TipoDoCalendario
  <1>6. v.sel = sel /\ v.texto = texto /\ v.retipado = retipado /\ v.curr = curr
    BY <1>4 DEF TipoDoCalendario
  <1>7. MesmaPagina(w, v) /\ v.limite = w.limite /\ v.lastVal = w.lastVal
    BY <1>4 DEF TipoDoCalendario, MesmaPagina
  <1> QED
    BY <1>3, <1>5, <1>6, <1>7 DEF v, Preenchido, Preenche

\* A date is set by the page.
LEMMA DateSet ==
  ASSUME NEW w, CamposOK(w), NEW i \in Campos, NEW data \in {0} \cup TodosOsDias
  PROVE  LET v == _setDate(w, i, data) IN
         /\ CamposOK(v) /\ MesmaPagina(w, v) /\ v.limite = w.limite /\ v.lastVal = w.lastVal
         /\ \A j \in Campos : j # i => v.sel[j] = w.sel[j]
         /\ SelecaoOK(v, i)
PROOF
  <1> DEFINE n == _restrictMinMax(w, i, _determineDate(data))
             t == IF data = 0 THEN 0 ELSE n
             nao == FALSE
             v == [w EXCEPT !.sel[i] = Par(n), !.curr[i] = n, !.texto[i] = t, !.retipado[i] = nao]
  <1>0. w \in TipoDoCalendario /\ ComMesAoLado(w) /\ EmDia(w) /\ w.limite[i] \in LimitesPossiveis
    BY DEF CamposOK, TipoDoCalendario, LimitesDosCampos
  <1>1. _determineDate(data) \in Int
    <2>1. \A k \in TodosOsDias : k \in Int
      BY DEF TodosOsDias
    <2> QED
      BY <2>1, LimitsOffered, OfferedNumbers DEF _determineDate
  <1>2. n \in w.limite[i][1]..w.limite[i][2] /\ n \in Oferta
    BY <1>0, <1>1, Restricted
  <1>3. v = _setDate(w, i, data)
    BY DEF _setDate
  <1> HIDE DEF n
  <1>4. n \in TodosOsDias /\ n > 0 /\ t \in {-1, 0} \cup TodosOsDias /\ (t > 0 => t = n)
    BY <1>2, OfferedDay DEF TodosOsDias
  <1>5. /\ Par(n) \in [m : Meses, d : Nat \ {0}] /\ Par(n).m \in MesesDaOferta
        /\ Par(n).d <= Dias[Par(n).m] /\ Data(Par(n).m, Par(n).d) = n
    BY <1>2, <1>4, OfferedDay, PairOfDay
  <1> HIDE DEF t
  <1>6. /\ v \in TipoDoCalendario /\ MesmaPagina(w, v)
        /\ v.sel[i] = Par(n) /\ v.texto[i] = t /\ ~v.retipado[i] /\ v.curr[i] = n
        /\ \A j \in Campos : j # i => /\ v.sel[j] = w.sel[j] /\ v.texto[j] = w.texto[j]
                                      /\ v.retipado[j] = w.retipado[j] /\ v.curr[j] = w.curr[j]
        /\ v.limite = w.limite /\ v.lastVal = w.lastVal
    <2>1. n \in {0} \cup TodosOsDias
      BY <1>4
    <2>2. nao \in BOOLEAN /\ ~nao
      OBVIOUS
    <2> HIDE DEF nao
    <2>0. v = Preenche(w, i, Par(n), n, t, nao)
      BY Zenon DEF Preenche
    <2> HIDE DEF v
    <2>3. Preenchido(w, v, i, Par(n), n, t, nao)
      BY <1>0, <1>4, <1>5, <2>0, <2>1, <2>2, FieldFilled
    <2> QED
      BY <2>2, <2>3 DEF Preenchido
  <1> HIDE DEF v
  <1>7. ComMesAoLado(v)
    BY <1>0, <1>5, <1>6 DEF ComMesAoLado
  <1>8. SelecaoOK(v, i)
    BY <1>2, <1>5, <1>6 DEF SelecaoOK
  <1>9. EmDia(v)
    <2> SUFFICES ASSUME NEW j \in Campos, v.texto[j] > 0, v.texto[j] = v.lastVal[j], ~v.retipado[j]
                 PROVE  v.curr[j] = v.texto[j]
      BY DEF EmDia
    <2>1. CASE j = i
      BY <1>4, <1>6, <2>1
    <2>2. CASE j # i
      BY <1>0, <1>6, <2>2 DEF EmDia
    <2> QED
      BY <2>1, <2>2
  <1> QED
    BY <1>3, <1>6, <1>7, <1>8, <1>9 DEF CamposOK

----------------------------------------------------------------------------
(* What is drawn *)

\* The calendar shows a month that is offered, that of the selection if this is
\* within the limits, and offers days of this month within the limits.
LEMMA Drawn ==
  ASSUME NEW w, w \in TipoDoCalendario, ComMesAoLado(w), NEW i \in Campos
  PROVE  LET c == _generateHTML(w, i) IN
         /\ c \in Conteudos /\ Desenhado(c) /\ c.campo = i
         /\ \A n \in c.dias : n \in w.limite[i][1]..w.limite[i][2]
         /\ SelecaoOK(w, i) => c.mes = w.sel[i].m
PROOF
  <1> DEFINE l == w.limite[i]
             mes == IF Data(w.sel[i].m, 1) > l[2] THEN MesDe(l[2]) ELSE w.sel[i].m
             s == Data(mes, w.sel[i].d)
             over == (mes = w.sel[i].m /\ w.keyEvent[i]) \/ s = _getDefaultDate(w, i)
             sobre == IF over THEN s ELSE 0
             dias == {n \in l[1]..l[2] : MesDe(n) = mes}
             c == _generateHTML(w, i)
  <1>1. c = [campo |-> i, mes |-> mes, over |-> sobre, atual |-> w.curr[i], dias |-> dias]
    BY DEF _generateHTML
  <1>2. /\ w.sel[i].m \in Meses /\ w.sel[i].m \in MesesDaOferta /\ w.sel[i].d \in Nat \ {0}
        /\ w.curr[i] \in Int /\ l \in LimitesPossiveis
    <2>1. w.sel \in Selecoes /\ w.curr \in Correntes /\ w.limite \in LimitesDosCampos
      BY DEF TipoDoCalendario
    <2>2. \A n \in TodosOsDias : n \in Int
      BY DEF TodosOsDias
    <2> QED
      BY <2>1, <2>2 DEF Selecoes, Correntes, LimitesDosCampos, ComMesAoLado
  <1>3. /\ l[1] \in Oferta /\ l[2] \in Oferta /\ l[1] \in Nat /\ l[2] \in Nat
        /\ \A n \in l[1]..l[2] : n \in Oferta
    <2>1. l[1] \in Oferta /\ l[2] \in Oferta /\ l[1] \in Nat /\ l[2] \in Nat
      BY <1>2, LimitsOffered, OfferedNumbers
    <2>2. Antes[2] \in Nat /\ Antes[Len(Dias)] \in Nat
      BY DaysAreCounted, MonthsHaveDays DEF Fins
    <2> HIDE DEF l
    <2> QED
      BY <2>1, <2>2 DEF Oferta
  <1> HIDE DEF l
  <1>4. mes \in MesesDaOferta /\ mes \in Meses
    BY <1>2, <1>3, OfferedDay
  <1>5. SelecaoOK(w, i) => mes = w.sel[i].m
    <2> SUFFICES ASSUME SelecaoOK(w, i) PROVE ~(Data(w.sel[i].m, 1) > l[2])
      OBVIOUS
    <2>1. /\ Data(w.sel[i].m, 1) = Antes[w.sel[i].m] + 1 /\ Antes[w.sel[i].m] \in Nat
          /\ Data(w.sel[i].m, w.sel[i].d) = Antes[w.sel[i].m] + w.sel[i].d
      BY <1>2, DayOfPair
    <2>2. Data(w.sel[i].m, w.sel[i].d) \in l[1]..l[2]
      BY DEF SelecaoOK, l
    <2> QED
      BY <1>2, <1>3, <2>1, <2>2
  <1> HIDE DEF mes
  <1>6. sobre \in Int
    BY <1>2, <1>4, DayOfPair
  <1>7. \A n \in dias : n \in Oferta /\ n \in TodosOsDias /\ MesDe(n) = mes /\ n \in l[1]..l[2]
    BY <1>3, OfferedDay
  <1> HIDE DEF sobre, dias, c
  <1>8. dias \in SUBSET TodosOsDias
    BY <1>7
  <1>9. c \in Conteudos
    BY <1>1, <1>2, <1>4, <1>6, <1>8 DEF Conteudos, CamposOuNenhum
  <1>10. c.campo = i /\ c.mes = mes /\ c.dias = dias
    BY <1>1
  <1> QED
    BY <1>4, <1>5, <1>7, <1>9, <1>10 DEF Desenhado, c, l

Redesenha(w, i, c, b, f) == [w EXCEPT !.conteudo = c, !.keyEvent[i] = b, !.foco = f]

\* What drawing leaves alone.
MesmosDados(v, w) ==
  /\ w.showing = v.showing /\ w.curInst = v.curInst /\ w.lastInput = v.lastInput
  /\ w.disabledInputs = v.disabledInputs /\ w.errada = v.errada /\ w.limite = v.limite
  /\ w.texto = v.texto /\ w.curr = v.curr /\ w.lastVal = v.lastVal /\ w.retipado = v.retipado

LEMMA Redrawn ==
  ASSUME NEW w, w \in TipoDoCalendario, NEW i \in Campos, NEW c \in Conteudos, NEW b \in BOOLEAN,
         NEW f \in CamposOuNenhum
  PROVE  /\ Redesenha(w, i, c, b, f) \in TipoDoCalendario /\ MesmosDados(w, Redesenha(w, i, c, b, f))
         /\ Redesenha(w, i, c, b, f).sel = w.sel /\ Redesenha(w, i, c, b, f).conteudo = c
         /\ Redesenha(w, i, c, b, f).foco = f
PROOF
  <1> DEFINE v == Redesenha(w, i, c, b, f)
             teclas == [w.keyEvent EXCEPT ![i] = b]
  <1>1. teclas \in Marcas
    BY DEF TipoDoCalendario, Marcas
  <1>2. v = [w EXCEPT !.conteudo = c, !.keyEvent = teclas, !.foco = f]
    BY DEF TipoDoCalendario, Redesenha
  <1> HIDE DEF v, teclas
  <1>3. v \in TipoDoCalendario
    BY <1>1, <1>2 DEF TipoDoCalendario
  <1>4. MesmosDados(w, v) /\ v.sel = w.sel /\ v.conteudo = c /\ v.foco = f
    BY <1>2 DEF TipoDoCalendario, MesmosDados
  <1> QED
    BY <1>3, <1>4 DEF v

LEMMA Updated ==
  ASSUME NEW w, CamposOK(w), NEW i \in Campos
  PROVE  LET v == _updateDatepicker(w, i) IN
         /\ CamposOK(v) /\ MesmosDados(w, v)
         /\ \A j \in Campos : j # i => v.sel[j] = w.sel[j]
         /\ ~w.showing => v.conteudo = w.conteudo
         /\ w.showing => /\ Desenhado(v.conteudo) /\ v.conteudo.campo = i
                         /\ \A n \in v.conteudo.dias : n \in v.limite[i][1]..v.limite[i][2]
         /\ SelecaoOK(w, i) => SelecaoOK(v, i) /\ (w.showing => v.conteudo.mes = v.sel[i].m)
         /\ v.foco = IF i = w.curInst /\ w.showing /\ i \notin w.disabledInputs THEN i ELSE w.foco
PROOF
  <1> DEFINE dim == Dias[w.sel[i].m]
             p == [w.sel[i] EXCEPT !.d = IF @ > dim THEN dim ELSE @]
             w1 == [w EXCEPT !.sel[i] = p]
             c == IF w.showing THEN _generateHTML(w1, i) ELSE w1.conteudo
             f == IF i = w.curInst /\ w.showing /\ i \notin w.disabledInputs THEN i ELSE w1.foco
             nao == FALSE
             v == _updateDatepicker(w, i)
  <1>0. w \in TipoDoCalendario /\ ComMesAoLado(w) /\ EmDia(w)
    BY DEF CamposOK
  <1>1. /\ w.sel[i] \in [m : Meses, d : Nat \ {0}] /\ w.sel[i].m \in MesesDaOferta
    BY <1>0 DEF TipoDoCalendario, Selecoes, ComMesAoLado
  <1>2. dim \in Nat \ {0}
    BY <1>1, MonthsHaveDays
  <1>3. v = Redesenha(w1, i, c, nao, f)
    <2>1. [w EXCEPT !.sel[i].d = IF @ > dim THEN dim ELSE @] = w1
      BY <1>0, <1>1 DEF TipoDoCalendario, Selecoes
    <2>2. _shouldFocusInput(w, i) <=> i \notin w.disabledInputs
      BY DEF _shouldFocusInput
    <2> HIDE DEF w1
    <2> QED
      BY <2>1, <2>2 DEF _updateDatepicker, _getDaysInMonth, Redesenha
  <1> HIDE DEF dim
  <1>4. /\ p \in [m : Meses, d : Nat \ {0}] /\ p.m = w.sel[i].m
        /\ (w.sel[i].d <= dim => p.d = w.sel[i].d) /\ p.d <= dim
    BY <1>1, <1>2
  <1> HIDE DEF p
  <1>5. /\ w1 \in TipoDoCalendario /\ MesmaPagina(w, w1)
        /\ w1.sel[i] = p /\ \A j \in Campos : j # i => w1.sel[j] = w.sel[j]
        /\ w1.curr = w.curr /\ w1.lastVal = w.lastVal /\ w1.limite = w.limite /\ w1.texto = w.texto
        /\ w1.retipado = w.retipado
    BY <1>0, <1>4, SelectionWritten
  <1> HIDE DEF w1
  <1>6. ComMesAoLado(w1)
    BY <1>0, <1>1, <1>4, <1>5 DEF ComMesAoLado
  <1>7. /\ _generateHTML(w1, i) \in Conteudos /\ Desenhado(_generateHTML(w1, i))
        /\ _generateHTML(w1, i).campo = i
        /\ \A n \in _generateHTML(w1, i).dias : n \in w1.limite[i][1]..w1.limite[i][2]
        /\ SelecaoOK(w1, i) => _generateHTML(w1, i).mes = w1.sel[i].m
    BY <1>5, <1>6, Drawn
  <1>8. c \in Conteudos /\ f \in CamposOuNenhum /\ nao \in BOOLEAN
    BY <1>5, <1>7 DEF TipoDoCalendario, CamposOuNenhum
  <1> HIDE DEF c, f, nao
  <1>9. /\ v \in TipoDoCalendario /\ MesmosDados(w1, v) /\ v.sel = w1.sel /\ v.conteudo = c /\ v.foco = f
    BY <1>3, <1>5, <1>8, Redrawn
  <1> HIDE DEF v
  <1>10. MesmosDados(w, v)
    BY <1>5, <1>9 DEF MesmosDados, MesmaPagina
  <1>11. CamposOK(v)
    BY <1>0, <1>6, <1>9, <1>10 DEF CamposOK, ComMesAoLado, EmDia, MesmosDados
  <1>12. SelecaoOK(w, i) => SelecaoOK(w1, i) /\ SelecaoOK(v, i)
    BY <1>4, <1>5, <1>9, <1>10 DEF SelecaoOK, dim, MesmosDados
  <1>13. w.showing => /\ Desenhado(v.conteudo) /\ v.conteudo.campo = i
                      /\ \A n \in v.conteudo.dias : n \in v.limite[i][1]..v.limite[i][2]
                      /\ SelecaoOK(w1, i) => v.conteudo.mes = v.sel[i].m
    BY <1>7, <1>9 DEF c, MesmosDados
  <1>14. ~w.showing => v.conteudo = w.conteudo
    BY <1>5, <1>9 DEF c, MesmaPagina
  <1>15. v.foco = IF i = w.curInst /\ w.showing /\ i \notin w.disabledInputs THEN i ELSE w.foco
    BY <1>5, <1>9 DEF f, MesmaPagina
  <1>16. \A j \in Campos : j # i => v.sel[j] = w.sel[j]
    BY <1>5, <1>9
  <1> QED
    BY <1>10, <1>11, <1>12, <1>13, <1>14, <1>15, <1>16 DEF v

----------------------------------------------------------------------------
(* Opening, closing and choosing *)

\* What moving the focus or pressing a key leaves alone.
MesmoCalendario(v, w) ==
  /\ w.showing = v.showing /\ w.curInst = v.curInst /\ w.lastInput = v.lastInput
  /\ w.disabledInputs = v.disabledInputs /\ w.conteudo = v.conteudo /\ w.sel = v.sel
  /\ w.curr = v.curr /\ w.lastVal = v.lastVal /\ w.limite = v.limite /\ w.texto = v.texto
  /\ w.errada = v.errada /\ w.retipado = v.retipado

LEMMA SameCalendarOK ==
  ASSUME NEW v, NEW w, MesmoCalendario(v, w), CalendarioOK(v), w \in TipoDoCalendario
  PROVE  CalendarioOK(w)
  BY DEF MesmoCalendario, CalendarioOK, CamposOK, Aberto, ComMesAoLado, EmDia

LEMMA FocusMoved ==
  ASSUME NEW w, CalendarioOK(w), NEW f \in CamposOuNenhum
  PROVE  /\ CalendarioOK([w EXCEPT !.foco = f]) /\ MesmoCalendario(w, [w EXCEPT !.foco = f])
         /\ [w EXCEPT !.foco = f].foco = f
PROOF
  <1> DEFINE v == [w EXCEPT !.foco = f]
  <1>1. w \in TipoDoCalendario
    BY DEF CalendarioOK, CamposOK
  <1>2. v \in TipoDoCalendario
    BY <1>1 DEF TipoDoCalendario
  <1>3. MesmoCalendario(w, v) /\ v.foco = f
    BY <1>1 DEF TipoDoCalendario, MesmoCalendario
  <1> HIDE DEF v
  <1>4. CalendarioOK(v)
    BY <1>2, <1>3, SameCalendarOK
  <1> QED
    BY <1>3, <1>4 DEF v

LEMMA KeyPressed ==
  ASSUME NEW w, CalendarioOK(w), NEW i \in Campos
  PROVE  /\ CalendarioOK([w EXCEPT !.keyEvent[i] = TRUE])
         /\ MesmoCalendario(w, [w EXCEPT !.keyEvent[i] = TRUE])
         /\ [w EXCEPT !.keyEvent[i] = TRUE].foco = w.foco
PROOF
  <1> DEFINE teclas == [w.keyEvent EXCEPT ![i] = TRUE]
             v == [w EXCEPT !.keyEvent = teclas]
  <1>1. w \in TipoDoCalendario
    BY DEF CalendarioOK, CamposOK
  <1>2. teclas \in Marcas
    BY <1>1 DEF TipoDoCalendario, Marcas
  <1>3. [w EXCEPT !.keyEvent[i] = TRUE] = v
    BY <1>1 DEF TipoDoCalendario
  <1> HIDE DEF teclas
  <1>4. v \in TipoDoCalendario
    BY <1>1, <1>2 DEF TipoDoCalendario
  <1>5. MesmoCalendario(w, v) /\ v.foco = w.foco
    BY <1>1 DEF TipoDoCalendario, MesmoCalendario
  <1> HIDE DEF v
  <1>6. CalendarioOK(v)
    BY <1>4, <1>5, SameCalendarOK
  <1> QED
    BY <1>3, <1>5, <1>6

Esconde(w, s, u, c) == [w EXCEPT !.showing = s, !.lastInput = u, !.conteudo = c]

\* What opening and closing leave alone.
MesmosCampos(v, w) ==
  /\ w.curInst = v.curInst /\ w.disabledInputs = v.disabledInputs /\ w.sel = v.sel
  /\ w.curr = v.curr /\ w.keyEvent = v.keyEvent /\ w.lastVal = v.lastVal /\ w.limite = v.limite
  /\ w.texto = v.texto /\ w.foco = v.foco /\ w.errada = v.errada /\ w.retipado = v.retipado

LEMMA Covered ==
  ASSUME NEW w, w \in TipoDoCalendario, NEW s \in BOOLEAN, NEW u \in CamposOuNenhum, NEW c \in Conteudos
  PROVE  /\ Esconde(w, s, u, c) \in TipoDoCalendario /\ MesmosCampos(w, Esconde(w, s, u, c))
         /\ Esconde(w, s, u, c).showing = s /\ Esconde(w, s, u, c).lastInput = u
         /\ Esconde(w, s, u, c).conteudo = c
PROOF
  <1>1. Esconde(w, s, u, c) \in TipoDoCalendario
    BY DEF TipoDoCalendario, Esconde
  <1> QED
    BY <1>1 DEF TipoDoCalendario, Esconde, MesmosCampos

LEMMA Blank == EmBranco \in Conteudos
  BY MonthsHaveDays DEF EmBranco, Conteudos, CamposOuNenhum, Meses

\* The calendar is closed if it is the field's, or whoever's it is.
LEMMA Hidden ==
  ASSUME NEW w, CalendarioOK(w), NEW i \in CamposOuNenhum
  PROVE  LET v == _hideDatepicker(w, i) IN
         /\ CalendarioOK(v) /\ MesmosCampos(w, v)
         /\ v.showing => v = w
         /\ i \in {Nenhum, w.curInst} => ~v.showing /\ v.lastInput = Nenhum
PROOF
  <1> DEFINE nao == FALSE
             v == _hideDatepicker(w, i)
  <1>0. w \in TipoDoCalendario /\ ComMesAoLado(w) /\ EmDia(w) /\ Aberto(w)
    BY DEF CalendarioOK, CamposOK
  <1>1. CASE w.curInst = Nenhum \/ i \notin {Nenhum, w.curInst} \/ ~w.showing
    <2>1. v = w
      BY <1>1 DEF _hideDatepicker
    <2>2. i \in {Nenhum, w.curInst} => ~w.showing /\ w.lastInput = Nenhum
      BY <1>0, <1>1 DEF Aberto
    <2> QED
      BY <2>1, <2>2 DEF MesmosCampos
  <1>2. CASE ~(w.curInst = Nenhum \/ i \notin {Nenhum, w.curInst} \/ ~w.showing)
    <2>1. v = Esconde(w, nao, Nenhum, EmBranco)
      BY <1>2 DEF _hideDatepicker, Esconde
    <2>2. nao \in BOOLEAN /\ ~nao /\ Nenhum \in CamposOuNenhum
      BY DEF CamposOuNenhum
    <2> HIDE DEF nao, v
    <2>3. /\ v \in TipoDoCalendario /\ MesmosCampos(w, v) /\ ~v.showing /\ v.lastInput = Nenhum
      BY <1>0, <2>1, <2>2, Blank, Covered
    <2>4. CalendarioOK(v)
      BY <1>0, <2>3 DEF CalendarioOK, CamposOK, MesmosCampos, ComMesAoLado, EmDia, Aberto
    <2> QED
      BY <2>3, <2>4 DEF v
  <1> QED
    BY <1>1, <1>2

LEMMA HiddenIsFaithful ==
  ASSUME NEW w, CalendarioOK(w), Fiel(w), NEW i \in CamposOuNenhum
  PROVE  Fiel(_hideDatepicker(w, i))
  BY Hidden DEF Fiel

Reabre(w, i, t) == [w EXCEPT !.lastVal[i] = t, !.lastInput = i]
Aponta(w, f, u) == [w EXCEPT !.foco = f, !.curInst = u]

LEMMA Reopened ==
  ASSUME NEW w, CamposOK(w), NEW i \in Campos
  PROVE  LET v == Reabre(w, i, -2) IN
         /\ CamposOK(v) /\ v.lastVal[i] = -2 /\ v.lastInput = i
         /\ v.errada = w.errada /\ v.disabledInputs = w.disabledInputs /\ v.showing = w.showing
         /\ v.texto = w.texto
PROOF
  <1> DEFINE lidos == [w.lastVal EXCEPT ![i] = -2]
             v == Reabre(w, i, -2)
  <1>0. w \in TipoDoCalendario /\ ComMesAoLado(w) /\ EmDia(w)
    BY DEF CamposOK
  <1>1. /\ lidos \in Lidos /\ lidos[i] = -2
        /\ \A j \in Campos : j # i => lidos[j] = w.lastVal[j]
    BY <1>0 DEF TipoDoCalendario, Lidos
  <1>2. v = [w EXCEPT !.lastVal = lidos, !.lastInput = i]
    BY <1>0 DEF TipoDoCalendario, Reabre
  <1> HIDE DEF lidos, v
  <1>3. v \in TipoDoCalendario
    BY <1>0, <1>1, <1>2 DEF TipoDoCalendario, CamposOuNenhum
  <1>4. /\ v.lastVal = lidos /\ v.lastInput = i /\ v.sel = w.sel /\ v.texto = w.texto /\ v.curr = w.curr
        /\ v.retipado = w.retipado /\ v.errada = w.errada /\ v.disabledInputs = w.disabledInputs
        /\ v.showing = w.showing
    BY <1>0, <1>2 DEF TipoDoCalendario
  <1>5. EmDia(v)
    <2> SUFFICES ASSUME NEW j \in Campos, v.texto[j] > 0, v.texto[j] = v.lastVal[j], ~v.retipado[j]
                 PROVE  v.curr[j] = v.texto[j]
      BY DEF EmDia
    <2>1. j # i
      BY <1>1, <1>4
    <2> QED
      BY <1>0, <1>1, <1>4, <2>1 DEF EmDia
  <1> QED
    BY <1>0, <1>1, <1>3, <1>4, <1>5 DEF CamposOK, ComMesAoLado, v

LEMMA Pointed ==
  ASSUME NEW w, CamposOK(w), NEW f \in CamposOuNenhum, NEW u \in CamposOuNenhum
  PROVE  LET v == Aponta(w, f, u) IN
         /\ CamposOK(v) /\ v.foco = f /\ v.curInst = u
         /\ v.showing = w.showing /\ v.lastInput = w.lastInput /\ v.errada = w.errada
         /\ v.disabledInputs = w.disabledInputs /\ v.conteudo = w.conteudo /\ v.sel = w.sel
         /\ v.limite = w.limite
PROOF
  <1> DEFINE v == Aponta(w, f, u)
  <1>0. w \in TipoDoCalendario /\ ComMesAoLado(w) /\ EmDia(w)
    BY DEF CamposOK
  <1>1. v \in TipoDoCalendario
    BY <1>0 DEF TipoDoCalendario, Aponta
  <1>2. /\ v.foco = f /\ v.curInst = u /\ v.showing = w.showing /\ v.lastInput = w.lastInput
        /\ v.errada = w.errada /\ v.disabledInputs = w.disabledInputs /\ v.conteudo = w.conteudo
        /\ v.sel = w.sel /\ v.limite = w.limite /\ v.texto = w.texto /\ v.curr = w.curr
        /\ v.lastVal = w.lastVal /\ v.retipado = w.retipado
    BY <1>0 DEF TipoDoCalendario, Aponta
  <1> HIDE DEF v
  <1> QED
    BY <1>0, <1>1, <1>2 DEF CamposOK, ComMesAoLado, EmDia, v

LEMMA ShowingSet ==
  ASSUME NEW w, CamposOK(w), NEW b \in BOOLEAN
  PROVE  LET v == [w EXCEPT !.showing = b] IN
         /\ CamposOK(v) /\ v.showing = b /\ v.lastInput = w.lastInput /\ v.errada = w.errada
         /\ v.disabledInputs = w.disabledInputs /\ v.sel = w.sel /\ v.limite = w.limite
PROOF
  <1> DEFINE v == [w EXCEPT !.showing = b]
  <1>0. w \in TipoDoCalendario /\ ComMesAoLado(w) /\ EmDia(w)
    BY DEF CamposOK
  <1>1. v \in TipoDoCalendario
    BY <1>0 DEF TipoDoCalendario
  <1>2. /\ v.showing = b /\ v.lastInput = w.lastInput /\ v.errada = w.errada
        /\ v.disabledInputs = w.disabledInputs /\ v.sel = w.sel /\ v.limite = w.limite
        /\ v.texto = w.texto /\ v.curr = w.curr /\ v.lastVal = w.lastVal /\ v.retipado = w.retipado
    BY <1>0 DEF TipoDoCalendario
  <1> HIDE DEF v
  <1> QED
    BY <1>0, <1>1, <1>2 DEF CamposOK, ComMesAoLado, EmDia, v

\* A calendar that opens is the field's, whoever had it before.
LEMMA Shown ==
  ASSUME NEW w, CalendarioOK(w), NEW i \in Campos
  PROVE  LET v == _showDatepicker(w, i) IN
         /\ i \in w.disabledInputs \/ w.lastInput = i => v = w
         /\ ~(i \in w.disabledInputs \/ w.lastInput = i) =>
              CalendarioOK(v) /\ Fiel(v) /\ v.showing /\ v.curInst = i /\ v.errada = w.errada
PROOF
  <1> SUFFICES ASSUME ~(i \in w.disabledInputs \/ w.lastInput = i)
               PROVE  LET v == _showDatepicker(w, i) IN
                      CalendarioOK(v) /\ Fiel(v) /\ v.showing /\ v.curInst = i /\ v.errada = w.errada
    BY DEF _showDatepicker
  <1> DEFINE w1 == IF w.curInst # i /\ w.showing THEN _hideDatepicker(w, w.curInst) ELSE w
             u == Reabre(w1, i, -2)
             w2 == _setDateFromField(u, i, FALSE)
             sim == TRUE
             x == [w2 EXCEPT !.showing = sim]
             y == _updateDatepicker(x, i)
             v == Aponta(y, i, i)
  <1>1. _showDatepicker(w, i) = v
    BY DEF _showDatepicker, Reabre, Aponta
  <1>2. CalendarioOK(w1) /\ ~w1.showing /\ w1.errada = w.errada /\ w1.disabledInputs = w.disabledInputs
    <2>1. CASE w.curInst # i /\ w.showing
      <3>1. w.curInst \in CamposOuNenhum
        BY DEF CalendarioOK, CamposOK, TipoDoCalendario
      <3>2. w1 = _hideDatepicker(w, w.curInst)
        BY <2>1
      <3> QED
        BY <3>1, <3>2, Hidden DEF MesmosCampos
    <2>2. CASE ~(w.curInst # i /\ w.showing)
      BY <2>2 DEF CalendarioOK, Aberto
    <2> QED
      BY <2>1, <2>2
  <1> HIDE DEF w1
  <1>3. CamposOK(w1)
    BY <1>2 DEF CalendarioOK
  <1>4. /\ CamposOK(u) /\ u.lastVal[i] = -2 /\ u.lastInput = i
        /\ u.errada = w.errada /\ u.disabledInputs = w.disabledInputs
    BY <1>2, <1>3, Reopened
  <1> HIDE DEF u
  <1>5. u.texto[i] # u.lastVal[i]
    BY <1>4 DEF CamposOK, TipoDoCalendario, Textos, TodosOsDias
  <1>6. CamposOK(w2) /\ SelecaoOK(w2, i) /\ w2.lastInput = i /\ w2.errada = w.errada
        /\ w2.disabledInputs = w.disabledInputs
    <2>1. FALSE \in BOOLEAN
      OBVIOUS
    <2> QED
      BY <1>4, <1>5, <2>1, FieldRead DEF MesmaPagina
  <1> HIDE DEF w2
  <1>7. sim \in BOOLEAN /\ sim
    OBVIOUS
  <1> HIDE DEF sim
  <1>8. CamposOK(x) /\ x.showing /\ x.lastInput = i /\ x.errada = w.errada
        /\ x.disabledInputs = w.disabledInputs /\ x.sel = w2.sel /\ x.limite = w2.limite
    BY <1>6, <1>7, ShowingSet
  <1> HIDE DEF x
  <1>9. SelecaoOK(x, i)
    BY <1>6, <1>8 DEF SelecaoOK
  <1>10. /\ CamposOK(y) /\ MesmosDados(x, y) /\ Desenhado(y.conteudo) /\ y.conteudo.campo = i
         /\ \A n \in y.conteudo.dias : n \in y.limite[i][1]..y.limite[i][2]
         /\ SelecaoOK(y, i) /\ y.conteudo.mes = y.sel[i].m
    BY <1>8, <1>9, Updated
  <1> HIDE DEF y
  <1>11. /\ CamposOK(v) /\ v.foco = i /\ v.curInst = i
         /\ v.showing = y.showing /\ v.lastInput = y.lastInput /\ v.errada = y.errada
         /\ v.disabledInputs = y.disabledInputs /\ v.conteudo = y.conteudo /\ v.sel = y.sel
         /\ v.limite = y.limite
    <2>1. i \in CamposOuNenhum
      BY DEF CamposOuNenhum
    <2> QED
      BY <1>10, <2>1, Pointed
  <1> HIDE DEF v
  <1>12. v.showing /\ v.lastInput = i /\ v.errada = w.errada /\ v.disabledInputs = w.disabledInputs
    BY <1>8, <1>10, <1>11 DEF MesmosDados
  <1>13. Aberto(v)
    <2>1. i # Nenhum
      BY ConstantesDoCalendario
    <2> QED
      BY <1>10, <1>11, <1>12, <2>1 DEF Aberto
  <1>14. Fiel(v)
    BY <1>10, <1>11, <1>12 DEF Fiel, SelecaoOK
  <1> QED
    BY <1>1, <1>11, <1>12, <1>13, <1>14 DEF CalendarioOK

Escreve(w, i, t, b) == [w EXCEPT !.texto[i] = t, !.retipado[i] = b]

\* The date of the other fields is up to date.
EmDiaFora(w, i) ==
  \A j \in Campos : j # i /\ w.texto[j] > 0 /\ w.texto[j] = w.lastVal[j] /\ ~w.retipado[j]
                      => w.curr[j] = w.texto[j]

\* A date is written into a field, and the calendar closes.
LEMMA DateWritten ==
  ASSUME NEW w, w \in TipoDoCalendario, ComMesAoLado(w), Aberto(w), w.showing, NEW i \in Campos,
         EmDiaFora(w, i), NEW t \in {0} \cup TodosOsDias, t > 0 => w.curr[i] = t
  PROVE  LET v == _selectDate(w, i, t) IN
         CalendarioOK(v) /\ ~v.showing /\ v.curInst = w.curInst /\ v.errada = w.errada
PROOF
  <1> DEFINE nao == FALSE
             u == Escreve(w, i, t, nao)
             y == _hideDatepicker(u, Nenhum)
             v == [y EXCEPT !.lastInput = Nenhum]
             texto == [w.texto EXCEPT ![i] = t]
             retipado == [w.retipado EXCEPT ![i] = nao]
  <1>1. _selectDate(w, i, t) = v
    BY DEF _selectDate, Escreve
  <1>2. nao \in BOOLEAN /\ ~nao
    OBVIOUS
  <1> HIDE DEF nao
  <1>3. /\ texto \in Textos /\ texto[i] = t /\ \A j \in Campos : j # i => texto[j] = w.texto[j]
        /\ retipado \in Marcas /\ ~retipado[i] /\ \A j \in Campos : j # i => retipado[j] = w.retipado[j]
    BY <1>2 DEF TipoDoCalendario, Textos, Marcas
  <1>4. u = [w EXCEPT !.texto = texto, !.retipado = retipado]
    BY DEF TipoDoCalendario, Escreve
  <1> HIDE DEF u, texto, retipado
  <1>5. u \in TipoDoCalendario
    BY <1>3, <1>4 DEF TipoDoCalendario
  <1>6. /\ u.texto = texto /\ u.retipado = retipado /\ u.showing = w.showing /\ u.curInst = w.curInst
        /\ u.lastInput = w.lastInput /\ u.conteudo = w.conteudo /\ u.sel = w.sel /\ u.errada = w.errada
        /\ u.lastVal = w.lastVal /\ u.curr = w.curr
    BY <1>4 DEF TipoDoCalendario
  <1>7. EmDia(u)
    <2> SUFFICES ASSUME NEW j \in Campos, u.texto[j] > 0, u.texto[j] = u.lastVal[j], ~u.retipado[j]
                 PROVE  u.curr[j] = u.texto[j]
      BY DEF EmDia
    <2>1. CASE j = i
      BY <1>3, <1>6, <2>1
    <2>2. CASE j # i
      BY <1>3, <1>6, <2>2 DEF EmDiaFora
    <2> QED
      BY <2>1, <2>2
  <1>8. CalendarioOK(u)
    BY <1>5, <1>6, <1>7 DEF CalendarioOK, CamposOK, ComMesAoLado, Aberto
  <1>9. Nenhum \in CamposOuNenhum
    BY DEF CamposOuNenhum
  <1>10. CalendarioOK(y) /\ MesmosCampos(u, y) /\ ~y.showing /\ y.lastInput = Nenhum
    BY <1>8, <1>9, Hidden
  <1> HIDE DEF y
  <1>11. v = y
    BY <1>10 DEF CalendarioOK, CamposOK, TipoDoCalendario
  <1> QED
    BY <1>1, <1>6, <1>10, <1>11 DEF MesmosCampos

Escolhe(w, i, p, n, b) == [w EXCEPT !.sel[i] = p, !.curr[i] = n, !.errada = b]

\* A day is chosen, of a field that is not disabled.
LEMMA DayChosen ==
  ASSUME NEW w, CalendarioOK(w), w.showing, NEW i \in Campos, i \notin w.disabledInputs,
         NEW m \in MesesDaOferta, NEW d \in Nat \ {0}, Data(m, d) \in TodosOsDias
  PROVE  LET v == _selectDay(w, i, m, d)
             l == w.limite[i]
             n == Data(m, d) IN
         /\ CalendarioOK(v) /\ ~v.showing /\ v.curInst = w.curInst
         /\ ~w.errada /\ (~calDesvio => i = w.curInst /\ n \in l[1]..l[2]) => ~v.errada
PROOF
  <1> DEFINE n == Data(m, d)
             l == w.limite[i]
             p == [m |-> m, d |-> d]
             b == w.errada \/ (~calDesvio /\ (i # w.curInst \/ n \notin l[1]..l[2]))
             u == Escolhe(w, i, p, n, b)
             sel == [w.sel EXCEPT ![i] = p]
             curr == [w.curr EXCEPT ![i] = n]
  <1>0. w \in TipoDoCalendario /\ ComMesAoLado(w) /\ EmDia(w) /\ Aberto(w)
    BY DEF CalendarioOK, CamposOK
  <1>1. _selectDay(w, i, m, d) = _selectDate(u, i, n)
    BY <1>0 DEF _selectDay, Escolhe, TipoDoCalendario
  <1>2. b \in BOOLEAN
    BY <1>0 DEF TipoDoCalendario
  <1>3. ~w.errada /\ (~calDesvio => i = w.curInst /\ n \in l[1]..l[2]) => ~b
    OBVIOUS
  <1> HIDE DEF b, n
  <1>4. p \in [m : Meses, d : Nat \ {0}] /\ p.m \in MesesDaOferta
    BY DEF MesesDaOferta, Meses
  <1> HIDE DEF p
  <1>5. /\ sel \in Selecoes /\ sel[i] = p /\ \A j \in Campos : j # i => sel[j] = w.sel[j]
        /\ curr \in Correntes /\ curr[i] = n /\ \A j \in Campos : j # i => curr[j] = w.curr[j]
    <2>1. n \in TodosOsDias
      BY DEF n
    <2> QED
      BY <1>0, <1>4, <2>1 DEF TipoDoCalendario, Selecoes, Correntes
  <1>6. u = [w EXCEPT !.sel = sel, !.curr = curr, !.errada = b]
    BY <1>0 DEF TipoDoCalendario, Escolhe
  <1> HIDE DEF u, sel, curr
  <1>7. u \in TipoDoCalendario
    BY <1>0, <1>2, <1>5, <1>6 DEF TipoDoCalendario
  <1>8. /\ u.sel = sel /\ u.curr = curr /\ u.errada = b /\ u.showing = w.showing
        /\ u.curInst = w.curInst /\ u.lastInput = w.lastInput /\ u.conteudo = w.conteudo
        /\ u.texto = w.texto /\ u.lastVal = w.lastVal /\ u.retipado = w.retipado
    BY <1>0, <1>6 DEF TipoDoCalendario
  <1>9. ComMesAoLado(u)
    BY <1>0, <1>4, <1>5, <1>8 DEF ComMesAoLado
  <1>10. EmDiaFora(u, i)
    BY <1>0, <1>5, <1>8 DEF EmDia, EmDiaFora
  <1>11. Aberto(u)
    BY <1>0, <1>8 DEF Aberto
  <1>12. n \in {0} \cup TodosOsDias /\ u.curr[i] = n
    BY <1>5, <1>8 DEF n
  <1>13. /\ CalendarioOK(_selectDate(u, i, n)) /\ ~_selectDate(u, i, n).showing
         /\ _selectDate(u, i, n).curInst = u.curInst /\ _selectDate(u, i, n).errada = u.errada
    BY <1>7, <1>8, <1>9, <1>10, <1>11, <1>12, DateWritten
  <1> QED
    BY <1>1, <1>3, <1>8, <1>13 DEF n

----------------------------------------------------------------------------
(* Every event and every call *)

\* The inductive invariant: unless the calendar was drawn for another field, its
\* field disabled, or a text read that it had not heard of, it is faithful.
CalendarioInv ==
  /\ CalendarioOK(calendario) /\ ~calendario.errada
  /\ ~calDesvio => Fiel(calendario)

\* What the history variable notes of a step that ends in w.
Alheio(w) == w.showing /\ (w.curInst # w.conteudo.campo \/ w.curInst \in w.disabledInputs)

LidoForaDela(w) ==
  \E i \in Campos : /\ w.lastVal[i] # calendario.lastVal[i] /\ calendario.showing
                    /\ w.conteudo.campo = i /\ w.conteudo = calendario.conteudo

\* A step keeps the calendar faithful, opens one that is, or is noted.
Segue(w) ==
  /\ CalendarioOK(w) /\ ~w.errada
  /\ w.curInst = calendario.curInst \/ Fiel(w)
  /\ Fiel(calendario) => Fiel(w) \/ Alheio(w) \/ LidoForaDela(w)

\* On the way, nothing to note yet.
Perto(w) ==
  /\ CalendarioOK(w) /\ ~w.errada
  /\ w.curInst = calendario.curInst \/ Fiel(w)
  /\ Fiel(calendario) => Fiel(w)

LEMMA NearGoesOn == \A w : Perto(w) => Segue(w)
  BY DEF Perto, Segue

LEMMA NearAtFirst == CalendarioInv => Perto(calendario)
  BY DEF CalendarioInv, Perto

LEMMA ClosedIsNear ==
  ASSUME NEW w, CalendarioOK(w), ~w.errada, ~w.showing
  PROVE  Perto(w)
  BY DEF Perto, Fiel

LEMMA NearHidden ==
  ASSUME NEW w, Perto(w), NEW i \in CamposOuNenhum
  PROVE  Perto(_hideDatepicker(w, i))
PROOF
  <1>1. CalendarioOK(w)
    BY DEF Perto
  <1>2. /\ CalendarioOK(_hideDatepicker(w, i)) /\ MesmosCampos(w, _hideDatepicker(w, i))
        /\ _hideDatepicker(w, i).showing => _hideDatepicker(w, i) = w
    BY <1>1, Hidden
  <1> QED
    BY <1>2, ClosedIsNear DEF Perto, MesmosCampos

LEMMA NearFocus ==
  ASSUME NEW w, Perto(w), NEW f \in CamposOuNenhum, w.showing => f \in {Nenhum, w.curInst}
  PROVE  Perto([w EXCEPT !.foco = f])
PROOF
  <1> DEFINE v == [w EXCEPT !.foco = f]
  <1>1. CalendarioOK(w)
    BY DEF Perto
  <1>2. CalendarioOK(v) /\ MesmoCalendario(w, v) /\ v.foco = f
    BY <1>1, FocusMoved
  <1> HIDE DEF v
  <1>3. Fiel(w) => Fiel(v)
    BY <1>2 DEF Fiel, SelecaoOK, MesmoCalendario
  <1>4. Perto(v)
    BY <1>2, <1>3 DEF Perto, MesmoCalendario
  <1> QED
    BY <1>4 DEF v

LEMMA NearKey ==
  ASSUME NEW w, Perto(w), NEW i \in Campos
  PROVE  /\ Perto([w EXCEPT !.keyEvent[i] = TRUE])
         /\ MesmoCalendario(w, [w EXCEPT !.keyEvent[i] = TRUE])
         /\ [w EXCEPT !.keyEvent[i] = TRUE].foco = w.foco
PROOF
  <1> DEFINE v == [w EXCEPT !.keyEvent[i] = TRUE]
  <1>1. CalendarioOK(w)
    BY DEF Perto
  <1>2. CalendarioOK(v) /\ MesmoCalendario(w, v) /\ v.foco = w.foco
    BY <1>1, KeyPressed
  <1> HIDE DEF v
  <1>3. Fiel(w) => Fiel(v)
    BY <1>2 DEF Fiel, SelecaoOK, MesmoCalendario
  <1>4. Perto(v)
    BY <1>2, <1>3 DEF Perto, MesmoCalendario
  <1> QED
    BY <1>2, <1>4 DEF v

LEMMA NearShown ==
  ASSUME NEW w, Perto(w), NEW i \in Campos
  PROVE  Perto(_showDatepicker(w, i))
PROOF
  <1>1. CalendarioOK(w) /\ ~w.errada
    BY DEF Perto
  <1> QED
    BY <1>1, Shown DEF Perto

\* The field that gets the focus, if it is not disabled, opens the calendar.
LEMMA NearFocused ==
  ASSUME NEW w, Perto(w), NEW i \in Campos, i \notin w.disabledInputs
  PROVE  Perto(_showDatepicker([w EXCEPT !.foco = i], i))
PROOF
  <1> DEFINE v == [w EXCEPT !.foco = i]
  <1>1. CalendarioOK(w) /\ ~w.errada /\ i \in CamposOuNenhum
    BY DEF Perto, CamposOuNenhum
  <1>2. CalendarioOK(v) /\ MesmoCalendario(w, v) /\ v.foco = i
    BY <1>1, FocusMoved
  <1>3. CASE v.lastInput = i
    <2>1. w.showing => i = w.curInst
      BY <1>1, <1>2, <1>3 DEF CalendarioOK, Aberto, MesmoCalendario
    <2>2. Perto(v)
      BY <1>1, <2>1, NearFocus
    <2> HIDE DEF v
    <2>3. Perto(_showDatepicker(v, i))
      BY <2>2, NearShown
    <2> QED
      BY <2>3 DEF v
  <1>4. CASE v.lastInput # i
    <2>1. i \notin v.disabledInputs /\ ~v.errada
      BY <1>1, <1>2 DEF MesmoCalendario
    <2> HIDE DEF v
    <2>2. /\ CalendarioOK(_showDatepicker(v, i)) /\ Fiel(_showDatepicker(v, i))
          /\ ~_showDatepicker(v, i).errada
      BY <1>2, <1>4, <2>1, Shown
    <2>3. Perto(_showDatepicker(v, i))
      BY <2>2 DEF Perto
    <2> QED
      BY <2>3 DEF v
  <1> QED
    BY <1>3, <1>4

\* The calendar is drawn for a field whose selection is in the limits, if it is
\* the field's own.
LEMMA UpdateGoesOn ==
  ASSUME NEW w, CalendarioOK(w), ~w.errada, w.curInst = calendario.curInst, NEW i \in Campos,
         Fiel(calendario) /\ w.showing /\ i = w.curInst => SelecaoOK(w, i)
  PROVE  Segue(_updateDatepicker(w, i))
PROOF
  <1> DEFINE v == _updateDatepicker(w, i)
  <1>1. CamposOK(w) /\ Aberto(w)
    BY DEF CalendarioOK
  <1>2. /\ CamposOK(v) /\ MesmosDados(w, v)
        /\ ~w.showing => v.conteudo = w.conteudo
        /\ w.showing => /\ Desenhado(v.conteudo) /\ v.conteudo.campo = i
                        /\ \A n \in v.conteudo.dias : n \in v.limite[i][1]..v.limite[i][2]
        /\ SelecaoOK(w, i) => SelecaoOK(v, i) /\ (w.showing => v.conteudo.mes = v.sel[i].m)
        /\ v.foco = IF i = w.curInst /\ w.showing /\ i \notin w.disabledInputs THEN i ELSE w.foco
    BY <1>1, Updated
  <1> HIDE DEF v
  <1>3. CalendarioOK(v)
    BY <1>1, <1>2 DEF CalendarioOK, Aberto, MesmosDados
  <1>4. ~v.errada /\ v.curInst = calendario.curInst /\ v.showing = w.showing
        /\ v.disabledInputs = w.disabledInputs
    BY <1>2 DEF MesmosDados
  <1>5. ASSUME Fiel(calendario) PROVE Fiel(v) \/ Alheio(v)
    <2>1. CASE ~v.showing
      BY <2>1 DEF Fiel
    <2>2. CASE v.showing /\ (i # v.curInst \/ i \in v.disabledInputs)
      BY <1>2, <1>4, <2>2 DEF Alheio
    <2>3. CASE v.showing /\ i = v.curInst /\ i \notin v.disabledInputs
      BY <1>2, <1>4, <1>5, <2>3 DEF Fiel
    <2> QED
      BY <2>1, <2>2, <2>3
  <1>6. Segue(v)
    BY <1>3, <1>4, <1>5 DEF Segue
  <1> QED
    BY <1>6 DEF v

\* A selection that is written without drawing.
LEMMA SelectionKept ==
  ASSUME NEW w, CalendarioOK(w), NEW i \in Campos, NEW p \in [m : Meses, d : Nat \ {0}], p.m \in MesesDaOferta
  PROVE  LET v == [w EXCEPT !.sel[i] = p] IN
         /\ CalendarioOK(v) /\ MesmaPagina(w, v) /\ v.sel[i] = p
         /\ Fiel(w) /\ i \in w.disabledInputs => Fiel(v)
PROOF
  <1> DEFINE v == [w EXCEPT !.sel[i] = p]
  <1>0. w \in TipoDoCalendario /\ ComMesAoLado(w) /\ EmDia(w) /\ Aberto(w)
    BY DEF CalendarioOK, CamposOK
  <1>1. /\ v \in TipoDoCalendario /\ MesmaPagina(w, v)
        /\ v.sel[i] = p /\ \A j \in Campos : j # i => v.sel[j] = w.sel[j]
        /\ v.curr = w.curr /\ v.lastVal = w.lastVal /\ v.limite = w.limite /\ v.texto = w.texto
        /\ v.retipado = w.retipado
    BY <1>0, SelectionWritten
  <1> HIDE DEF v
  <1>2. CalendarioOK(v)
    BY <1>0, <1>1 DEF CalendarioOK, CamposOK, ComMesAoLado, EmDia, Aberto, MesmaPagina
  <1>3. ASSUME Fiel(w), i \in w.disabledInputs PROVE Fiel(v)
    <2> SUFFICES ASSUME w.showing PROVE Fiel(v)
      BY <1>1 DEF Fiel, MesmaPagina
    <2>1. w.curInst # i /\ w.curInst \in Campos
      BY <1>0, <1>3 DEF Fiel, Aberto, TipoDoCalendario, CamposOuNenhum
    <2> QED
      BY <1>1, <1>3, <2>1 DEF Fiel, SelecaoOK, MesmaPagina
  <1> QED
    BY <1>1, <1>2, <1>3 DEF v

\* A step of months or days of a field that is not disabled.
LEMMA StepGoesOn ==
  ASSUME NEW w, CalendarioOK(w), ~w.errada, w.curInst = calendario.curInst,
         NEW i \in Campos, i \notin w.disabledInputs, NEW meses \in {-1, 0, 1}, NEW dias \in {-1, 0, 1}
  PROVE  Segue(_adjustDate(w, i, meses, dias))
PROOF
  <1> DEFINE v == _adjustInstDate(w, i, meses, dias)
  <1>0. w \in TipoDoCalendario /\ ComMesAoLado(w) /\ EmDia(w) /\ Aberto(w)
    BY DEF CalendarioOK, CamposOK
  <1>1. w.sel[i].m + meses \in Meses
    BY <1>0, MonthsHaveDays DEF ComMesAoLado, MesesDaOferta, Meses
  <1>2. /\ v \in TipoDoCalendario /\ ComMesAoLado(v) /\ MesmaPagina(w, v) /\ SelecaoOK(v, i)
        /\ v.curr = w.curr /\ v.lastVal = w.lastVal /\ v.limite = w.limite /\ v.texto = w.texto
        /\ v.retipado = w.retipado
    BY <1>0, <1>1, Adjusted DEF ComMesAoLado
  <1>3. _adjustDate(w, i, meses, dias) = _updateDatepicker(v, i)
    BY DEF _adjustDate
  <1> HIDE DEF v
  <1>4. CalendarioOK(v)
    BY <1>0, <1>2 DEF CalendarioOK, CamposOK, EmDia, Aberto, MesmaPagina
  <1>5. ~v.errada /\ v.curInst = calendario.curInst
    BY <1>2 DEF MesmaPagina
  <1>6. Segue(_updateDatepicker(v, i))
    BY <1>2, <1>4, <1>5, UpdateGoesOn
  <1> QED
    BY <1>3, <1>6

\* The same of any field, from where it is.
LEMMA AdjustGoesOn ==
  ASSUME NEW w, Perto(w), NEW i \in Campos, NEW meses \in {-1, 0, 1}, NEW dias \in {-1, 0, 1},
         w.curInst = calendario.curInst
  PROVE  Segue(_adjustDate(w, i, meses, dias))
PROOF
  <1>1. CASE i \in w.disabledInputs
    BY <1>1, NearGoesOn DEF _adjustDate
  <1>2. CASE i \notin w.disabledInputs
    BY <1>2, StepGoesOn DEF Perto
  <1> QED
    BY <1>1, <1>2

\* The same from a selection that is written first, today's or another month's.
LEMMA WrittenGoesOn ==
  ASSUME NEW w, Perto(w), NEW i \in Campos, NEW p \in [m : Meses, d : Nat \ {0}],
         p.m \in MesesDaOferta, w.curInst = calendario.curInst
  PROVE  Segue(_adjustDate([w EXCEPT !.sel[i] = p], i, 0, 0))
PROOF
  <1> DEFINE x == [w EXCEPT !.sel[i] = p]
  <1>0. CalendarioOK(w) /\ ~w.errada
    BY DEF Perto
  <1>1. /\ CalendarioOK(x) /\ MesmaPagina(w, x) /\ x.sel[i] = p
        /\ Fiel(w) /\ i \in w.disabledInputs => Fiel(x)
    BY <1>0, SelectionKept
  <1> HIDE DEF x
  <1>2. ~x.errada /\ x.curInst = calendario.curInst /\ x.disabledInputs = w.disabledInputs
    BY <1>0, <1>1 DEF MesmaPagina
  <1>3. CASE i \in w.disabledInputs
    <2>1. _adjustDate(x, i, 0, 0) = x
      BY <1>2, <1>3 DEF _adjustDate
    <2>2. Perto(x)
      BY <1>1, <1>2, <1>3 DEF Perto
    <2> QED
      BY <2>1, <2>2, NearGoesOn DEF x
  <1>4. CASE i \notin w.disabledInputs
    <2>1. Segue(_adjustDate(x, i, 0, 0))
      BY <1>1, <1>2, <1>4, StepGoesOn
    <2> QED
      BY <2>1 DEF x
  <1> QED
    BY <1>3, <1>4

LEMMA TodayGoesOn ==
  ASSUME NEW w, Perto(w), NEW i \in Campos, w.curInst = calendario.curInst
  PROVE  Segue(_gotoToday(w, i))
PROOF
  <1>1. /\ Par(Hoje) \in [m : Meses, d : Nat \ {0}] /\ Par(Hoje).m \in MesesDaOferta
    BY LimitsOffered, OfferedDay, PairOfDay
  <1>2. Segue(_adjustDate([w EXCEPT !.sel[i] = Par(Hoje)], i, 0, 0))
    BY <1>1, WrittenGoesOn
  <1> QED
    BY <1>2 DEF _gotoToday

LEMMA MonthGoesOn ==
  ASSUME NEW w, Perto(w), NEW i \in Campos, w.curInst = calendario.curInst, NEW m \in MesesDaOferta
  PROVE  Segue(_selectMonthYear(w, i, m))
PROOF
  <1> DEFINE p == [w.sel[i] EXCEPT !.m = m]
  <1>1. w \in TipoDoCalendario
    BY DEF Perto, CalendarioOK, CamposOK
  <1>2. w.sel[i] \in [m : Meses, d : Nat \ {0}]
    BY <1>1 DEF TipoDoCalendario, Selecoes
  <1>3. p \in [m : Meses, d : Nat \ {0}] /\ p.m \in MesesDaOferta
    BY <1>2 DEF MesesDaOferta, Meses
  <1>4. [w EXCEPT !.sel[i].m = m] = [w EXCEPT !.sel[i] = p]
    BY <1>1, <1>2 DEF TipoDoCalendario, Selecoes
  <1> HIDE DEF p
  <1>5. Segue(_adjustDate([w EXCEPT !.sel[i] = p], i, 0, 0))
    BY <1>3, WrittenGoesOn
  <1> QED
    BY <1>4, <1>5 DEF _selectMonthYear

\* The day under the keys goes to the field of the calendar, within its limits.
LEMMA DayUnderKeys ==
  ASSUME CalendarioInv, NEW w, Perto(w), MesmoCalendario(calendario, w), w.foco = calendario.foco,
         w.showing, w.foco \in Campos, w.conteudo.over \in w.conteudo.dias
  PROVE  Perto(_selectDay(w, w.foco, w.sel[w.foco].m, Par(w.conteudo.over).d))
PROOF
  <1> DEFINE i == w.foco
             m == w.sel[i].m
             d == Par(w.conteudo.over).d
  <1>0. /\ CalendarioOK(w) /\ ~w.errada /\ w \in TipoDoCalendario /\ ComMesAoLado(w) /\ Aberto(w)
    BY DEF Perto, CalendarioOK, CamposOK
  <1>1. CASE i \in w.disabledInputs
    BY <1>1 DEF _selectDay
  <1>2. CASE i \notin w.disabledInputs
    <2>1. /\ w.conteudo.over \in Oferta /\ MesDe(w.conteudo.over) = w.conteudo.mes
      BY <1>0 DEF Aberto, Desenhado
    <2>2. /\ d \in Nat \ {0} /\ d \in 1..Dias[w.conteudo.mes] /\ w.conteudo.mes \in Meses
          /\ Data(w.conteudo.mes, d) = w.conteudo.over
      <3>1. w.conteudo.over \in TodosOsDias
        BY <2>1, OfferedDay
      <3>2. /\ Par(w.conteudo.over).m = w.conteudo.mes /\ w.conteudo.mes \in Meses
            /\ d \in Nat \ {0} /\ d <= Dias[w.conteudo.mes]
            /\ Data(w.conteudo.mes, d) = w.conteudo.over
        BY <2>1, <3>1, PairOfDay
      <3> HIDE DEF d
      <3> QED
        BY <3>2, MonthsHaveDays
    <2>3. m \in MesesDaOferta
      BY <1>0 DEF ComMesAoLado
    <2> HIDE DEF d, m
    <2>4. Data(m, d) \in TodosOsDias
      BY <2>2, <2>3, DayRunsOver
    <2>5. ASSUME ~calDesvio PROVE i = w.curInst /\ Data(m, d) \in w.limite[i][1]..w.limite[i][2]
      <3>1. Fiel(w)
        BY <2>5 DEF CalendarioInv, Perto
      <3>2. i # Nenhum
        BY ConstantesDoCalendario
      <3>3. i = w.curInst /\ w.conteudo.mes = w.sel[i].m
            /\ w.conteudo.over \in w.limite[i][1]..w.limite[i][2]
        BY <3>1, <3>2 DEF Fiel
      <3>4. Data(m, d) = w.conteudo.over
        BY <2>2, <3>3 DEF m
      <3> QED
        BY <3>3, <3>4
    <2> DEFINE v == _selectDay(w, i, m, d)
    <2>6. CalendarioOK(v) /\ ~v.showing /\ ~v.errada
      <3> HIDE DEF i
      <3> QED
        BY <1>0, <1>2, <2>2, <2>3, <2>4, <2>5, DayChosen DEF i
    <2> HIDE DEF v
    <2>7. Perto(v)
      BY <2>6, ClosedIsNear
    <2> QED
      BY <2>7 DEF v, m, d
  <1> QED
    BY <1>1, <1>2

\* So does the day that is clicked.
LEMMA DayClicked ==
  ASSUME CalendarioInv, NEW w, Perto(w), MesmoCalendario(calendario, w), w.showing,
         NEW n \in w.conteudo.dias
  PROVE  Perto(_selectDay(w, w.conteudo.campo, w.conteudo.mes, Par(n).d))
PROOF
  <1> DEFINE i == w.conteudo.campo
             m == w.conteudo.mes
             d == Par(n).d
  <1>0. /\ CalendarioOK(w) /\ ~w.errada /\ Aberto(w)
    BY DEF Perto, CalendarioOK, CamposOK
  <1>1. CASE i \in w.disabledInputs
    BY <1>1 DEF _selectDay
  <1>2. CASE i \notin w.disabledInputs
    <2>1. i \in Campos /\ m \in MesesDaOferta /\ n \in Oferta /\ MesDe(n) = m
      BY <1>0 DEF Aberto, Desenhado
    <2>2. n \in TodosOsDias
      BY <2>1, OfferedDay
    <2>3. d \in Nat \ {0} /\ Data(m, d) = n
      BY <2>1, <2>2, PairOfDay
    <2> HIDE DEF d, m
    <2>4. ASSUME ~calDesvio PROVE i = w.curInst /\ Data(m, d) \in w.limite[i][1]..w.limite[i][2]
      <3>1. Fiel(w)
        BY <2>4 DEF CalendarioInv, Perto
      <3> QED
        BY <2>3, <3>1 DEF Fiel
    <2> DEFINE v == _selectDay(w, i, m, d)
    <2>5. CalendarioOK(v) /\ ~v.showing /\ ~v.errada
      <3> HIDE DEF i
      <3> QED
        BY <1>0, <1>2, <2>1, <2>2, <2>3, <2>4, DayChosen
    <2> HIDE DEF v
    <2>6. Perto(v)
      BY <2>5, ClosedIsNear
    <2> QED
      BY <2>6 DEF v, m, d
  <1> QED
    BY <1>1, <1>2

LEMMA TextIsErased ==
  ASSUME NEW w, Perto(w), w.showing, NEW i \in Campos
  PROVE  Perto(_selectDate(w, i, 0))
PROOF
  <1>1. /\ CalendarioOK(w) /\ ~w.errada /\ w \in TipoDoCalendario /\ ComMesAoLado(w) /\ EmDia(w)
        /\ Aberto(w)
    BY DEF Perto, CalendarioOK, CamposOK
  <1>2. EmDiaFora(w, i)
    BY <1>1 DEF EmDia, EmDiaFora
  <1>3. 0 \in {0} \cup TodosOsDias /\ (0 > 0 => w.curr[i] = 0)
    OBVIOUS
  <1>4. /\ CalendarioOK(_selectDate(w, i, 0)) /\ ~_selectDate(w, i, 0).showing
        /\ _selectDate(w, i, 0).errada = w.errada
    BY <1>1, <1>2, <1>3, DateWritten
  <1> QED
    BY <1>1, <1>4, ClosedIsNear

----------------------------------------------------------------------------
(* The events, one by one *)

LEMMA NobodyIsAField == Nenhum \in CamposOuNenhum /\ Nenhum \notin Campos /\ Campos \subseteq CamposOuNenhum
  BY ConstantesDoCalendario DEF CamposOuNenhum

LEMMA ClickGoesOn ==
  ASSUME CalendarioInv, NEW i \in Campos, clicaCampo(i)
  PROVE  Segue(calendario')
PROOF
  <1> DEFINE w == IF calendario.curInst \notin {Nenhum, i} THEN _hideDatepicker(calendario, Nenhum)
                  ELSE calendario
  <1>1. i \notin calendario.disabledInputs /\ calendario' = _showDatepicker([w EXCEPT !.foco = i], i)
    BY DEF clicaCampo
  <1>2. Perto(w) /\ w.disabledInputs = calendario.disabledInputs
    BY NearAtFirst, NearHidden, NobodyIsAField, Hidden DEF MesmosCampos, CalendarioInv
  <1> HIDE DEF w
  <1>3. Perto(calendario')
    BY <1>1, <1>2, NearFocused
  <1> QED
    BY <1>3, NearGoesOn

LEMMA TabGoesOn ==
  ASSUME CalendarioInv, tabulacao
  PROVE  Segue(calendario')
PROOF
  <1> DEFINE x == [calendario EXCEPT !.keyEvent[calendario.foco] = TRUE]
             w == IF calendario.foco = Nenhum THEN calendario ELSE _hideDatepicker(x, Nenhum)
  <1>1. \/ \E i \in Campos \ (w.disabledInputs \cup {w.foco}) :
             calendario' = _showDatepicker([w EXCEPT !.foco = i], i)
        \/ calendario' = [w EXCEPT !.foco = Nenhum]
    BY Zenon DEF tabulacao
  <1>2. Perto(w)
    <2>1. CASE calendario.foco = Nenhum
      BY <2>1, NearAtFirst
    <2>2. CASE calendario.foco # Nenhum
      <3>1. calendario.foco \in Campos
        BY <2>2 DEF CalendarioInv, CalendarioOK, CamposOK, TipoDoCalendario, CamposOuNenhum
      <3>2. Perto(x)
        BY <3>1, NearAtFirst, NearKey
      <3> HIDE DEF x
      <3> QED
        BY <2>2, <3>2, NearHidden, NobodyIsAField
    <2> QED
      BY <2>1, <2>2
  <1> HIDE DEF w
  <1>3. Perto(calendario')
    <2>1. CASE calendario' = [w EXCEPT !.foco = Nenhum]
      BY <1>2, <2>1, NearFocus, NobodyIsAField
    <2>2. CASE \E i \in Campos \ (w.disabledInputs \cup {w.foco}) :
                 calendario' = _showDatepicker([w EXCEPT !.foco = i], i)
      BY <1>2, <2>2, NearFocused
    <2> QED
      BY <1>1, <2>1, <2>2
  <1> QED
    BY <1>3, NearGoesOn

LEMMA OutsideGoesOn ==
  ASSUME CalendarioInv, _checkExternalClick
  PROVE  Segue(calendario')
PROOF
  <1> DEFINE w == _hideDatepicker(calendario, Nenhum)
  <1>1. calendario' = [w EXCEPT !.foco = Nenhum]
    BY DEF _checkExternalClick
  <1>2. Perto(w)
    BY NearAtFirst, NearHidden, NobodyIsAField
  <1> HIDE DEF w
  <1>3. Perto(calendario')
    BY <1>1, <1>2, NearFocus, NobodyIsAField
  <1> QED
    BY <1>3, NearGoesOn

LEMMA KeyDownGoesOn ==
  ASSUME CalendarioInv, _doKeyDown
  PROVE  Segue(calendario')
PROOF
  <1> DEFINE i == calendario.foco
             w == [calendario EXCEPT !.keyEvent[i] = TRUE]
             over == w.conteudo.over
             some == _hideDatepicker(w, Nenhum)
             dia == IF over = 0 \/ over = w.conteudo.atual \/ over \notin w.conteudo.dias THEN some
                    ELSE _hideDatepicker(_selectDay(w, i, w.sel[i].m, Par(over).d), Nenhum)
  <1>1. i \in Campos
    BY DEF _doKeyDown, CalendarioInv, CalendarioOK, CamposOK, TipoDoCalendario, CamposOuNenhum
  <1>2. \/ ~w.showing /\ calendario' = _showDatepicker(w, i)
        \/ /\ w.showing
           /\ \/ calendario' = some \/ calendario' = _selectDate(w, i, 0)
              \/ calendario' = _gotoToday(w, i) \/ calendario' = dia
              \/ \E passo \in {1, -1} : calendario' = _adjustDate(w, i, passo, 0)
              \/ \E passo \in {1, -1} : calendario' = _adjustDate(w, i, 0, passo)
    BY Zenon DEF _doKeyDown
  <1>3. Perto(w) /\ MesmoCalendario(calendario, w) /\ w.foco = i /\ w.curInst = calendario.curInst
    BY <1>1, NearAtFirst, NearKey DEF MesmoCalendario
  <1> HIDE DEF w
  <1>4. Perto(some)
    BY <1>3, NearHidden, NobodyIsAField
  <1>5. CASE ~w.showing /\ calendario' = _showDatepicker(w, i)
    BY <1>1, <1>3, <1>5, NearShown, NearGoesOn
  <1>6. CASE calendario' = some
    BY <1>4, <1>6, NearGoesOn
  <1>7. CASE w.showing /\ calendario' = _selectDate(w, i, 0)
    BY <1>1, <1>3, <1>7, TextIsErased, NearGoesOn
  <1>8. CASE calendario' = _gotoToday(w, i)
    BY <1>1, <1>3, <1>8, TodayGoesOn
  <1>9. CASE w.showing /\ calendario' = dia
    <2>1. CASE over = 0 \/ over = w.conteudo.atual \/ over \notin w.conteudo.dias
      BY <1>4, <1>9, <2>1, NearGoesOn
    <2>2. CASE ~(over = 0 \/ over = w.conteudo.atual \/ over \notin w.conteudo.dias)
      <3> DEFINE y == _selectDay(w, i, w.sel[i].m, Par(over).d)
      <3>1. calendario' = _hideDatepicker(y, Nenhum)
        BY <1>9, <2>2
      <3>2. Perto(_selectDay(w, w.foco, w.sel[w.foco].m, Par(w.conteudo.over).d))
        BY <1>1, <1>3, <1>9, <2>2, DayUnderKeys
      <3>3. Perto(y)
        BY <1>3, <3>2
      <3> HIDE DEF y
      <3>4. Perto(calendario')
        BY <3>1, <3>3, NearHidden, NobodyIsAField
      <3> QED
        BY <3>4, NearGoesOn
    <2> QED
      BY <2>1, <2>2
  <1>10. CASE \E passo \in {1, -1} : calendario' = _adjustDate(w, i, passo, 0)
    BY <1>1, <1>3, <1>10, AdjustGoesOn
  <1>11. CASE \E passo \in {1, -1} : calendario' = _adjustDate(w, i, 0, passo)
    BY <1>1, <1>3, <1>11, AdjustGoesOn
  <1> QED
    BY <1>2, <1>5, <1>6, <1>7, <1>8, <1>9, <1>10, <1>11

Escrevendo(w, i, t, k, b) ==
  [w EXCEPT !.keyEvent[i] = k, !.texto[i] = t, !.retipado[i] = b]

LEMMA TypingGoesOn ==
  ASSUME CalendarioInv, NEW i \in Campos, NEW t \in {-1, 0} \cup TodosOsDias, digitaData(i, t)
  PROVE  Segue(calendario')
PROOF
  <1> DEFINE w == calendario
             sim == TRUE
             b == t = w.lastVal[i] /\ t # w.curr[i]
             teclas == [w.keyEvent EXCEPT ![i] = sim]
             textos == [w.texto EXCEPT ![i] = t]
             marcas == [w.retipado EXCEPT ![i] = b]
             v == Escrevendo(w, i, t, sim, b)
  <1>0. /\ CalendarioOK(w) /\ ~w.errada /\ w \in TipoDoCalendario /\ ComMesAoLado(w) /\ EmDia(w)
        /\ Aberto(w)
    BY DEF CalendarioInv, CalendarioOK, CamposOK
  <1>1. calendario' = v
    BY DEF digitaData, Escrevendo
  <1>2. sim \in BOOLEAN /\ b \in BOOLEAN /\ (~b => t # w.lastVal[i] \/ t = w.curr[i])
    OBVIOUS
  <1> HIDE DEF sim, b
  <1>3. /\ teclas \in Marcas /\ textos \in Textos /\ marcas \in Marcas
        /\ textos[i] = t /\ \A j \in Campos : j # i => textos[j] = w.texto[j]
        /\ marcas[i] = b /\ \A j \in Campos : j # i => marcas[j] = w.retipado[j]
    BY <1>0, <1>2 DEF TipoDoCalendario, Marcas, Textos
  <1>4. v = [w EXCEPT !.keyEvent = teclas, !.texto = textos, !.retipado = marcas]
    BY <1>0 DEF TipoDoCalendario, Escrevendo
  <1> HIDE DEF v, teclas, textos, marcas
  <1>5. v \in TipoDoCalendario
    BY <1>0, <1>3, <1>4 DEF TipoDoCalendario
  <1>6. /\ v.texto = textos /\ v.retipado = marcas /\ v.showing = w.showing /\ v.curInst = w.curInst
        /\ v.lastInput = w.lastInput /\ v.disabledInputs = w.disabledInputs
        /\ v.conteudo = w.conteudo /\ v.sel = w.sel /\ v.curr = w.curr /\ v.lastVal = w.lastVal
        /\ v.limite = w.limite /\ v.foco = w.foco /\ v.errada = w.errada
    BY <1>0, <1>4 DEF TipoDoCalendario
  <1>7. EmDia(v)
    <2> SUFFICES ASSUME NEW j \in Campos, v.texto[j] > 0, v.texto[j] = v.lastVal[j], ~v.retipado[j]
                 PROVE  v.curr[j] = v.texto[j]
      BY DEF EmDia
    <2>1. CASE j = i
      BY <1>2, <1>3, <1>6, <2>1
    <2>2. CASE j # i
      BY <1>0, <1>3, <1>6, <2>2 DEF EmDia
    <2> QED
      BY <2>1, <2>2
  <1>8. CalendarioOK(v)
    BY <1>0, <1>5, <1>6, <1>7 DEF CalendarioOK, CamposOK, ComMesAoLado, Aberto
  <1>9. Fiel(w) => Fiel(v)
    BY <1>6 DEF Fiel, SelecaoOK
  <1>10. Perto(v)
    BY <1>0, <1>6, <1>8, <1>9 DEF Perto
  <1> QED
    BY <1>1, <1>10, NearGoesOn

\* What is read of a field, from the calendar as it is.
LEMMA ReadOK ==
  ASSUME NEW w, CalendarioOK(w), NEW i \in Campos, NEW noDefault \in BOOLEAN
  PROVE  LET v == _setDateFromField(w, i, noDefault) IN
         /\ CalendarioOK(v) /\ MesmaPagina(w, v) /\ v.limite = w.limite /\ v.texto = w.texto
         /\ \A j \in Campos : j # i => v.sel[j] = w.sel[j]
         /\ v.lastVal[i] = w.texto[i]
         /\ w.texto[i] # w.lastVal[i] => SelecaoOK(v, i)
         /\ w.texto[i] = w.lastVal[i] => v = w
  BY FieldRead, SamePageOpen DEF CalendarioOK

LEMMA KeyUpGoesOn ==
  ASSUME CalendarioInv, NEW i \in Campos, _doKeyUp(i)
  PROVE  Segue(calendario')
PROOF
  <1> DEFINE v == _setDateFromField(calendario, i, FALSE)
  <1>1. calendario' = _updateDatepicker(v, i) /\ calendario.texto[i] # calendario.lastVal[i]
    BY DEF _doKeyUp
  <1>2. CalendarioOK(calendario) /\ ~calendario.errada /\ FALSE \in BOOLEAN
    BY DEF CalendarioInv
  <1>3. CalendarioOK(v) /\ MesmaPagina(calendario, v) /\ SelecaoOK(v, i)
    BY <1>1, <1>2, ReadOK
  <1> HIDE DEF v
  <1> QED
    BY <1>1, <1>2, <1>3, UpdateGoesOn DEF MesmaPagina

LEMMA ReadingGoesOn ==
  ASSUME CalendarioInv, NEW i \in Campos, _getDateDatepicker(i)
  PROVE  Segue(calendario')
PROOF
  <1> DEFINE w == calendario
             v == _setDateFromField(w, i, FALSE)
  <1>1. calendario' = v
    BY DEF _getDateDatepicker
  <1>2. CalendarioOK(w) /\ ~w.errada /\ FALSE \in BOOLEAN
    BY DEF CalendarioInv
  <1>3. /\ CalendarioOK(v) /\ MesmaPagina(w, v) /\ v.limite = w.limite
        /\ \A j \in Campos : j # i => v.sel[j] = w.sel[j]
        /\ v.lastVal[i] = w.texto[i]
        /\ w.texto[i] = w.lastVal[i] => v = w
    BY <1>2, ReadOK
  <1> HIDE DEF v
  <1>4. ASSUME Fiel(w) PROVE Fiel(v) \/ LidoForaDela(v)
    <2>1. CASE ~w.showing \/ w.texto[i] = w.lastVal[i]
      BY <1>3, <1>4, <2>1 DEF Fiel, MesmaPagina
    <2>2. CASE w.showing /\ w.texto[i] # w.lastVal[i] /\ i = w.curInst
      BY <1>3, <1>4, <2>2 DEF Fiel, LidoForaDela, MesmaPagina
    <2>3. CASE w.showing /\ i # w.curInst
      <3>1. w.curInst \in Campos
        BY <1>2, <1>4, <2>3 DEF Fiel, CalendarioOK, Aberto, Desenhado
      <3> QED
        BY <1>3, <1>4, <2>3, <3>1 DEF Fiel, SelecaoOK, MesmaPagina
    <2> QED
      BY <2>1, <2>2, <2>3
  <1>5. Segue(v)
    BY <1>2, <1>3, <1>4 DEF Segue, MesmaPagina
  <1> QED
    BY <1>1, <1>5

LEMMA SettingGoesOn ==
  ASSUME CalendarioInv, NEW i \in Campos, NEW data \in {0} \cup TodosOsDias, _setDateDatepicker(i, data)
  PROVE  Segue(calendario')
PROOF
  <1> DEFINE v == _setDate(calendario, i, data)
  <1>1. calendario' = _updateDatepicker(v, i)
    BY DEF _setDateDatepicker
  <1>2. CalendarioOK(calendario) /\ ~calendario.errada
    BY DEF CalendarioInv
  <1>3. CamposOK(v) /\ MesmaPagina(calendario, v) /\ SelecaoOK(v, i)
    BY <1>2, DateSet DEF CalendarioOK
  <1> HIDE DEF v
  <1>4. CalendarioOK(v)
    BY <1>2, <1>3, SamePageOpen DEF CalendarioOK
  <1> QED
    BY <1>1, <1>2, <1>3, <1>4, UpdateGoesOn DEF MesmaPagina

LEMMA OptionGoesOn ==
  ASSUME CalendarioInv, NEW i \in Campos, NEW l \in Limites[i], _optionDatepicker(i, l)
  PROVE  Segue(calendario')
PROOF
  <1> DEFINE w == IF calendario.curInst = i THEN _hideDatepicker(calendario, Nenhum) ELSE calendario
             sim == TRUE
             w1 == _setDateFromField(w, i, sim)
             data == _getDate(w1, i)
             limites == [w1.limite EXCEPT ![i] = l]
             x == [w1 EXCEPT !.limite = limites]
             y == _setDate(x, i, data)
  <1>0. CalendarioOK(calendario) /\ ~calendario.errada
    BY DEF CalendarioInv
  <1>1. CalendarioOK(w) /\ ~w.errada /\ w.curInst = calendario.curInst
    BY <1>0, Hidden, NobodyIsAField DEF MesmosCampos
  <1>2. sim \in BOOLEAN
    OBVIOUS
  <1>3. calendario' = _updateDatepicker(_setDate([w1 EXCEPT !.limite[i] = l], i, data), i)
    BY DEF _optionDatepicker
  <1> HIDE DEF w, sim
  <1>4. CalendarioOK(w1) /\ MesmaPagina(w, w1)
    BY <1>1, <1>2, ReadOK
  <1> HIDE DEF w1
  <1>5. w1 \in TipoDoCalendario /\ ComMesAoLado(w1) /\ EmDia(w1) /\ Aberto(w1)
    BY <1>4 DEF CalendarioOK, CamposOK
  <1>6. [w1 EXCEPT !.limite[i] = l] = x
    BY <1>5 DEF TipoDoCalendario
  <1>7. data \in {0} \cup TodosOsDias
    BY <1>5 DEF _getDate, TipoDoCalendario, Correntes
  <1>8. limites \in LimitesDosCampos
    BY <1>5, LimitsOffered DEF TipoDoCalendario, LimitesDosCampos
  <1> HIDE DEF data, limites
  <1>9. x \in TipoDoCalendario
    BY <1>5, <1>8 DEF TipoDoCalendario
  <1>10. /\ MesmaPagina(w1, x) /\ x.sel = w1.sel /\ x.texto = w1.texto /\ x.lastVal = w1.lastVal
         /\ x.curr = w1.curr /\ x.retipado = w1.retipado
    BY <1>5 DEF TipoDoCalendario, MesmaPagina
  <1> HIDE DEF x
  <1>11. CamposOK(x)
    BY <1>5, <1>9, <1>10 DEF CamposOK, ComMesAoLado, EmDia
  <1>12. CamposOK(y) /\ MesmaPagina(x, y) /\ SelecaoOK(y, i)
    BY <1>7, <1>11, DateSet
  <1> HIDE DEF y
  <1>13. CalendarioOK(y)
    BY <1>5, <1>10, <1>12, SamePageOpen DEF CalendarioOK
  <1>14. ~y.errada /\ y.curInst = calendario.curInst
    BY <1>1, <1>4, <1>10, <1>12 DEF MesmaPagina
  <1>15. Segue(_updateDatepicker(y, i))
    BY <1>12, <1>13, <1>14, UpdateGoesOn
  <1> QED
    BY <1>3, <1>6, <1>15 DEF y

LEMMA RefreshGoesOn ==
  ASSUME CalendarioInv, NEW i \in Campos, _refreshDatepicker(i)
  PROVE  Segue(calendario')
  BY UpdateGoesOn DEF _refreshDatepicker, CalendarioInv, Fiel

Desativa(w, s, f) == [w EXCEPT !.disabledInputs = s, !.foco = f]

LEMMA Disabled ==
  ASSUME NEW w, CalendarioOK(w), NEW s \in ConjuntosDeCampos, NEW f \in CamposOuNenhum
  PROVE  LET v == Desativa(w, s, f) IN
         /\ CalendarioOK(v) /\ v.disabledInputs = s /\ v.foco = f
         /\ v.showing = w.showing /\ v.curInst = w.curInst /\ v.conteudo = w.conteudo
         /\ v.sel = w.sel /\ v.limite = w.limite /\ v.errada = w.errada
PROOF
  <1> DEFINE v == Desativa(w, s, f)
  <1>0. w \in TipoDoCalendario /\ ComMesAoLado(w) /\ EmDia(w) /\ Aberto(w)
    BY DEF CalendarioOK, CamposOK
  <1>1. v \in TipoDoCalendario
    BY <1>0 DEF TipoDoCalendario, Desativa
  <1>2. /\ v.disabledInputs = s /\ v.foco = f /\ v.showing = w.showing /\ v.curInst = w.curInst
        /\ v.lastInput = w.lastInput /\ v.conteudo = w.conteudo /\ v.sel = w.sel
        /\ v.limite = w.limite /\ v.errada = w.errada /\ v.texto = w.texto /\ v.curr = w.curr
        /\ v.lastVal = w.lastVal /\ v.retipado = w.retipado
    BY <1>0 DEF TipoDoCalendario, Desativa
  <1> HIDE DEF v
  <1> QED
    BY <1>0, <1>1, <1>2 DEF CalendarioOK, CamposOK, ComMesAoLado, EmDia, Aberto, v

LEMMA DisablingGoesOn ==
  ASSUME CalendarioInv, NEW i \in Campos, _disableDatepicker(i) \/ _enableDatepicker(i)
  PROVE  Segue(calendario')
PROOF
  <1> DEFINE w == calendario
  <1>0. CalendarioOK(w) /\ ~w.errada /\ w \in TipoDoCalendario
    BY DEF CalendarioInv, CalendarioOK, CamposOK
  <1>1. w.disabledInputs \in SUBSET Campos /\ w.foco \in CamposOuNenhum
    BY <1>0 DEF TipoDoCalendario, ConjuntosDeCampos
  <1>2. CASE _disableDatepicker(i)
    <2> DEFINE s == w.disabledInputs \cup {i}
               f == IF w.foco = i THEN Nenhum ELSE w.foco
               v == Desativa(w, s, f)
    <2>1. calendario' = v
      BY <1>0, <1>2 DEF _disableDatepicker, Desativa
    <2>2. s \in ConjuntosDeCampos /\ f \in CamposOuNenhum
      BY <1>1, NobodyIsAField DEF ConjuntosDeCampos
    <2>3. (w.showing /\ i # w.curInst /\ w.curInst \notin w.disabledInputs => w.curInst \notin s)
          /\ i \in s /\ f \in {Nenhum, w.foco}
      OBVIOUS
    <2> HIDE DEF s, f
    <2>4. /\ CalendarioOK(v) /\ v.disabledInputs = s /\ v.foco = f
          /\ v.showing = w.showing /\ v.curInst = w.curInst /\ v.conteudo = w.conteudo
          /\ v.sel = w.sel /\ v.limite = w.limite /\ v.errada = w.errada
      BY <1>0, <2>2, Disabled
    <2> HIDE DEF v
    <2>5. ASSUME Fiel(w) PROVE Fiel(v) \/ Alheio(v)
      <3>1. CASE w.showing /\ i = w.curInst
        BY <2>3, <2>4, <3>1 DEF Alheio
      <3>2. CASE ~(w.showing /\ i = w.curInst)
        BY <2>3, <2>4, <2>5, <3>2 DEF Fiel, SelecaoOK
      <3> QED
        BY <3>1, <3>2
    <2>6. Segue(v)
      BY <1>0, <2>4, <2>5 DEF Segue
    <2> QED
      BY <2>1, <2>6
  <1>3. CASE _enableDatepicker(i)
    <2> DEFINE s == w.disabledInputs \ {i}
               f == w.foco
               v == Desativa(w, s, f)
    <2>1. calendario' = v
      BY <1>0, <1>3 DEF _enableDatepicker, Desativa, TipoDoCalendario
    <2>2. s \in ConjuntosDeCampos /\ f \in CamposOuNenhum /\ s \subseteq w.disabledInputs
      BY <1>1 DEF ConjuntosDeCampos
    <2> HIDE DEF s
    <2>4. /\ CalendarioOK(v) /\ v.disabledInputs = s /\ v.foco = f
          /\ v.showing = w.showing /\ v.curInst = w.curInst /\ v.conteudo = w.conteudo
          /\ v.sel = w.sel /\ v.limite = w.limite /\ v.errada = w.errada
      BY <1>0, <2>2, Disabled
    <2> HIDE DEF v
    <2>5. Fiel(w) => Fiel(v)
      BY <2>2, <2>4 DEF Fiel, SelecaoOK
    <2>6. Segue(v)
      BY <1>0, <2>4, <2>5 DEF Segue
    <2> QED
      BY <2>1, <2>6
  <1> QED
    BY <1>2, <1>3

LEMMA CalendarMouseGoesOn ==
  ASSUME CalendarioInv, _attachHandlers
  PROVE  Segue(calendario')
PROOF
  <1> DEFINE c == calendario.conteudo
             i == c.campo
             w == [calendario EXCEPT !.foco = Nenhum]
  <1>1. /\ w.showing
        /\ \/ \E n \in c.dias : calendario' = _selectDay(w, i, c.mes, Par(n).d)
           \/ \E passo \in {1, -1} : calendario' = _adjustDate(w, i, passo, 0)
           \/ \E m \in _generateMonthYearHeader(w, i) \ {c.mes} : calendario' = _selectMonthYear(w, i, m)
           \/ calendario' = _gotoToday(w, i)
           \/ calendario' = _hideDatepicker(w, Nenhum)
    BY Zenon DEF _attachHandlers
  <1>2. CalendarioOK(calendario)
    BY DEF CalendarioInv
  <1>3. Perto(w) /\ MesmoCalendario(calendario, w)
    BY <1>2, NearAtFirst, NearFocus, NobodyIsAField, FocusMoved
  <1> HIDE DEF w
  <1>4. w.curInst = calendario.curInst /\ w.conteudo = c /\ i \in Campos
        /\ w.limite[i] \in LimitesPossiveis
    <2>1. w.curInst = calendario.curInst /\ w.conteudo = c /\ w.showing = calendario.showing
          /\ w.limite = calendario.limite
      BY <1>3 DEF MesmoCalendario
    <2>2. i \in Campos
      BY <1>1, <1>2, <2>1 DEF CalendarioOK, Aberto, Desenhado
    <2>3. w.limite \in LimitesDosCampos
      BY <1>2, <2>1 DEF CalendarioOK, CamposOK, TipoDoCalendario
    <2> QED
      BY <2>1, <2>2, <2>3 DEF LimitesDosCampos
  <1>5. CASE \E n \in c.dias : calendario' = _selectDay(w, i, c.mes, Par(n).d)
    <2>1. PICK n \in c.dias : calendario' = _selectDay(w, i, c.mes, Par(n).d)
      BY <1>5
    <2>2. Perto(_selectDay(w, w.conteudo.campo, w.conteudo.mes, Par(n).d))
      BY <1>1, <1>3, <1>4, DayClicked
    <2> QED
      BY <1>4, <2>1, <2>2, NearGoesOn
  <1>6. CASE \E passo \in {1, -1} : calendario' = _adjustDate(w, i, passo, 0)
    BY <1>3, <1>4, <1>6, AdjustGoesOn
  <1>7. CASE \E m \in _generateMonthYearHeader(w, i) \ {c.mes} : calendario' = _selectMonthYear(w, i, m)
    <2>1. PICK m \in _generateMonthYearHeader(w, i) : calendario' = _selectMonthYear(w, i, m)
      BY <1>7
    <2>2. MesDe(w.limite[i][1]) \in MesesDaOferta /\ MesDe(w.limite[i][2]) \in MesesDaOferta
      BY <1>4, LimitsOffered, OfferedDay
    <2>3. m \in MesesDaOferta
      BY <2>1, <2>2, MonthsHaveDays DEF _generateMonthYearHeader, MesesDaOferta
    <2> QED
      BY <1>3, <1>4, <2>1, <2>3, MonthGoesOn
  <1>8. CASE calendario' = _gotoToday(w, i)
    BY <1>3, <1>4, <1>8, TodayGoesOn
  <1>9. CASE calendario' = _hideDatepicker(w, Nenhum)
    BY <1>3, <1>9, NearHidden, NearGoesOn, NobodyIsAField
  <1> QED
    BY <1>1, <1>5, <1>6, <1>7, <1>8, <1>9

LEMMA CallGoesOn ==
  ASSUME CalendarioInv, NEW i \in Campos,
         calendario' = _showDatepicker(calendario, i) \/ calendario' = _hideDatepicker(calendario, i)
  PROVE  Segue(calendario')
PROOF
  <1>1. Perto(calendario) /\ i \in CamposOuNenhum
    BY NearAtFirst, NobodyIsAField
  <1>2. Perto(_showDatepicker(calendario, i)) /\ Perto(_hideDatepicker(calendario, i))
    BY <1>1, NearShown, NearHidden
  <1> QED
    BY <1>2, NearGoesOn

----------------------------------------------------------------------------
(* The theorems *)

LEMMA TypedTexts ==
  \A i \in Campos : \A t \in Digitadas[i] :
    t \in {-1, 0} \cup TodosOsDias /\ (t # -1 => t \in {0} \cup TodosOsDias)
PROOF
  <1>1. \A i \in Campos : Digitadas[i] \subseteq -1..Antes[Len(Dias) + 1]
    BY ConstantesDoCalendario
  <1>2. Antes[Len(Dias) + 1] \in Nat
    BY DaysAreCounted, MonthsHaveDays DEF Fins
  <1>3. \A t \in -1..Antes[Len(Dias) + 1] : t \in {-1, 0} \cup TodosOsDias
    BY <1>2 DEF TodosOsDias
  <1> QED
    BY <1>1, <1>3

LEMMA CalendarAtFirst ==
  CalendarioInit => CalendarioInv
PROOF
  <1> SUFFICES ASSUME CalendarioInit PROVE CalendarioInv
    OBVIOUS
  <1> DEFINE nao == FALSE
             sel == [i \in Campos |-> [m |-> 2, d |-> 1]]
             zeros == [i \in Campos |-> 0]
             marcas == [i \in Campos |-> nao]
             lidos == [i \in Campos |-> -2]
  <1>1. PICK limite \in [Campos -> LimitesPossiveis] :
          calendario = [showing |-> nao, curInst |-> Nenhum, lastInput |-> Nenhum, disabledInputs |-> {},
                        conteudo |-> EmBranco, sel |-> sel, curr |-> zeros, keyEvent |-> marcas,
                        lastVal |-> lidos, limite |-> limite, texto |-> zeros, foco |-> Nenhum,
                        errada |-> nao, retipado |-> marcas]
    BY Zenon DEF CalendarioInit, LimitesPossiveis
  <1>2. nao \in BOOLEAN /\ ~nao
    OBVIOUS
  <1> HIDE DEF nao
  <1>3. /\ sel \in Selecoes /\ zeros \in Correntes /\ zeros \in Textos /\ marcas \in Marcas
        /\ lidos \in Lidos /\ limite \in LimitesDosCampos /\ {} \in ConjuntosDeCampos
    BY <1>2, MonthsHaveDays
    DEF Selecoes, Correntes, Textos, Marcas, Lidos, LimitesDosCampos, ConjuntosDeCampos, Meses
  <1>4. /\ \A i \in Campos : sel[i].m \in MesesDaOferta
        /\ \A i \in Campos : zeros[i] = 0
    BY MonthsHaveDays DEF MesesDaOferta
  <1> HIDE DEF sel, zeros, marcas, lidos
  <1>5. calendario \in TipoDoCalendario
    BY <1>1, <1>2, <1>3, Blank, NobodyIsAField DEF TipoDoCalendario
  <1>6. /\ calendario.showing = nao /\ calendario.lastInput = Nenhum /\ calendario.sel = sel
        /\ calendario.texto = zeros /\ calendario.errada = nao
    BY <1>1
  <1> QED
    BY <1>2, <1>4, <1>5, <1>6
    DEF CalendarioInv, CalendarioOK, CamposOK, ComMesAoLado, EmDia, Aberto, Fiel

LEMMA CalendarGoesOn ==
  ASSUME CalendarioInv, CalendarioPasso
  PROVE  Segue(calendario')
PROOF
  <1>1. CASE \E i \in Campos :
               \/ clicaCampo(i) \/ _doKeyUp(i) \/ _getDateDatepicker(i) \/ _refreshDatepicker(i)
               \/ _disableDatepicker(i) \/ _enableDatepicker(i)
    BY <1>1, ClickGoesOn, KeyUpGoesOn, ReadingGoesOn, RefreshGoesOn, DisablingGoesOn
  <1>2. CASE \E i \in Campos : \E t \in Digitadas[i] : digitaData(i, t)
    BY <1>2, TypedTexts, TypingGoesOn
  <1>3. CASE \E i \in Campos : \E t \in Digitadas[i] : t # -1 /\ _setDateDatepicker(i, t)
    BY <1>3, TypedTexts, SettingGoesOn
  <1>4. CASE \E i \in Campos : \E l \in Limites[i] : _optionDatepicker(i, l)
    BY <1>4, OptionGoesOn
  <1>5. CASE \E i \in Campos : \/ calendario' = _showDatepicker(calendario, i)
                               \/ calendario' = _hideDatepicker(calendario, i)
    BY <1>5, CallGoesOn
  <1>6. CASE tabulacao \/ _checkExternalClick \/ _doKeyDown \/ _attachHandlers
    BY <1>6, TabGoesOn, OutsideGoesOn, KeyDownGoesOn, CalendarMouseGoesOn
  <1> QED
    BY <1>1, <1>2, <1>3, <1>4, <1>5, <1>6, Zenon DEF CalendarioPasso

\* A step that the history variable does not note ends faithful.
LEMMA CalendarStays ==
  ASSUME CalendarioInv, CalendarioNext
  PROVE  CalendarioInv'
PROOF
  <1>1. Segue(calendario')
    BY CalendarGoesOn DEF CalendarioNext
  <1>2. ASSUME ~calDesvio' PROVE Fiel(calendario')
    <2>1. CASE ~calendario'.showing
      BY <2>1 DEF Fiel
    <2>2. CASE calendario'.showing
      <3>1. /\ ~(calDesvio /\ calendario'.curInst = calendario.curInst)
            /\ ~Alheio(calendario') /\ ~LidoForaDela(calendario')
        BY <1>2, <2>2 DEF CalendarioNext, Alheio, LidoForaDela
      <3> QED
        BY <1>1, <3>1 DEF Segue, CalendarioInv
    <2> QED
      BY <2>1, <2>2
  <1>3. CalendarioOK(calendario') /\ ~calendario'.errada
    BY <1>1 DEF Segue
  <1>4. Fiel(calendario') <=> Fiel(calendario)'
    BY DEF Fiel, SelecaoOK
  <1>5. CalendarioOK(calendario') <=> CalendarioOK(calendario)'
    BY DEF CalendarioOK, CamposOK, ComMesAoLado, EmDia, Aberto, Desenhado, TipoDoCalendario
  <1> QED
    BY <1>2, <1>3, <1>4, <1>5 DEF CalendarioInv

LEMMA CalendarCorrect == Spec => []CalendarioInv
PROOF
  <1>1. Init => CalendarioInv
    BY CalendarAtFirst DEF Init
  <1>2. CalendarioInv /\ [Next]_vars => CalendarioInv'
    <2> SUFFICES ASSUME CalendarioInv, [Next]_vars PROVE CalendarioInv'
      OBVIOUS
    <2>1. CASE CalendarioNext
      BY <2>1, CalendarStays
    <2>2. CASE UNCHANGED calVars
      BY <2>2 DEF calVars, CalendarioInv
    <2> QED
      BY <2>1, <2>2, Zenon DEF Next, vars
  <1> QED
    BY <1>1, <1>2, PTL DEF Spec

\* An open calendar is that of the field it was opened for and shows the month of
\* what is selected there, within its limits (CalendarioDoCampo): of any fields, in
\* a calendar of any months.
THEOREM CalendarOfItsField == Spec => []CalendarioDoCampo
PROOF
  <1>1. CalendarioInv => CalendarioDoCampo
    <2> SUFFICES ASSUME CalendarioInv PROVE CalendarioDoCampo
      OBVIOUS
    <2> DEFINE w == calendario
               i == w.curInst
               n == Data(w.sel[i].m, w.sel[i].d)
    <2>1. /\ w.showing <=> w.lastInput # Nenhum
          /\ w.showing => w.lastInput = w.curInst /\ Desenhado(w.conteudo)
      BY DEF CalendarioInv, CalendarioOK, Aberto
    <2>2. ASSUME w.showing, ~calDesvio
          PROVE  w.conteudo.campo = i /\ n \in w.limite[i][1]..w.limite[i][2] /\ MesDe(n) = w.conteudo.mes
      <3>1. /\ w.conteudo.campo = i /\ w.conteudo.mes = w.sel[i].m /\ SelecaoOK(w, i)
        BY <2>2 DEF CalendarioInv, Fiel
      <3>2. i \in Campos
        BY <2>1, <2>2, <3>1 DEF Desenhado
      <3>3. w.sel[i].m \in Meses /\ w.sel[i].d \in Nat \ {0}
        BY <3>2 DEF CalendarioInv, CalendarioOK, CamposOK, TipoDoCalendario, Selecoes
      <3>4. w.sel[i].d \in 1..Dias[w.sel[i].m]
        BY <3>1, <3>3, MonthsHaveDays DEF SelecaoOK
      <3>5. MesDe(n) = w.sel[i].m
        BY <3>3, <3>4, DayOfPair
      <3> QED
        BY <3>1, <3>5 DEF SelecaoOK
    <2> QED
      BY <2>1, <2>2 DEF CalendarioDoCampo
  <1> QED
    BY <1>1, CalendarCorrect, PTL

\* What is chosen goes to the field the calendar was opened for and keeps to its
\* limits (EscolhaCerta).
THEOREM ChoiceIsRight == Spec => []EscolhaCerta
PROOF
  <1>1. CalendarioInv => EscolhaCerta
    BY DEF CalendarioInv, EscolhaCerta
  <1> QED
    BY <1>1, CalendarCorrect, PTL

\* The date the page reads is the one in the field, but for a text that is typed
\* again after another date was chosen (CampoEmDia).
THEOREM DateIsRead == Spec => []CampoEmDia
PROOF
  <1>1. CalendarioInv => CampoEmDia
    BY DEF CalendarioInv, CalendarioOK, CamposOK, EmDia, CampoEmDia
  <1> QED
    BY <1>1, CalendarCorrect, PTL

=============================================================================
