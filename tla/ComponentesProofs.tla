-------------------------- MODULE ComponentesProofs --------------------------
(***************************************************************************)
(* Theorems of Componentes, for any tabs, panels, steps, options, dialogs, *)
(* menus, titles, prices and bounds.                                       *)
(***************************************************************************)
EXTENDS Componentes, FiniteSetTheorems, WellFoundedInduction, SequenceTheorems, TLAPS

----------------------------------------------------------------------------
(* Tabs *)

TipoDaFase == {"nenhuma", "show", "hide"} \X (0..NAbas) \X (0..NAbas)

TipoDaAba ==
  [active : 0..NAbas, visiveis : SUBSET Abas, selected : SUBSET Abas, ordem : SUBSET Abas,
   foco : 0..NAbas, ativando : 0..NAbas, running : BOOLEAN,
   fase : TipoDaFase, disabled : SUBSET Abas,
   pedidos : [Abas -> {"nenhum", "enviado", "respondido", "abortado"}], xhr : 0..NAbas,
   animada : BOOLEAN, collapsible : BOOLEAN]

\* What is shown while nothing moves, while a panel comes, and while one goes.
PainelDaFase(w) ==
  \/ ~w.running /\ w.fase = SemAnimacao /\ w.visiveis = {w.active} \ {0}
  \/ w.running /\ w.active # 0 /\ w.fase = <<"show", 0, w.active>> /\ w.visiveis = {w.active}
  \/ /\ w.running
     /\ \E v \in Abas \ {w.active} : w.fase = <<"hide", v, w.active>> /\ w.visiveis = {v}

\* The Tab key reaches the tabs, the active one among them.
OrdemAlcanca(w) == w.ordem # {} /\ {w.active} \ {0} \subseteq w.ordem

UmPedido(w) == \A i \in Abas : w.pedidos[i] = "enviado" => i = w.active /\ i = w.xhr

AbaOK(w) == w \in TipoDaAba /\ PainelDaFase(w) /\ OrdemAlcanca(w) /\ UmPedido(w)

LEMMA TabsAreNumbered ==
  /\ NAbas \in Nat /\ 1 \in Abas /\ Remotas \subseteq Abas /\ 0 \notin Abas /\ 0 \in 0..NAbas
  /\ 0..NAbas = Abas \cup {0}
  BY ConstantesDasAbas DEF Abas

LEMMA PhasesOfTabs ==
  SemAnimacao \in TipoDaFase
  /\ \A v, n \in 0..NAbas : <<"show", v, n>> \in TipoDaFase /\ <<"hide", v, n>> \in TipoDaFase
  BY TabsAreNumbered DEF TipoDaFase, SemAnimacao

\* An animation that ends, also one that is cut short, goes on to what is right.
LEMMA AnimationEnds ==
  ASSUME NEW w, AbaOK(w)
  PROVE  /\ AbaOK(completa(w))
         /\ completa(w).pedidos = w.pedidos /\ completa(w).xhr = w.xhr
         /\ completa(w).active = w.active
PROOF
  <1> USE TabsAreNumbered
  <1>0. w \in TipoDaAba
    BY DEF AbaOK
  <1>1. CASE w.running /\ \E v \in Abas \ {w.active} : w.fase = <<"hide", v, w.active>> /\ w.visiveis = {v}
    <2>1. PICK v \in Abas \ {w.active} : w.fase = <<"hide", v, w.active>> /\ w.visiveis = {v}
      BY <1>1
    <2>2. w.fase[1] = "hide" /\ w.fase[2] = v /\ w.fase[3] = w.active
      BY <2>1
    <2>3. completa(w) = mostra([w EXCEPT !.visiveis = {}], w.active)
      BY <1>0, <2>1, <2>2 DEF completa
    <2>4. CASE w.active # 0 /\ w.animada
      <3>1. completa(w) = [w EXCEPT !.visiveis = {w.active}, !.fase = <<"show", 0, w.active>>]
        <4>1. [w EXCEPT !.visiveis = {}].animada = w.animada /\ [w EXCEPT !.visiveis = {}].visiveis = {}
          BY <1>0 DEF TipoDaAba
        <4>2. completa(w) = [[w EXCEPT !.visiveis = {}] EXCEPT
                               !.visiveis = {} \cup {w.active}, !.fase = <<"show", 0, w.active>>]
          BY <2>3, <2>4, <4>1 DEF mostra
        <4> QED
          BY <1>0, <4>2 DEF TipoDaAba
      <3>2. completa(w) \in TipoDaAba
        <4>1. w.active \in 0..NAbas /\ {w.active} \in SUBSET Abas
          BY <1>0, <2>4 DEF TipoDaAba
        <4>2. <<"show", 0, w.active>> \in TipoDaFase
          BY <4>1, PhasesOfTabs
        <4> QED
          BY <1>0, <3>1, <4>1, <4>2 DEF TipoDaAba
      <3> QED
        BY <1>0, <1>1, <2>4, <3>1, <3>2 DEF AbaOK, TipoDaAba, PainelDaFase, OrdemAlcanca, UmPedido
    <2>5. CASE ~(w.active # 0 /\ w.animada)
      <3>1. completa(w) = [w EXCEPT !.visiveis = {w.active} \ {0}, !.fase = SemAnimacao,
                                    !.running = FALSE]
        BY <1>0, <2>3, <2>5 DEF mostra, TipoDaAba
      <3>2. completa(w) \in TipoDaAba
        BY <1>0, <3>1, PhasesOfTabs DEF TipoDaAba
      <3> QED
        BY <1>0, <3>1, <3>2 DEF AbaOK, TipoDaAba, PainelDaFase, OrdemAlcanca, UmPedido
    <2> QED
      BY <2>4, <2>5
  <1>2. CASE /\ w.fase = SemAnimacao \/ w.fase = <<"show", 0, w.active>>
             /\ w.visiveis = {w.active} \ {0}
    <2>1. completa(w) = [w EXCEPT !.fase = SemAnimacao, !.running = FALSE]
      BY <1>2 DEF completa, SemAnimacao
    <2>2. completa(w) \in TipoDaAba
      BY <1>0, <2>1, PhasesOfTabs DEF TipoDaAba
    <2> QED
      BY <1>0, <1>2, <2>1, <2>2 DEF AbaOK, TipoDaAba, PainelDaFase, OrdemAlcanca, UmPedido
  <1> QED
    BY <1>1, <1>2 DEF AbaOK, PainelDaFase

LEMMA StopEnds ==
  ASSUME NEW w, AbaOK(w)
  PROVE  AbaOK(stop(w)) /\ stop(w).pedidos = w.pedidos /\ stop(w).xhr = w.xhr
PROOF
  <1>1. AbaOK(completa(w)) /\ completa(w).pedidos = w.pedidos /\ completa(w).xhr = w.xhr
    BY AnimationEnds
  <1>2. AbaOK(completa(completa(w))) /\ completa(completa(w)).pedidos = w.pedidos
        /\ completa(completa(w)).xhr = w.xhr
    BY <1>1, AnimationEnds
  <1> QED
    BY <1>1, <1>2 DEF stop

\* A choice, made while nothing moves: from the panel that is shown to the one of
\* the tab that is active by now.
LEMMA ToggleTab ==
  ASSUME NEW w, w \in TipoDaAba, UmPedido(w), ~w.running,
         NEW velha \in 0..NAbas, NEW nova \in 0..NAbas, nova = w.active, nova # velha,
         w.visiveis = {velha} \ {0}, w.ordem # {}
  PROVE  AbaOK(_toggleAba(w, velha, nova))
PROOF
  <1> USE TabsAreNumbered
  <1> DEFINE w1 == [w EXCEPT !.running = TRUE, !.selected = (@ \ {velha}) \cup ({nova} \ {0}),
                      !.ordem = IF nova = 0 THEN @ ELSE (@ \ {velha}) \cup {nova}]
  <1>1. /\ w1 \in TipoDaAba /\ w1.running = TRUE /\ w1.active = nova /\ w1.animada = w.animada
        /\ w1.visiveis = {velha} \ {0} /\ w1.pedidos = w.pedidos /\ w1.xhr = w.xhr
    <2>1. {nova} \ {0} \in SUBSET Abas
      OBVIOUS
    <2> QED
      BY <2>1 DEF TipoDaAba
  <1>2. w1.ordem # {} /\ {nova} \ {0} \subseteq w1.ordem
    <2>1. CASE nova = 0
      <3>1. w1.ordem = w.ordem
        BY <2>1 DEF TipoDaAba
      <3> QED
        BY <2>1, <3>1
    <2>2. CASE nova # 0
      <3>1. w1.ordem = (w.ordem \ {velha}) \cup {nova}
        BY <2>2 DEF TipoDaAba
      <3> QED
        BY <3>1
    <2> QED
      BY <2>1, <2>2
  <1>3. \A i \in Abas : w1.pedidos[i] = "enviado" => i = nova /\ i = w1.xhr
    BY <1>1 DEF UmPedido
  <1>4. _toggleAba(w, velha, nova) =
          IF velha # 0 /\ w1.animada THEN [w1 EXCEPT !.fase = <<"hide", velha, nova>>]
          ELSE mostra([w1 EXCEPT !.visiveis = @ \ {velha}], nova)
    BY <1>1 DEF _toggleAba
  <1> HIDE DEF w1
  <1>5. CASE velha # 0 /\ w1.animada
    <2> DEFINE v == [w1 EXCEPT !.fase = <<"hide", velha, nova>>]
    <2>1. /\ v \in TipoDaAba /\ v.running = TRUE /\ v.active = nova /\ v.visiveis = {velha}
          /\ v.fase = <<"hide", velha, nova>> /\ v.ordem = w1.ordem
          /\ v.pedidos = w1.pedidos /\ v.xhr = w1.xhr
      <3>1. <<"hide", velha, nova>> \in TipoDaFase
        BY PhasesOfTabs
      <3> QED
        BY <1>1, <1>5, <3>1 DEF TipoDaAba
    <2> HIDE DEF v
    <2>2. PainelDaFase(v)
      BY <1>5, <2>1 DEF PainelDaFase
    <2>3. AbaOK(v)
      BY <1>2, <1>3, <2>1, <2>2 DEF AbaOK, OrdemAlcanca, UmPedido
    <2> QED
      BY <1>4, <1>5, <2>3 DEF v
  <1>6. CASE ~(velha # 0 /\ w1.animada)
    <2> DEFINE u == [w1 EXCEPT !.visiveis = @ \ {velha}]
               v == mostra(u, nova)
    <2>1. /\ u \in TipoDaAba /\ u.running = TRUE /\ u.active = nova /\ u.visiveis = {}
          /\ u.animada = w1.animada
          /\ u.ordem = w1.ordem /\ u.pedidos = w1.pedidos /\ u.xhr = w1.xhr
      BY <1>1 DEF TipoDaAba
    <2> HIDE DEF u
    <2>2. /\ v \in TipoDaAba /\ v.active = nova /\ v.visiveis = {nova} \ {0}
          /\ \/ v.running = TRUE /\ nova # 0 /\ v.fase = <<"show", 0, nova>>
             \/ v.running = FALSE /\ v.fase = SemAnimacao
          /\ v.ordem = w1.ordem /\ v.pedidos = w1.pedidos /\ v.xhr = w1.xhr
      <3>1. CASE nova # 0 /\ u.animada
        <4>1. v = [u EXCEPT !.visiveis = @ \cup {nova}, !.fase = <<"show", 0, nova>>]
          BY <3>1 DEF mostra
        <4>2. <<"show", 0, nova>> \in TipoDaFase /\ u.visiveis \cup {nova} \in SUBSET Abas
              /\ u.visiveis \cup {nova} = {nova} \ {0}
          BY <2>1, <3>1, PhasesOfTabs
        <4>3. v \in TipoDaAba
          BY <2>1, <4>1, <4>2 DEF TipoDaAba
        <4>4. /\ v.active = nova /\ v.visiveis = u.visiveis \cup {nova} /\ v.running = TRUE
              /\ v.fase = <<"show", 0, nova>>
              /\ v.ordem = w1.ordem /\ v.pedidos = w1.pedidos /\ v.xhr = w1.xhr
          <5> HIDE DEF v
          <5> QED
            BY <2>1, <4>1 DEF TipoDaAba
        <4> QED
          BY <3>1, <4>2, <4>3, <4>4
      <3>2. CASE ~(nova # 0 /\ u.animada)
        <4>1. v = [u EXCEPT !.visiveis = @ \cup ({nova} \ {0}), !.fase = SemAnimacao, !.running = FALSE]
          BY <3>2 DEF mostra
        <4>2. SemAnimacao \in TipoDaFase /\ u.visiveis \cup ({nova} \ {0}) \in SUBSET Abas
              /\ u.visiveis \cup ({nova} \ {0}) = {nova} \ {0}
          BY <2>1, PhasesOfTabs
        <4>3. v \in TipoDaAba
          BY <2>1, <4>1, <4>2 DEF TipoDaAba
        <4>4. /\ v.active = nova /\ v.visiveis = u.visiveis \cup ({nova} \ {0}) /\ v.running = FALSE
              /\ v.fase = SemAnimacao
              /\ v.ordem = w1.ordem /\ v.pedidos = w1.pedidos /\ v.xhr = w1.xhr
          <5> HIDE DEF v
          <5> QED
            BY <2>1, <4>1 DEF TipoDaAba
        <4> QED
          BY <4>2, <4>3, <4>4
      <3> QED
        BY <3>1, <3>2
    <2> HIDE DEF v
    <2>3. PainelDaFase(v)
      BY <2>2 DEF PainelDaFase
    <2>4. AbaOK(v)
      BY <1>2, <1>3, <2>2, <2>3 DEF AbaOK, OrdemAlcanca, UmPedido
    <2> QED
      BY <1>4, <1>6, <2>4 DEF u, v
  <1> QED
    BY <1>5, <1>6

\* The request of the tab that is left ends, and that of the new one begins.
LEMMA RequestOfTheNewTab ==
  ASSUME NEW w, w \in TipoDaAba, NEW nova \in 0..NAbas, nova = w.active,
         \A i \in Abas : w.pedidos[i] = "enviado" => i = w.xhr
  PROVE  LET v == load(abort(w), nova) IN
         /\ v \in TipoDaAba /\ UmPedido(v)
         /\ v.active = w.active /\ v.running = w.running /\ v.visiveis = w.visiveis
         /\ v.ordem = w.ordem /\ v.fase = w.fase
PROOF
  <1> USE TabsAreNumbered
  <1> DEFINE a == abort(w)
             v == load(a, nova)
  <1>1. /\ a \in TipoDaAba /\ \A i \in Abas : a.pedidos[i] # "enviado"
        /\ a.active = w.active /\ a.running = w.running /\ a.visiveis = w.visiveis
        /\ a.ordem = w.ordem /\ a.fase = w.fase
    <2>1. CASE w.xhr # 0 /\ w.pedidos[w.xhr] = "enviado"
      <3>1. a = [w EXCEPT !.pedidos[w.xhr] = "abortado"] /\ w.xhr \in Abas
        BY <2>1 DEF abort, TipoDaAba
      <3> QED
        BY <3>1 DEF TipoDaAba
    <2>2. CASE ~(w.xhr # 0 /\ w.pedidos[w.xhr] = "enviado")
      <3>1. a = w
        BY <2>2 DEF abort
      <3> QED
        BY <2>2, <3>1
    <2> QED
      BY <2>1, <2>2
  <1> HIDE DEF a
  <1>2. CASE nova \in Remotas
    <2>1. v = [a EXCEPT !.pedidos[nova] = "enviado", !.xhr = nova] /\ nova \in Abas
      BY <1>2 DEF load
    <2>2. v \in TipoDaAba
      <3> HIDE DEF v
      <3>1. a.pedidos \in [Abas -> {"nenhum", "enviado", "respondido", "abortado"}]
        BY <1>1 DEF TipoDaAba
      <3>2. [a.pedidos EXCEPT ![nova] = "enviado"]
              \in [Abas -> {"nenhum", "enviado", "respondido", "abortado"}]
        BY <3>1
      <3>3. v = [a EXCEPT !.pedidos = [a.pedidos EXCEPT ![nova] = "enviado"], !.xhr = nova]
        BY <2>1
      <3> QED
        BY <1>1, <3>2, <3>3 DEF TipoDaAba
    <2>3. /\ v.active = w.active /\ v.running = w.running /\ v.visiveis = w.visiveis
          /\ v.ordem = w.ordem /\ v.fase = w.fase /\ v.xhr = nova
          /\ v.pedidos = [a.pedidos EXCEPT ![nova] = "enviado"]
      <3> HIDE DEF v
      <3> QED
        BY <1>1, <2>1 DEF TipoDaAba
    <2>4. UmPedido(v)
      <3> HIDE DEF v
      <3>1. a.pedidos \in [Abas -> {"nenhum", "enviado", "respondido", "abortado"}]
        BY <1>1 DEF TipoDaAba
      <3> QED
        BY <1>1, <2>1, <2>3, <3>1 DEF UmPedido
    <2> QED
      BY <2>2, <2>3, <2>4 DEF a
  <1>3. CASE nova \notin Remotas
    <2>1. v = a
      BY <1>3 DEF load
    <2> QED
      BY <1>1, <2>1 DEF a, UmPedido
  <1> QED
    BY <1>2, <1>3

LEMMA ChooseTab ==
  ASSUME NEW w, AbaOK(w), NEW i \in Abas
  PROVE  AbaOK(_eventHandlerAba(w, i))
PROOF
  <1> USE TabsAreNumbered
  <1> DEFINE nova == IF w.active = i THEN 0 ELSE i
             u == [w EXCEPT !.active = nova]
             v == load(abort(u), nova)
  <1>1. CASE i \in w.disabled \/ w.pedidos[i] # "nenhum" \/ w.running
             \/ (nova = 0 /\ ~w.collapsible)
    BY <1>1 DEF _eventHandlerAba
  <1>2. CASE ~(i \in w.disabled \/ w.pedidos[i] # "nenhum" \/ w.running
               \/ (nova = 0 /\ ~w.collapsible))
    <2>1. w \in TipoDaAba /\ nova \in 0..NAbas /\ nova # w.active /\ ~w.running
      BY <1>2 DEF AbaOK
    <2>2. /\ u \in TipoDaAba /\ u.active = nova /\ u.pedidos = w.pedidos /\ u.xhr = w.xhr
          /\ u.running = w.running /\ u.visiveis = w.visiveis /\ u.ordem = w.ordem
      BY <2>1 DEF TipoDaAba
    <2>3. w.visiveis = {w.active} \ {0}
      BY <1>2 DEF AbaOK, PainelDaFase
    <2>4. w.ordem # {}
      BY DEF AbaOK, OrdemAlcanca
    <2>5. w.active \in 0..NAbas
      BY <2>1 DEF TipoDaAba
    <2>6. \A k \in Abas : u.pedidos[k] = "enviado" => k = u.xhr
      BY <2>2 DEF AbaOK, UmPedido
    <2>7. _eventHandlerAba(w, i) = _toggleAba(v, w.active, nova)
      BY <1>2 DEF _eventHandlerAba
    <2> HIDE DEF u, nova
    <2>8. /\ v \in TipoDaAba /\ UmPedido(v) /\ v.active = nova /\ ~v.running
          /\ v.visiveis = {w.active} \ {0} /\ v.ordem # {}
      BY <2>1, <2>2, <2>3, <2>4, <2>6, RequestOfTheNewTab
    <2> HIDE DEF v
    <2> QED
      BY <2>1, <2>4, <2>5, <2>7, <2>8, ToggleTab
  <1> QED
    BY <1>1, <1>2

LEMMA ActivateTab ==
  ASSUME NEW w, AbaOK(w), NEW i \in 0..NAbas
  PROVE  AbaOK(_activateAba(w, i))
PROOF
  <1>1. w.active \in 0..NAbas
    BY DEF AbaOK, TipoDaAba
  <1> QED
    BY <1>1, ChooseTab, TabsAreNumbered DEF _activateAba

\* The tab that a key finds is one, also when all are disabled.
LEMMA FirstOfNumbers ==
  \A S \in SUBSET Nat : S # {} => \E x \in S : \A y \in S : x <= y
PROOF
  <1> SUFFICES ASSUME NEW S \in SUBSET Nat, S # {} PROVE \E x \in S : \A y \in S : x <= y
    OBVIOUS
  <1>1. PICK x \in S : \A y \in S : ~(<<y, x>> \in OpToRel(<, Nat))
    BY NatLessThanWellFounded, WFMin
  <1>2. \A y \in S : ~(y < x)
    BY <1>1, Zenon DEF OpToRel
  <1> QED
    BY <1>2

LEMMA LastOfNumbers ==
  \A n \in Nat : \A S \in SUBSET (1..n) : S # {} => \E x \in S : \A y \in S : x >= y
PROOF
  <1> SUFFICES ASSUME NEW n \in Nat, NEW S \in SUBSET (1..n), S # {}
               PROVE  \E x \in S : \A y \in S : x >= y
    OBVIOUS
  <1> DEFINE T == {n - x : x \in S}
  <1>1. T \in SUBSET Nat /\ T # {}
    <2>1. \A x \in S : n - x \in Nat
      OBVIOUS
    <2> QED
      BY <2>1
  <1>2. PICK t \in T : \A u \in T : t <= u
    BY <1>1, FirstOfNumbers
  <1>3. PICK x \in S : t = n - x
    BY <1>2
  <1>4. \A y \in S : n - x <= n - y
    BY <1>2, <1>3
  <1> QED
    BY <1>4

LEMMA NextTab ==
  ASSUME NEW w, w.disabled \in SUBSET Abas, NEW i \in Int, NEW adiante \in BOOLEAN
  PROVE  _findNextTab(w, i, adiante) \in Abas
PROOF
  <1> USE TabsAreNumbered
  <1> DEFINE livres == IF w.disabled = Abas THEN Abas ELSE Abas \ w.disabled
             i0 == IF i > NAbas THEN 1 ELSE IF i < 1 THEN NAbas ELSE i
             depois == IF adiante THEN {j \in livres : j >= i0} ELSE {j \in livres : j <= i0}
             onde == IF depois = {} THEN livres ELSE depois
  <1>1. livres # {} /\ livres \in SUBSET Abas
    OBVIOUS
  <1>2. depois \in SUBSET livres
    OBVIOUS
  <1> HIDE DEF livres, depois
  <1>3. onde # {} /\ onde \in SUBSET Abas
    BY <1>1, <1>2
  <1> HIDE DEF onde
  <1>4. \E j \in onde : \A k \in onde : IF adiante THEN j <= k ELSE j >= k
    <2>1. CASE adiante
      <3>1. onde \in SUBSET Nat
        BY <1>3 DEF Abas
      <3> QED
        BY <1>3, <2>1, <3>1, FirstOfNumbers
    <2>2. CASE ~adiante
      BY <1>3, <2>2, LastOfNumbers DEF Abas
    <2> QED
      BY <2>1, <2>2
  <1>5. (CHOOSE j \in onde : \A k \in onde : IF adiante THEN j <= k ELSE j >= k) \in onde
    BY <1>4
  <1>6. _findNextTab(w, i, adiante) = CHOOSE j \in onde : \A k \in onde : IF adiante THEN j <= k ELSE j >= k
    BY DEF _findNextTab, onde, depois, livres
  <1> QED
    BY <1>3, <1>5, <1>6

\* Focus, disabled tabs and a delayed activation change nothing of what is shown.
LEMMA FocusKeeps ==
  ASSUME NEW w, AbaOK(w), NEW f \in 0..NAbas, NEW t \in 0..NAbas, NEW s \in SUBSET Abas,
         NEW d \in SUBSET Abas
  PROVE  AbaOK([w EXCEPT !.foco = f, !.ativando = t, !.selected = s, !.disabled = d])
PROOF
  <1> DEFINE v == [w EXCEPT !.foco = f, !.ativando = t, !.selected = s, !.disabled = d]
  <1>1. w \in TipoDaAba
    BY DEF AbaOK
  <1>2. v \in TipoDaAba
    BY <1>1 DEF TipoDaAba
  <1>3. /\ v.active = w.active /\ v.running = w.running /\ v.visiveis = w.visiveis
        /\ v.ordem = w.ordem /\ v.fase = w.fase /\ v.xhr = w.xhr /\ v.pedidos = w.pedidos
    <2> HIDE DEF v
    <2> QED
      BY <1>1 DEF TipoDaAba, v
  <1> HIDE DEF v
  <1>4. AbaOK(v)
    BY <1>2, <1>3 DEF AbaOK, PainelDaFase, OrdemAlcanca, UmPedido
  <1> QED
    BY <1>4 DEF v

LEMMA FocusOfTabs ==
  ASSUME NEW w, AbaOK(w), NEW i \in 0..NAbas
  PROVE  /\ AbaOK([w EXCEPT !.foco = i]) /\ AbaOK([w EXCEPT !.ativando = 0])
         /\ AbaOK([w EXCEPT !.foco = i, !.ativando = 0])
         /\ \A j \in 0..NAbas, s \in SUBSET Abas :
              AbaOK([[w EXCEPT !.foco = i, !.ativando = 0] EXCEPT !.selected = s, !.ativando = j])
         /\ \A d \in SUBSET Abas : AbaOK([w EXCEPT !.disabled = d])
PROOF
  <1> USE TabsAreNumbered
  <1>1. /\ w \in TipoDaAba /\ w.foco \in 0..NAbas /\ w.ativando \in 0..NAbas
        /\ w.selected \in SUBSET Abas /\ w.disabled \in SUBSET Abas
    BY DEF AbaOK, TipoDaAba
  <1>2. [w EXCEPT !.foco = i]
        = [w EXCEPT !.foco = i, !.ativando = w.ativando, !.selected = w.selected, !.disabled = w.disabled]
    BY <1>1 DEF TipoDaAba
  <1>3. [w EXCEPT !.ativando = 0]
        = [w EXCEPT !.foco = w.foco, !.ativando = 0, !.selected = w.selected, !.disabled = w.disabled]
    BY <1>1 DEF TipoDaAba
  <1>4. [w EXCEPT !.foco = i, !.ativando = 0]
        = [w EXCEPT !.foco = i, !.ativando = 0, !.selected = w.selected, !.disabled = w.disabled]
    BY <1>1 DEF TipoDaAba
  <1>5. ASSUME NEW j \in 0..NAbas, NEW s \in SUBSET Abas
        PROVE  [[w EXCEPT !.foco = i, !.ativando = 0] EXCEPT !.selected = s, !.ativando = j]
               = [w EXCEPT !.foco = i, !.ativando = j, !.selected = s, !.disabled = w.disabled]
    BY <1>1 DEF TipoDaAba
  <1>6. ASSUME NEW d \in SUBSET Abas
        PROVE  [w EXCEPT !.disabled = d]
               = [w EXCEPT !.foco = w.foco, !.ativando = w.ativando, !.selected = w.selected, !.disabled = d]
    BY <1>1 DEF TipoDaAba
  <1>7. AbaOK([w EXCEPT !.foco = i])
    <2>1. AbaOK([w EXCEPT !.foco = i, !.ativando = w.ativando, !.selected = w.selected, !.disabled = w.disabled])
      BY <1>1, FocusKeeps
    <2> QED
      BY <1>2, <2>1
  <1>8. AbaOK([w EXCEPT !.ativando = 0])
    <2>1. AbaOK([w EXCEPT !.foco = w.foco, !.ativando = 0, !.selected = w.selected, !.disabled = w.disabled])
      BY <1>1, FocusKeeps
    <2> QED
      BY <1>3, <2>1
  <1>9. AbaOK([w EXCEPT !.foco = i, !.ativando = 0])
    <2>1. AbaOK([w EXCEPT !.foco = i, !.ativando = 0, !.selected = w.selected, !.disabled = w.disabled])
      BY <1>1, FocusKeeps
    <2> QED
      BY <1>4, <2>1
  <1>10. ASSUME NEW j \in 0..NAbas, NEW s \in SUBSET Abas
         PROVE  AbaOK([[w EXCEPT !.foco = i, !.ativando = 0] EXCEPT !.selected = s, !.ativando = j])
    <2>1. AbaOK([w EXCEPT !.foco = i, !.ativando = j, !.selected = s, !.disabled = w.disabled])
      BY <1>1, FocusKeeps
    <2> QED
      BY <1>5, <2>1
  <1>11. ASSUME NEW d \in SUBSET Abas PROVE AbaOK([w EXCEPT !.disabled = d])
    <2>1. AbaOK([w EXCEPT !.foco = w.foco, !.ativando = w.ativando, !.selected = w.selected, !.disabled = d])
      BY <1>1, FocusKeeps
    <2> QED
      BY <1>6, <2>1
  <1> QED
    BY <1>7, <1>8, <1>9, <1>10, <1>11

LEMMA AnswerTab ==
  ASSUME NEW w, AbaOK(w), NEW i \in Abas, w.pedidos[i] = "enviado"
  PROVE  AbaOK([w EXCEPT !.pedidos[i] = "respondido"])
PROOF
  <1> DEFINE v == [w EXCEPT !.pedidos[i] = "respondido"]
  <1>1. w \in TipoDaAba /\ UmPedido(w)
    BY DEF AbaOK
  <1>2. v \in TipoDaAba
    BY <1>1 DEF TipoDaAba
  <1>3. /\ v.active = w.active /\ v.running = w.running /\ v.visiveis = w.visiveis
        /\ v.ordem = w.ordem /\ v.fase = w.fase /\ v.xhr = w.xhr
        /\ \A j \in Abas : v.pedidos[j] = "enviado" => w.pedidos[j] = "enviado"
    <2> HIDE DEF v
    <2> QED
      BY <1>1 DEF TipoDaAba, v
  <1> HIDE DEF v
  <1>4. AbaOK(v)
    BY <1>1, <1>2, <1>3 DEF AbaOK, PainelDaFase, OrdemAlcanca, UmPedido
  <1> QED
    BY <1>4 DEF v

\* The end of a request forgets it, and no other that is on its way.
LEMMA EndRequest ==
  ASSUME NEW w, AbaOK(w), NEW i \in Abas, w.pedidos[i] # "enviado"
  PROVE  AbaOK([w EXCEPT !.pedidos[i] = "nenhum", !.xhr = IF @ = i THEN 0 ELSE @])
PROOF
  <1> DEFINE v == [w EXCEPT !.pedidos[i] = "nenhum", !.xhr = IF @ = i THEN 0 ELSE @]
  <1>1. w \in TipoDaAba /\ UmPedido(w)
    BY DEF AbaOK
  <1>2. v \in TipoDaAba
    BY <1>1, TabsAreNumbered DEF TipoDaAba
  <1>3. /\ v.active = w.active /\ v.running = w.running /\ v.visiveis = w.visiveis
        /\ v.ordem = w.ordem /\ v.fase = w.fase /\ v.xhr = (IF w.xhr = i THEN 0 ELSE w.xhr)
        /\ \A j \in Abas : v.pedidos[j] = "enviado" => j # i /\ w.pedidos[j] = "enviado"
    <2> HIDE DEF v
    <2> QED
      BY <1>1 DEF TipoDaAba, v
  <1> HIDE DEF v
  <1>4. UmPedido(v)
    BY <1>1, <1>3 DEF UmPedido
  <1>5. AbaOK(v)
    BY <1>2, <1>3, <1>4 DEF AbaOK, PainelDaFase, OrdemAlcanca
  <1> QED
    BY <1>5 DEF v

LEMMA TabsStep ==
  ASSUME AbaOK(aba), AbasNext
  PROVE  AbaOK(aba)'
PROOF
  <1> USE TabsAreNumbered
  <1>0. /\ aba.foco \in 0..NAbas /\ aba.active \in 0..NAbas /\ aba.ativando \in 0..NAbas
        /\ aba.ordem \in SUBSET Abas /\ aba.disabled \in SUBSET Abas /\ aba.selected \in SUBSET Abas
    BY DEF AbaOK, TipoDaAba
  <1>1. SUFFICES AbaOK(aba')
    BY DEF AbaOK, TipoDaAba, PainelDaFase, OrdemAlcanca, UmPedido
  <1>2. ASSUME NEW i \in Abas, clickAba(i) PROVE AbaOK(aba')
    <2> DEFINE w == IF i \in aba.disabled THEN aba ELSE [aba EXCEPT !.foco = i]
    <2>1. AbaOK(w)
      BY FocusOfTabs
    <2>2. aba' = IF aba.disabled = Abas THEN w ELSE _eventHandlerAba(w, i)
      BY <1>2 DEF clickAba
    <2> HIDE DEF w
    <2> QED
      BY <2>1, <2>2, ChooseTab
  <1>3. ASSUME NEW i \in Abas, disable(i) \/ enable(i) PROVE AbaOK(aba')
    <2>1. PICK d \in SUBSET Abas : aba' = [aba EXCEPT !.disabled = d]
      BY <1>0, <1>3 DEF disable, enable
    <2>2. AbaOK([aba EXCEPT !.disabled = d])
      BY <1>0, FocusOfTabs
    <2> QED
      BY <2>1, <2>2
  <1>4. ASSUME NEW i \in Abas, responde(i) PROVE AbaOK(aba')
    BY <1>4, AnswerTab DEF responde
  <1>5. ASSUME NEW i \in Abas, completeAba(i) PROVE AbaOK(aba')
    <2> DEFINE w == IF aba.pedidos[i] = "abortado" THEN stop(aba) ELSE aba
    <2>1. AbaOK(w) /\ w.pedidos = aba.pedidos
      BY StopEnds
    <2>2. /\ aba.pedidos[i] \in {"abortado", "respondido"}
          /\ aba' = [w EXCEPT !.pedidos[i] = "nenhum", !.xhr = IF @ = i THEN 0 ELSE @]
      BY <1>5 DEF completeAba
    <2> HIDE DEF w
    <2> QED
      BY <2>1, <2>2, EndRequest
  <1>6. CASE tecla
    <2> DEFINE f == aba.foco
    <2>0. f \in Abas /\ f \in Int /\ f + 1 \in Int /\ f - 1 \in Int /\ 1 \in Int /\ NAbas \in Int
      BY <1>0, <1>6 DEF tecla, Abas
    <2>1. ASSUME NEW i \in Int, NEW adiante \in BOOLEAN, NEW ctrl \in BOOLEAN,
                 _tabKeydown(i, adiante, ctrl)
          PROVE  AbaOK(aba')
      <3> DEFINE j == _findNextTab(aba, i, adiante)
      <3>1. j \in Abas
        BY <1>0, NextTab
      <3>2. aba' = IF ctrl THEN [aba EXCEPT !.foco = j, !.ativando = 0]
                   ELSE [[aba EXCEPT !.foco = j, !.ativando = 0] EXCEPT
                           !.selected = ([aba EXCEPT !.foco = j, !.ativando = 0].selected \ {aba.foco}) \cup {j},
                           !.ativando = j]
        BY <2>1 DEF _tabKeydown
      <3> HIDE DEF j
      <3>3. [aba EXCEPT !.foco = j, !.ativando = 0].selected = aba.selected
        BY DEF AbaOK, TipoDaAba
      <3>4. (aba.selected \ {aba.foco}) \cup {j} \in SUBSET Abas
        BY <1>0, <3>1
      <3> QED
        BY <3>1, <3>2, <3>3, <3>4, FocusOfTabs
    <2>2. ASSUME NEW i \in 0..NAbas, _tabKeydownAtiva(i) PROVE AbaOK(aba')
      <3>1. AbaOK([aba EXCEPT !.ativando = 0])
        BY FocusOfTabs
      <3> QED
        BY <2>2, <3>1, ActivateTab DEF _tabKeydownAtiva
    <2>3. CASE _handlePageNav
      <3> DEFINE base == IF aba.active = 0 THEN 1 ELSE aba.active
      <3>1. PICK adiante \in BOOLEAN :
              LET j == _findNextTab(aba, IF adiante THEN base + 1 ELSE base - 1, adiante) IN
              aba' = _activateAba([aba EXCEPT !.foco = j], j)
        BY <2>3 DEF _handlePageNav
      <3> DEFINE k == IF adiante THEN base + 1 ELSE base - 1
                 j == _findNextTab(aba, k, adiante)
      <3>2. k \in Int
        BY <1>0
      <3> HIDE DEF k
      <3>3. j \in Abas
        BY <1>0, <3>2, NextTab
      <3>4. aba' = _activateAba([aba EXCEPT !.foco = j], j)
        BY <3>1 DEF k
      <3> HIDE DEF j
      <3>5. AbaOK([aba EXCEPT !.foco = j])
        BY <3>3, FocusOfTabs
      <3> QED
        BY <3>3, <3>4, <3>5, ActivateTab
    <2> HIDE DEF f
    <2>4. \/ \E ctrl \in BOOLEAN : \/ _tabKeydown(f + 1, TRUE, ctrl) \/ _tabKeydown(f - 1, FALSE, ctrl)
                                   \/ _tabKeydown(1, TRUE, ctrl) \/ _tabKeydown(NAbas, TRUE, ctrl)
          \/ _tabKeydownAtiva(f) \/ _tabKeydownAtiva(IF f = aba.active THEN 0 ELSE f)
          \/ _handlePageNav
      BY <1>6 DEF tecla, f
    <2> QED
      BY <2>0, <2>1, <2>2, <2>3, <2>4
  <1>7. CASE ganhaFocoAba \/ perdeFocoAba
    <2>1. PICK i \in 0..NAbas : aba' = [aba EXCEPT !.foco = i]
      BY <1>0, <1>7 DEF ganhaFocoAba, perdeFocoAba
    <2>2. AbaOK([aba EXCEPT !.foco = i])
      BY FocusOfTabs
    <2> QED
      BY <2>1, <2>2
  <1>8. CASE anima
    BY <1>8, AnimationEnds DEF anima
  <1>9. CASE ativa
    <2>1. AbaOK([aba EXCEPT !.ativando = 0])
      BY FocusOfTabs
    <2> QED
      BY <1>0, <1>9, <2>1, ActivateTab DEF ativa
  <1> QED
    BY <1>2, <1>3, <1>4, <1>5, <1>6, <1>7, <1>8, <1>9 DEF AbasNext

LEMMA TabsBegin ==
  ASSUME AbasInit
  PROVE  AbaOK(aba)
PROOF
  <1> USE TabsAreNumbered
  <1>1. PICK animada, collapsible \in BOOLEAN, i \in 0..NAbas :
          LET sel == {i} \ {0} IN
          /\ i = 0 => collapsible
          /\ aba = load([active |-> i, visiveis |-> sel, selected |-> sel,
                         ordem |-> IF i = 0 THEN {1} ELSE sel, foco |-> 0, ativando |-> 0,
                         running |-> FALSE, fase |-> SemAnimacao, disabled |-> {},
                         pedidos |-> [j \in Abas |-> "nenhum"], xhr |-> 0,
                         animada |-> animada, collapsible |-> collapsible], i)
    BY DEF AbasInit
  <1> DEFINE sel == {i} \ {0}
             p == [j \in Abas |-> "nenhum"]
             w == [active |-> i, visiveis |-> sel, selected |-> sel,
                   ordem |-> IF i = 0 THEN {1} ELSE sel, foco |-> 0, ativando |-> 0,
                   running |-> FALSE, fase |-> SemAnimacao, disabled |-> {},
                   pedidos |-> p, xhr |-> 0,
                   animada |-> animada, collapsible |-> collapsible]
  <1>2. sel \in SUBSET Abas /\ p \in [Abas -> {"nenhum", "enviado", "respondido", "abortado"}]
    OBVIOUS
  <1>3. \A j \in Abas : p[j] = "nenhum"
    OBVIOUS
  <1> HIDE DEF p
  <1>4. w \in TipoDaAba
    BY <1>2, PhasesOfTabs DEF TipoDaAba
  <1>5. aba = load(w, i)
    BY <1>1 DEF p
  <1> DEFINE q == IF i \in Remotas THEN [p EXCEPT ![i] = "enviado"] ELSE p
             x == IF i \in Remotas THEN i ELSE 0
  <1>6. aba = [w EXCEPT !.pedidos = q, !.xhr = x]
    <2>1. w.pedidos = p /\ w.xhr = 0
      OBVIOUS
    <2> HIDE DEF w
    <2>2. CASE i \in Remotas
      BY <1>5, <2>1, <2>2 DEF load
    <2>3. CASE i \notin Remotas
      <3>1. aba = w
        BY <1>5, <2>3 DEF load
      <3> QED
        BY <1>4, <2>1, <2>3, <3>1 DEF TipoDaAba
    <2> QED
      BY <2>2, <2>3
  <1>7. /\ q \in [Abas -> {"nenhum", "enviado", "respondido", "abortado"}] /\ x \in 0..NAbas
        /\ \A j \in Abas : q[j] = "enviado" => j = i /\ j = x
    BY <1>2, <1>3
  <1> HIDE DEF q, x
  <1>8. aba \in TipoDaAba
    <2> HIDE DEF w
    <2> QED
      BY <1>4, <1>6, <1>7 DEF TipoDaAba
  <1>9. /\ aba.active = i /\ aba.running = FALSE /\ aba.fase = SemAnimacao /\ aba.visiveis = {i} \ {0}
        /\ aba.ordem = (IF i = 0 THEN {1} ELSE {i} \ {0}) /\ aba.pedidos = q /\ aba.xhr = x
    BY <1>4, <1>6 DEF TipoDaAba
  <1>10. PainelDaFase(aba)
    BY <1>9 DEF PainelDaFase
  <1>11. OrdemAlcanca(aba)
    <2>1. CASE i = 0
      BY <1>9, <2>1 DEF OrdemAlcanca
    <2>2. CASE i # 0
      BY <1>9, <2>2 DEF OrdemAlcanca
    <2> QED
      BY <2>1, <2>2
  <1>12. UmPedido(aba)
    BY <1>7, <1>9 DEF UmPedido
  <1> QED
    BY <1>8, <1>10, <1>11, <1>12 DEF AbaOK

LEMMA TabsOnThePage ==
  [Next]_vars => AbasNext \/ UNCHANGED aba
  BY DEF Next, vars

LEMMA TabsAreOne == AbaOK(aba) => UmaAba /\ PedidoDaAtiva
  BY DEF AbaOK, PainelDaFase, OrdemAlcanca, UmPedido, UmaAba, PedidoDaAtiva

LEMMA TabsInvariant == Spec => []AbaOK(aba)
PROOF
  <1>1. Init => AbaOK(aba)
    BY TabsBegin DEF Init
  <1>2. AbaOK(aba) /\ [Next]_vars => AbaOK(aba)'
    <2>1. AbaOK(aba) /\ UNCHANGED aba => AbaOK(aba)'
      BY DEF AbaOK, TipoDaAba, PainelDaFase, OrdemAlcanca, UmPedido
    <2> QED
      BY <2>1, TabsOnThePage, TabsStep
  <1> QED
    BY <1>1, <1>2, PTL DEF Spec

\* Choices, keys, a delayed activation, requests that end late and animations that
\* are cut short: when nothing moves the active panel is shown alone, and the Tab
\* key always reaches the tabs, the active one among them.
THEOREM OneTabIsShown == Spec => []UmaAba
  BY TabsInvariant, TabsAreOne, PTL

\* The tabs' server is asked for one panel at a time, the active tab's.
THEOREM RequestOfTheActive == Spec => []PedidoDaAtiva
  BY TabsInvariant, TabsAreOne, PTL

----------------------------------------------------------------------------
(* Accordions *)

TipoDaSanfona ==
  [active : 0..NPaineis, prevShow : 0..NPaineis, prevHide : 0..NPaineis,
   anima : (0..NPaineis) \X (0..NPaineis) \X (0..NPaineis),
   visiveis : SUBSET Paineis, conteudo : SUBSET Paineis, cabecas : SUBSET Paineis,
   selected : SUBSET Paineis, ordem : SUBSET Paineis, foco : 0..NPaineis,
   collapsible : BOOLEAN, animate : BOOLEAN]

\* While panels move, one goes, of which the marks may still be there, and the
\* active one comes.
MovemSe(w, ativo) ==
  \E v \in 0..NPaineis :
    /\ v # ativo /\ w.anima = <<v, ativo, v>>
    /\ w.visiveis \ {v} = {ativo} \ {0} /\ w.conteudo \ {v} = {ativo} \ {0}

Assentam(w, ativo) ==
  w.anima = Parada /\ w.visiveis = {ativo} \ {0} /\ w.conteudo = {ativo} \ {0}

SanfonaOK(w) ==
  /\ w \in TipoDaSanfona
  /\ w.prevShow \in {0, w.active} /\ w.ordem # {}
  /\ w.cabecas = {w.active} \ {0} /\ w.selected = {w.active} \ {0}
  /\ MovemSe(w, w.active) \/ Assentam(w, w.active)

LEMMA PanelsAreNumbered ==
  /\ NPaineis \in Nat /\ 1 \in Paineis /\ 0 \notin Paineis /\ 0 \in 0..NPaineis
  /\ 0..NPaineis = Paineis \cup {0} /\ NPaineis \in Paineis
  BY ConstantesDaSanfona DEF Paineis

\* The panels of the last choice arrive before those of the next one move.
LEMMA PanelsArrive ==
  ASSUME NEW u, u \in TipoDaSanfona, NEW velho \in 0..NPaineis,
         u.cabecas = {velho} \ {0},
         MovemSe(u, velho) \/ Assentam(u, velho)
  PROVE  LET c == chega(u) IN
         /\ c \in TipoDaSanfona /\ c.anima = Parada
         /\ c.visiveis = {velho} \ {0} /\ c.conteudo = {velho} \ {0} /\ c.cabecas = {velho} \ {0}
         /\ c.active = u.active /\ c.prevShow = u.prevShow /\ c.ordem = u.ordem
         /\ c.selected = u.selected /\ c.animate = u.animate
PROOF
  <1> USE PanelsAreNumbered
  <1> DEFINE c == chega(u)
  <1>1. CASE MovemSe(u, velho)
    <2>1. PICK v \in 0..NPaineis :
            /\ v # velho /\ u.anima = <<v, velho, v>>
            /\ u.visiveis \ {v} = {velho} \ {0} /\ u.conteudo \ {v} = {velho} \ {0}
      BY <1>1 DEF MovemSe
    <2>2. u.anima # Parada /\ u.anima[1] = v /\ u.anima[3] = v
      BY <2>1 DEF Parada
    <2>3. c = [[u EXCEPT !.conteudo = u.conteudo \ {v}, !.cabecas = u.cabecas \ {v}]
                 EXCEPT !.visiveis = @ \ {v}, !.anima = Parada]
      BY <2>2 DEF chega, _toggleComplete
    <2>4. c = [u EXCEPT !.conteudo = u.conteudo \ {v}, !.cabecas = u.cabecas \ {v},
                        !.visiveis = u.visiveis \ {v}, !.anima = Parada]
      BY <2>3 DEF TipoDaSanfona
    <2>5. Parada \in (0..NPaineis) \X (0..NPaineis) \X (0..NPaineis) /\ u.cabecas \ {v} = {velho} \ {0}
      BY <2>1 DEF Parada
    <2> HIDE DEF c
    <2>6. c \in TipoDaSanfona
      BY <2>1, <2>4, <2>5 DEF TipoDaSanfona
    <2>7. /\ c.anima = Parada /\ c.visiveis = u.visiveis \ {v} /\ c.conteudo = u.conteudo \ {v}
          /\ c.cabecas = u.cabecas \ {v}
          /\ c.active = u.active /\ c.prevShow = u.prevShow /\ c.ordem = u.ordem
          /\ c.selected = u.selected /\ c.animate = u.animate
      BY <2>4 DEF TipoDaSanfona
    <2> QED
      BY <2>1, <2>5, <2>6, <2>7 DEF c
  <1>2. CASE Assentam(u, velho)
    BY <1>2 DEF chega, Assentam
  <1> QED
    BY <1>1, <1>2

\* What a choice leaves before the new header and its panel are marked.
LEMMA TogglePanel ==
  ASSUME NEW u, u \in TipoDaSanfona, NEW velho \in 0..NPaineis, NEW nova \in 0..NPaineis,
         u.active = nova, nova # velho, u.prevShow \in {0, velho}, u.ordem # {},
         u.cabecas = {velho} \ {0}, u.selected = {velho} \ {0},
         MovemSe(u, velho) \/ Assentam(u, velho)
  PROVE  LET r == _toggleSanfona(u, velho, nova) IN
         /\ r \in TipoDaSanfona /\ r.active = nova /\ r.prevShow = nova /\ r.ordem # {}
         /\ r.selected = {nova} \ {0} /\ r.cabecas \ {velho} = {}
         /\ \/ /\ r.anima = <<velho, nova, velho>>
               /\ r.visiveis \ {velho} = {nova} \ {0} /\ r.conteudo \ {velho} = {}
            \/ r.anima = Parada /\ r.visiveis = {nova} \ {0} /\ r.conteudo = {}
PROOF
  <1> USE PanelsAreNumbered
  <1> DEFINE c == chega(u)
             w1 == [c EXCEPT !.prevShow = nova, !.prevHide = velho,
                             !.selected = (@ \ {velho}) \cup ({nova} \ {0}),
                             !.ordem = IF nova = 0 THEN @
                                       ELSE (IF velho = 0 THEN {} ELSE @ \ {velho}) \cup {nova}]
             ordem2 == IF nova = 0 THEN c.ordem
                       ELSE (IF velho = 0 THEN {} ELSE c.ordem \ {velho}) \cup {nova}
             r == _toggleSanfona(u, velho, nova)
  <1>1. /\ c \in TipoDaSanfona /\ c.anima = Parada
        /\ c.visiveis = {velho} \ {0} /\ c.conteudo = {velho} \ {0} /\ c.cabecas = {velho} \ {0}
        /\ c.active = nova /\ c.ordem = u.ordem /\ c.selected = {velho} \ {0}
    BY PanelsArrive
  <1>2. (IF u.prevShow # 0 THEN u.prevShow ELSE velho) = velho
    OBVIOUS
  <1>3. r = IF u.animate
            THEN [w1 EXCEPT !.anima = <<velho, nova, velho>>, !.visiveis = @ \cup ({nova} \ {0})]
            ELSE _toggleComplete([w1 EXCEPT !.visiveis = (@ \ {velho}) \cup ({nova} \ {0})], velho)
    <2> DEFINE W(e) == [c EXCEPT !.prevShow = nova, !.prevHide = e,
                                 !.selected = (@ \ {e}) \cup ({nova} \ {0}),
                                 !.ordem = IF nova = 0 THEN @
                                           ELSE (IF e = 0 THEN {} ELSE @ \ {e}) \cup {nova}]
               R(e) == IF u.animate
                       THEN [W(e) EXCEPT !.anima = <<e, nova, velho>>, !.visiveis = @ \cup ({nova} \ {0})]
                       ELSE _toggleComplete([W(e) EXCEPT !.visiveis = (@ \ {e}) \cup ({nova} \ {0})], velho)
    <2>1. r = R(IF u.prevShow # 0 THEN u.prevShow ELSE velho)
      BY DEF _toggleSanfona
    <2>2. r = R(velho)
      <3> HIDE DEF R, r
      <3> QED
        BY <1>2, <2>1
    <2> QED
      BY <2>2
  <1> HIDE DEF c, r
  <1>4. ordem2 \in SUBSET Paineis /\ ordem2 # {}
    BY <1>1 DEF TipoDaSanfona
  <1>5. /\ w1 \in TipoDaSanfona /\ w1.anima = Parada /\ w1.visiveis = {velho} \ {0}
        /\ w1.conteudo = {velho} \ {0} /\ w1.cabecas = {velho} \ {0}
        /\ w1.active = nova /\ w1.prevShow = nova /\ w1.ordem = ordem2
        /\ w1.selected = {nova} \ {0}
    <2>1. (c.selected \ {velho}) \cup ({nova} \ {0}) = {nova} \ {0}
      BY <1>1
    <2>2. {nova} \ {0} \in SUBSET Paineis
      OBVIOUS
    <2>3. w1 = [c EXCEPT !.prevShow = nova, !.prevHide = velho, !.selected = {nova} \ {0},
                         !.ordem = ordem2]
      BY <1>1, <2>1 DEF TipoDaSanfona
    <2> HIDE DEF w1, ordem2
    <2>4. w1 \in TipoDaSanfona
      BY <1>1, <1>4, <2>2, <2>3 DEF TipoDaSanfona
    <2> QED
      BY <1>1, <2>3, <2>4 DEF TipoDaSanfona
  <1> HIDE DEF w1, ordem2
  <1>6. CASE u.animate
    <2>1. r = [w1 EXCEPT !.anima = <<velho, nova, velho>>, !.visiveis = w1.visiveis \cup ({nova} \ {0})]
      BY <1>3, <1>6
    <2>2. /\ w1.visiveis \cup ({nova} \ {0}) \in SUBSET Paineis
          /\ <<velho, nova, velho>> \in (0..NPaineis) \X (0..NPaineis) \X (0..NPaineis)
      BY <1>5
    <2>3. r \in TipoDaSanfona
      BY <1>5, <2>1, <2>2 DEF TipoDaSanfona
    <2>4. /\ r.active = w1.active /\ r.prevShow = w1.prevShow /\ r.ordem = w1.ordem
          /\ r.selected = w1.selected /\ r.cabecas = w1.cabecas /\ r.conteudo = w1.conteudo
          /\ r.anima = <<velho, nova, velho>> /\ r.visiveis = w1.visiveis \cup ({nova} \ {0})
      BY <1>5, <2>1 DEF TipoDaSanfona
    <2> QED
      BY <1>4, <1>5, <2>3, <2>4 DEF r
  <1>7. CASE ~u.animate
    <2>1. r = [[w1 EXCEPT !.visiveis = (w1.visiveis \ {velho}) \cup ({nova} \ {0})]
                 EXCEPT !.conteudo = @ \ {velho}, !.cabecas = @ \ {velho}]
      BY <1>3, <1>7 DEF _toggleComplete
    <2>2. /\ (w1.visiveis \ {velho}) \cup ({nova} \ {0}) \in SUBSET Paineis
          /\ (w1.visiveis \ {velho}) \cup ({nova} \ {0}) = {nova} \ {0}
          /\ w1.conteudo \ {velho} = {} /\ w1.cabecas \ {velho} = {}
      BY <1>5
    <2>3. r = [w1 EXCEPT !.visiveis = (w1.visiveis \ {velho}) \cup ({nova} \ {0}),
                         !.conteudo = w1.conteudo \ {velho}, !.cabecas = w1.cabecas \ {velho}]
      BY <1>5, <2>1 DEF TipoDaSanfona
    <2>4. r \in TipoDaSanfona
      BY <1>5, <2>2, <2>3 DEF TipoDaSanfona
    <2>5. /\ r.active = w1.active /\ r.prevShow = w1.prevShow /\ r.ordem = w1.ordem
          /\ r.selected = w1.selected /\ r.cabecas = {} /\ r.conteudo = {}
          /\ r.anima = Parada /\ r.visiveis = {nova} \ {0}
      BY <1>5, <2>2, <2>3 DEF TipoDaSanfona
    <2> QED
      BY <1>4, <1>5, <2>4, <2>5 DEF r
  <1> QED
    BY <1>6, <1>7

LEMMA ChooseHeader ==
  ASSUME NEW w, SanfonaOK(w), NEW i \in Paineis
  PROVE  SanfonaOK(_eventHandlerSanfona(w, i))
PROOF
  <1> USE PanelsAreNumbered
  <1> DEFINE velho == w.active
             nova == IF velho = i THEN 0 ELSE i
             u == [w EXCEPT !.active = nova]
             r == _toggleSanfona(u, velho, nova)
             h == _eventHandlerSanfona(w, i)
  <1>1. CASE velho = i /\ ~w.collapsible
    BY <1>1 DEF _eventHandlerSanfona
  <1>2. CASE ~(velho = i /\ ~w.collapsible)
    <2>1. w \in TipoDaSanfona /\ velho \in 0..NPaineis /\ nova \in 0..NPaineis /\ nova # velho
      BY DEF SanfonaOK, TipoDaSanfona
    <2>2. u \in TipoDaSanfona /\ u.active = nova
      BY <2>1 DEF TipoDaSanfona
    <2>3. /\ u.prevShow \in {0, velho} /\ u.ordem # {}
          /\ u.cabecas = {velho} \ {0} /\ u.selected = {velho} \ {0}
          /\ u.anima = w.anima /\ u.visiveis = w.visiveis /\ u.conteudo = w.conteudo
      BY <2>1 DEF SanfonaOK, TipoDaSanfona
    <2>4. MovemSe(u, velho) \/ Assentam(u, velho)
      BY <2>3 DEF SanfonaOK, MovemSe, Assentam
    <2>5. h = [r EXCEPT !.cabecas = (@ \ {velho}) \cup (IF velho = i THEN {} ELSE {i}),
                        !.conteudo = IF velho = i THEN @ ELSE @ \cup {i}]
      BY <1>2 DEF _eventHandlerSanfona
    <2>6. (IF velho = i THEN {} ELSE {i}) = {nova} \ {0}
      OBVIOUS
    <2> HIDE DEF u, nova, velho
    <2>7. /\ r \in TipoDaSanfona /\ r.active = nova /\ r.prevShow = nova /\ r.ordem # {}
          /\ r.selected = {nova} \ {0} /\ r.cabecas \ {velho} = {}
          /\ \/ /\ r.anima = <<velho, nova, velho>>
                /\ r.visiveis \ {velho} = {nova} \ {0} /\ r.conteudo \ {velho} = {}
             \/ r.anima = Parada /\ r.visiveis = {nova} \ {0} /\ r.conteudo = {}
      BY <2>1, <2>2, <2>3, <2>4, TogglePanel
    <2> HIDE DEF r, h
    <2>8. h = [r EXCEPT !.cabecas = {nova} \ {0}, !.conteudo = r.conteudo \cup ({nova} \ {0})]
      <3>1. (r.cabecas \ {velho}) \cup (IF velho = i THEN {} ELSE {i}) = {nova} \ {0}
        BY <2>6, <2>7
      <3>2. (IF velho = i THEN r.conteudo ELSE r.conteudo \cup {i}) = r.conteudo \cup ({nova} \ {0})
        BY <2>6
      <3>3. h = [r EXCEPT !.cabecas = (r.cabecas \ {velho}) \cup (IF velho = i THEN {} ELSE {i}),
                          !.conteudo = IF velho = i THEN r.conteudo ELSE r.conteudo \cup {i}]
        BY <2>5, <2>7 DEF TipoDaSanfona
      <3> QED
        BY <3>1, <3>2, <3>3
    <2>9. {nova} \ {0} \in SUBSET Paineis /\ r.conteudo \cup ({nova} \ {0}) \in SUBSET Paineis
      BY <2>1, <2>7 DEF TipoDaSanfona
    <2>10. h \in TipoDaSanfona
      BY <2>7, <2>8, <2>9 DEF TipoDaSanfona
    <2>11. /\ h.active = nova /\ h.prevShow = nova /\ h.ordem = r.ordem /\ h.selected = {nova} \ {0}
           /\ h.cabecas = {nova} \ {0} /\ h.conteudo = r.conteudo \cup ({nova} \ {0})
           /\ h.anima = r.anima /\ h.visiveis = r.visiveis
      BY <2>7, <2>8 DEF TipoDaSanfona
    <2>12. CASE r.anima = Parada /\ r.visiveis = {nova} \ {0} /\ r.conteudo = {}
      <3>1. Assentam(h, h.active)
        BY <2>11, <2>12 DEF Assentam
      <3> QED
        BY <2>7, <2>10, <2>11, <3>1 DEF SanfonaOK, h
    <2>13. CASE /\ r.anima = <<velho, nova, velho>>
                /\ r.visiveis \ {velho} = {nova} \ {0} /\ r.conteudo \ {velho} = {}
      <3>1. MovemSe(h, h.active)
        BY <2>1, <2>11, <2>13 DEF MovemSe
      <3> QED
        BY <2>7, <2>10, <2>11, <3>1 DEF SanfonaOK, h
    <2> QED
      BY <2>7, <2>12, <2>13
  <1> QED
    BY <1>1, <1>2

LEMMA ActivatePanel ==
  ASSUME NEW w, SanfonaOK(w), NEW i \in 0..NPaineis
  PROVE  SanfonaOK(_activateSanfona(w, i))
PROOF
  <1>1. w.active \in 0..NPaineis
    BY DEF SanfonaOK, TipoDaSanfona
  <1> QED
    BY <1>1, ChooseHeader, PanelsAreNumbered DEF _activateSanfona

LEMMA FocusOfHeaders ==
  ASSUME NEW w, SanfonaOK(w), NEW f \in 0..NPaineis, NEW o \in SUBSET Paineis, o # {}
  PROVE  SanfonaOK([w EXCEPT !.ordem = o, !.foco = f])
PROOF
  <1> DEFINE v == [w EXCEPT !.ordem = o, !.foco = f]
  <1>1. w \in TipoDaSanfona
    BY DEF SanfonaOK
  <1>2. v \in TipoDaSanfona
    BY <1>1 DEF TipoDaSanfona
  <1>3. /\ v.active = w.active /\ v.prevShow = w.prevShow /\ v.ordem = o /\ v.selected = w.selected
        /\ v.cabecas = w.cabecas /\ v.conteudo = w.conteudo /\ v.anima = w.anima
        /\ v.visiveis = w.visiveis
    <2> HIDE DEF v
    <2> QED
      BY <1>1 DEF TipoDaSanfona, v
  <1> HIDE DEF v
  <1>4. SanfonaOK(v)
    BY <1>2, <1>3 DEF SanfonaOK, MovemSe, Assentam
  <1> QED
    BY <1>4 DEF v

LEMMA AccordionStep ==
  ASSUME SanfonaOK(sanfona), SanfonaNext
  PROVE  SanfonaOK(sanfona)'
PROOF
  <1> USE PanelsAreNumbered
  <1> DEFINE w == sanfona
  <1>0. /\ w \in TipoDaSanfona /\ w.foco \in 0..NPaineis /\ w.ordem \in SUBSET Paineis /\ w.ordem # {}
        /\ w.active \in 0..NPaineis /\ w.visiveis \in SUBSET Paineis
    BY DEF SanfonaOK, TipoDaSanfona
  <1>1. SUFFICES SanfonaOK(sanfona')
    BY DEF SanfonaOK, TipoDaSanfona, MovemSe, Assentam
  <1>2. ASSUME NEW i \in Paineis, clickSanfona(i) PROVE SanfonaOK(sanfona')
    <2> DEFINE h == _eventHandlerSanfona(w, i)
    <2>1. SanfonaOK(h)
      BY ChooseHeader
    <2>2. sanfona' = [h EXCEPT !.foco = i]
      BY <1>2 DEF clickSanfona
    <2> HIDE DEF h
    <2>3. h \in TipoDaSanfona /\ h.ordem # {} /\ h.ordem \in SUBSET Paineis
      BY <2>1 DEF SanfonaOK, TipoDaSanfona
    <2>4. sanfona' = [h EXCEPT !.ordem = h.ordem, !.foco = i]
      BY <2>2, <2>3 DEF TipoDaSanfona
    <2> QED
      BY <2>1, <2>3, <2>4, FocusOfHeaders
  <1>3. ASSUME NEW i \in 0..NPaineis, option(i) PROVE SanfonaOK(sanfona')
    BY <1>3, ActivatePanel DEF option
  <1>4. CASE _keydown
    <2> DEFINE f == w.foco
    <2>1. f \in Paineis
      BY <1>0, <1>4 DEF _keydown
    <2>2. CASE sanfona' = _eventHandlerSanfona(w, f)
      BY <2>1, <2>2, ChooseHeader
    <2>3. CASE \E j \in {IF f = NPaineis THEN 1 ELSE f + 1, IF f = 1 THEN NPaineis ELSE f - 1, 1, NPaineis} :
                 sanfona' = [w EXCEPT !.ordem = (@ \ {f}) \cup {j}, !.foco = j]
      <3>0. /\ (IF f = NPaineis THEN 1 ELSE f + 1) \in Paineis
            /\ (IF f = 1 THEN NPaineis ELSE f - 1) \in Paineis
        <4> HIDE DEF f
        <4> QED
          BY <2>1 DEF Paineis
      <3>1. PICK j \in Paineis : sanfona' = [w EXCEPT !.ordem = (@ \ {f}) \cup {j}, !.foco = j]
        BY <2>3, <3>0
      <3>2. (w.ordem \ {f}) \cup {j} \in SUBSET Paineis /\ (w.ordem \ {f}) \cup {j} # {}
        BY <1>0
      <3>3. sanfona' = [w EXCEPT !.ordem = (w.ordem \ {f}) \cup {j}, !.foco = j]
        BY <3>1
      <3> QED
        BY <3>2, <3>3, FocusOfHeaders
    <2> QED
      BY <1>4, <2>2, <2>3 DEF _keydown
  <1>5. CASE foca
    <2>1. PICK i \in 0..NPaineis : sanfona' = [w EXCEPT !.foco = i]
      BY <1>0, <1>5 DEF foca
    <2>2. sanfona' = [w EXCEPT !.ordem = w.ordem, !.foco = i]
      BY <1>0, <2>1 DEF TipoDaSanfona
    <2> QED
      BY <1>0, <2>2, FocusOfHeaders
  <1>6. CASE refreshSanfona
    <2> DEFINE sel == {w.active} \ {0}
               v == sanfona'
               ordem2 == IF sel = {} THEN {1} ELSE sel
    <2>1. sel \in SUBSET Paineis /\ ordem2 \in SUBSET Paineis /\ ordem2 # {}
      BY <1>0
    <2>2. v = [w EXCEPT !.visiveis = sel, !.conteudo = @ \cup sel, !.cabecas = @ \cup sel, !.selected = sel,
                        !.ordem = ordem2]
      BY <1>6 DEF refreshSanfona
    <2> HIDE DEF v, ordem2
    <2>3. /\ w.cabecas = sel /\ sel \subseteq w.conteudo
      BY DEF SanfonaOK, MovemSe, Assentam
    <2>4. v = [w EXCEPT !.visiveis = sel, !.conteudo = w.conteudo, !.cabecas = sel, !.selected = sel,
                        !.ordem = ordem2]
      <3>1. w.cabecas \cup sel = sel /\ w.conteudo \cup sel = w.conteudo
        BY <2>3
      <3>2. v = [w EXCEPT !.visiveis = sel, !.conteudo = w.conteudo \cup sel, !.cabecas = w.cabecas \cup sel,
                          !.selected = sel, !.ordem = ordem2]
        BY <1>0, <2>2 DEF TipoDaSanfona
      <3> QED
        BY <3>1, <3>2
    <2>5. v \in TipoDaSanfona
      BY <1>0, <2>1, <2>4 DEF TipoDaSanfona
    <2>6. /\ v.active = w.active /\ v.prevShow = w.prevShow /\ v.ordem = ordem2 /\ v.selected = sel
          /\ v.cabecas = sel /\ v.conteudo = w.conteudo /\ v.anima = w.anima /\ v.visiveis = sel
      BY <1>0, <2>4 DEF TipoDaSanfona
    <2>7. CASE Assentam(w, w.active)
      <3>1. Assentam(v, v.active)
        BY <2>6, <2>7 DEF Assentam
      <3> QED
        BY <2>1, <2>5, <2>6, <3>1 DEF SanfonaOK, v
    <2>8. CASE MovemSe(w, w.active)
      <3>1. MovemSe(v, v.active)
        BY <2>6, <2>8 DEF MovemSe
      <3> QED
        BY <2>1, <2>5, <2>6, <3>1 DEF SanfonaOK, v
    <2> QED
      BY <2>7, <2>8 DEF SanfonaOK
  <1>7. CASE completeSanfona
    <2> DEFINE c == chega(w)
    <2>1. sanfona' = c
      BY <1>7 DEF completeSanfona
    <2>2. w.cabecas = {w.active} \ {0}
      BY DEF SanfonaOK
    <2>3. MovemSe(w, w.active) \/ Assentam(w, w.active)
      BY DEF SanfonaOK
    <2>4. /\ c \in TipoDaSanfona /\ c.anima = Parada
          /\ c.visiveis = {w.active} \ {0} /\ c.conteudo = {w.active} \ {0} /\ c.cabecas = {w.active} \ {0}
          /\ c.active = w.active /\ c.prevShow = w.prevShow /\ c.ordem = w.ordem
          /\ c.selected = w.selected
      BY <1>0, <2>2, <2>3, PanelsArrive
    <2> HIDE DEF c
    <2> QED
      BY <2>1, <2>4 DEF SanfonaOK, Assentam
  <1> QED
    BY <1>2, <1>3, <1>4, <1>5, <1>6, <1>7 DEF SanfonaNext

LEMMA AccordionBegins ==
  ASSUME SanfonaInit
  PROVE  SanfonaOK(sanfona)
PROOF
  <1> USE PanelsAreNumbered
  <1>1. PICK collapsible, animate \in BOOLEAN, i \in 0..NPaineis :
          LET sel == {i} \ {0} IN
          sanfona = [active |-> i, prevShow |-> 0, prevHide |-> 0, anima |-> Parada, visiveis |-> sel,
                     conteudo |-> sel, cabecas |-> sel, selected |-> sel,
                     ordem |-> IF i = 0 THEN {1} ELSE sel, foco |-> 0,
                     collapsible |-> collapsible, animate |-> animate]
    BY DEF SanfonaInit
  <1> DEFINE sel == {i} \ {0}
             ordem1 == IF i = 0 THEN {1} ELSE sel
  <1>2. /\ sel \in SUBSET Paineis /\ ordem1 \in SUBSET Paineis /\ ordem1 # {}
        /\ Parada \in (0..NPaineis) \X (0..NPaineis) \X (0..NPaineis)
    BY DEF Parada
  <1>3. sanfona = [active |-> i, prevShow |-> 0, prevHide |-> 0, anima |-> Parada, visiveis |-> sel,
                   conteudo |-> sel, cabecas |-> sel, selected |-> sel, ordem |-> ordem1, foco |-> 0,
                   collapsible |-> collapsible, animate |-> animate]
    BY <1>1
  <1> HIDE DEF ordem1
  <1>4. sanfona \in TipoDaSanfona
    BY <1>2, <1>3 DEF TipoDaSanfona
  <1> QED
    BY <1>2, <1>3, <1>4 DEF SanfonaOK, Assentam

LEMMA AccordionOnThePage ==
  [Next]_vars => SanfonaNext \/ UNCHANGED sanfona
  BY DEF Next, vars

LEMMA AccordionInvariant == Spec => []SanfonaOK(sanfona)
PROOF
  <1>1. Init => SanfonaOK(sanfona)
    BY AccordionBegins DEF Init
  <1>2. SanfonaOK(sanfona) /\ [Next]_vars => SanfonaOK(sanfona)'
    <2>1. SanfonaOK(sanfona) /\ UNCHANGED sanfona => SanfonaOK(sanfona)'
      BY DEF SanfonaOK, TipoDaSanfona, MovemSe, Assentam
    <2> QED
      BY <2>1, AccordionOnThePage, AccordionStep
  <1> QED
    BY <1>1, <1>2, PTL DEF Spec

LEMMA PanelsAreOne == SanfonaOK(sanfona) => UmPainel
PROOF
  <1> SUFFICES ASSUME SanfonaOK(sanfona) PROVE UmPainel
    OBVIOUS
  <1>1. MovemSe(sanfona, sanfona.active) => sanfona.anima # Parada
    BY DEF MovemSe, Parada
  <1> QED
    BY <1>1 DEF SanfonaOK, Assentam, UmPainel

\* Headers chosen while panels move, keys, and a refresh in the middle: when nothing
\* moves the active panel is shown alone with its classes, no two headers are ever
\* marked, and the Tab key reaches one.
THEOREM OnePanelIsShown == Spec => []UmPainel
  BY AccordionInvariant, PanelsAreOne, PTL

----------------------------------------------------------------------------
(* Spinners *)

Valores == Int \cup {Vazio}

TipoDoGiro ==
  [val : Valores, previous : Valores, guardado : Valores, spinning : BOOLEAN, counter : Nat,
   timer : Int, roda : BOOLEAN, cancelBlur : BOOLEAN, momento : BOOLEAN, foco : BOOLEAN,
   disabled : BOOLEAN, botao : Int, tecla : Int, avisado : Valores, calado : BOOLEAN]

\* Whatever turns has been started.
Comecou(w) == w.timer # 0 => w.spinning

\* The field has the focus while something is held down, and what the page was told
\* is the value the field was entered with, or the one it was left with, as long as
\* no change has gone without an event that the end of a visit makes up for.
Seguro(w) ==
  /\ w.timer # 0 => w.foco /\ (w.botao # 0 \/ w.tecla # 0)
  /\ (w.cancelBlur => w.foco) /\ (w.momento => w.cancelBlur)
  /\ w.disabled => ~w.foco /\ ~w.spinning
  /\ ~w.calado => w.avisado = IF w.foco THEN w.previous ELSE w.val

GiroOK(w, desvio) == w \in TipoDoGiro /\ Comecou(w) /\ (~desvio => Seguro(w))

LEMMA SpinnerNumbers ==
  /\ Minimo \in Int /\ Maximo \in Int /\ Passo \in Int /\ Passo > 0 /\ Pagina \in Int /\ Pagina # 0
  /\ MaxConta \in Nat /\ Digitados \subseteq Valores
  BY ConstantesDoGiro DEF Valores

LEMMA Adjusted == \A v \in Int : _adjustValue(v) \in Int
PROOF
  <1> TAKE v \in Int
  <1> DEFINE d == (2 * (v - Minimo) + Passo) \div (2 * Passo)
  <1>1. 2 * Passo \in Int /\ 2 * Passo > 0 /\ 2 * (v - Minimo) + Passo \in Int
    BY SpinnerNumbers
  <1>2. d \in Int
    BY <1>1
  <1> HIDE DEF d
  <1>3. Minimo + d * Passo \in Int
    BY <1>2, SpinnerNumbers
  <1>4. _adjustValue(v) = LET r == Minimo + d * Passo IN
                          IF r > Maximo THEN Maximo ELSE IF r < Minimo THEN Minimo ELSE r
    BY DEF _adjustValue, d
  <1> QED
    BY <1>3, <1>4, SpinnerNumbers

LEMMA Incremented == \A i \in Nat : _increment(i) \in Int
  BY DEF _increment

\* What neither turning nor stopping touches.
Iguais(v, w) ==
  /\ v.previous = w.previous /\ v.guardado = w.guardado /\ v.cancelBlur = w.cancelBlur
  /\ v.foco = w.foco /\ v.disabled = w.disabled /\ v.botao = w.botao /\ v.tecla = w.tecla
  /\ v.avisado = w.avisado /\ v.momento = w.momento /\ v.calado = w.calado

LEMMA SpinTurns ==
  ASSUME NEW w, w \in TipoDoGiro, NEW passos \in Int
  PROVE  LET r == _spin(w, passos) IN
         r \in TipoDoGiro /\ Iguais(r, w) /\ r.timer = w.timer /\ r.spinning = w.spinning
PROOF
  <1> DEFINE n == IF w.counter = 0 THEN 1 ELSE w.counter
             v == (IF w.val = Vazio THEN 0 ELSE w.val) + passos * Passo * _increment(n)
             x == _adjustValue(_adjustValue(v))
             c == Menor(n + 1, MaxConta)
             r == _spin(w, passos)
  <1>1. n \in Nat /\ c \in Nat
    BY SpinnerNumbers DEF TipoDoGiro, Menor
  <1>2. (IF w.val = Vazio THEN 0 ELSE w.val) \in Int
    BY DEF TipoDoGiro, Valores
  <1>3. r = [[w EXCEPT !.val = x] EXCEPT !.counter = c]
    BY DEF _spin, _value
  <1> HIDE DEF n, c
  <1>4. passos * Passo * _increment(n) \in Int
    <2>1. _increment(n) \in Int /\ passos * Passo \in Int
      BY <1>1, Incremented, SpinnerNumbers
    <2> QED
      BY <2>1
  <1>5. v \in Int
    BY <1>2, <1>4
  <1> HIDE DEF v
  <1>6. x \in Valores
    BY <1>5, Adjusted DEF Valores
  <1> HIDE DEF x, r
  <1>7. r = [w EXCEPT !.val = x, !.counter = c]
    BY <1>3
  <1>8. r \in TipoDoGiro
    BY <1>1, <1>6, <1>7 DEF TipoDoGiro
  <1>9. Iguais(r, w) /\ r.timer = w.timer /\ r.spinning = w.spinning
    BY <1>7 DEF TipoDoGiro, Iguais
  <1> QED
    BY <1>8, <1>9 DEF r

LEMMA StartsTurning ==
  ASSUME NEW w, w \in TipoDoGiro
  PROVE  LET r == _start(w) IN
         r \in TipoDoGiro /\ Iguais(r, w) /\ r.timer = w.timer /\ r.spinning = TRUE /\ r.val = w.val
PROOF
  <1> DEFINE r == _start(w)
             c == IF w.counter = 0 THEN 1 ELSE w.counter
  <1>1. r = [w EXCEPT !.spinning = TRUE, !.counter = c] /\ c \in Nat
    BY DEF _start, TipoDoGiro
  <1> HIDE DEF r, c
  <1>2. r \in TipoDoGiro
    BY <1>1 DEF TipoDoGiro
  <1>3. Iguais(r, w) /\ r.timer = w.timer /\ r.spinning = TRUE /\ r.val = w.val
    BY <1>1 DEF TipoDoGiro, Iguais
  <1> QED
    BY <1>2, <1>3 DEF r

LEMMA RepeatsTurning ==
  ASSUME NEW w, w \in TipoDoGiro, NEW passos \in Int
  PROVE  LET r == _repeat(w, passos) IN
         r \in TipoDoGiro /\ Iguais(r, w) /\ r.timer = passos /\ r.spinning = w.spinning
PROOF
  <1> DEFINE v == _spin(w, passos)
             r == _repeat(w, passos)
  <1>1. v \in TipoDoGiro /\ Iguais(v, w) /\ v.spinning = w.spinning
    BY SpinTurns
  <1>2. r = [v EXCEPT !.timer = passos]
    BY DEF _repeat
  <1> HIDE DEF v, r
  <1>3. r \in TipoDoGiro
    BY <1>1, <1>2 DEF TipoDoGiro
  <1>4. Iguais(r, v) /\ r.timer = passos /\ r.spinning = v.spinning
    BY <1>1, <1>2 DEF TipoDoGiro, Iguais
  <1> QED
    BY <1>1, <1>3, <1>4 DEF r, Iguais

LEMMA FieldsOfTurning ==
  ASSUME NEW w, w \in TipoDoGiro, NEW t \in Int, NEW c \in Nat, NEW f \in BOOLEAN, NEW g \in BOOLEAN
  PROVE  [w EXCEPT !.timer = t, !.roda = g, !.counter = c, !.spinning = f] \in TipoDoGiro
  BY DEF TipoDoGiro

LEMMA StopsTurning ==
  ASSUME NEW w, w \in TipoDoGiro, Comecou(w)
  PROVE  LET r == _stop(w) IN
         /\ r \in TipoDoGiro /\ Iguais(r, w) /\ r.timer = 0 /\ r.spinning = FALSE /\ r.val = w.val
PROOF
  <1> DEFINE r == _stop(w)
  <1>1. CASE ~w.spinning
    <2>1. r = w /\ w.timer = 0
      BY <1>1 DEF _stop, Comecou
    <2>2. w.spinning = FALSE
      BY <1>1 DEF TipoDoGiro
    <2> QED
      BY <2>1, <2>2 DEF Iguais
  <1>2. CASE w.spinning
    <2>1. r = [w EXCEPT !.timer = 0, !.roda = FALSE, !.counter = 0, !.spinning = FALSE]
      BY <1>2 DEF _stop
    <2> HIDE DEF r
    <2>2. r \in TipoDoGiro
      <3>0. 0 \in Int /\ 0 \in Nat /\ FALSE \in BOOLEAN
        OBVIOUS
      <3>1. [w EXCEPT !.timer = 0, !.roda = FALSE, !.counter = 0, !.spinning = FALSE] \in TipoDoGiro
        BY <3>0, FieldsOfTurning, Zenon
      <3> QED
        BY <2>1, <3>1
    <2>3. Iguais(r, w) /\ r.timer = 0 /\ r.spinning = FALSE /\ r.val = w.val
      BY <2>1 DEF TipoDoGiro, Iguais
    <2> QED
      BY <2>2, <2>3 DEF r
  <1> QED
    BY <1>1, <1>2

LEMMA FieldsOfHands ==
  ASSUME NEW w, w \in TipoDoGiro
  PROVE  /\ \A k \in Int : /\ [w EXCEPT !.tecla = k] \in TipoDoGiro
                           /\ Comecou(w) => Comecou([w EXCEPT !.tecla = k])
         /\ \A k \in Int : /\ [w EXCEPT !.botao = k] \in TipoDoGiro
                           /\ Comecou(w) => Comecou([w EXCEPT !.botao = k])
         /\ \A b \in BOOLEAN : /\ [w EXCEPT !.foco = b] \in TipoDoGiro
                               /\ Comecou(w) => Comecou([w EXCEPT !.foco = b])
         /\ \A b \in BOOLEAN : /\ [w EXCEPT !.cancelBlur = b] \in TipoDoGiro
                               /\ Comecou(w) => Comecou([w EXCEPT !.cancelBlur = b])
         /\ \A b \in BOOLEAN : /\ [w EXCEPT !.momento = b] \in TipoDoGiro
                               /\ Comecou(w) => Comecou([w EXCEPT !.momento = b])
         /\ \A b \in BOOLEAN : /\ [w EXCEPT !.calado = b] \in TipoDoGiro
                               /\ Comecou(w) => Comecou([w EXCEPT !.calado = b])
         /\ \A b \in BOOLEAN : /\ [w EXCEPT !.roda = b] \in TipoDoGiro
                               /\ Comecou(w) => Comecou([w EXCEPT !.roda = b])
         /\ \A b \in BOOLEAN : /\ [w EXCEPT !.disabled = b] \in TipoDoGiro
                               /\ Comecou(w) => Comecou([w EXCEPT !.disabled = b])
         /\ \A v \in Valores : /\ [w EXCEPT !.val = v] \in TipoDoGiro
                               /\ Comecou(w) => Comecou([w EXCEPT !.val = v])
         /\ \A v \in Valores : /\ [w EXCEPT !.avisado = v] \in TipoDoGiro
                               /\ Comecou(w) => Comecou([w EXCEPT !.avisado = v])
         /\ \A v \in Valores : /\ [w EXCEPT !.previous = v] \in TipoDoGiro
                               /\ Comecou(w) => Comecou([w EXCEPT !.previous = v])
         /\ \A v \in Valores : /\ [w EXCEPT !.guardado = v] \in TipoDoGiro
                               /\ Comecou(w) => Comecou([w EXCEPT !.guardado = v])
  BY DEF TipoDoGiro, Comecou

\* Stopped, a spinner is as safe as it was but for what turned.
LEMMA StopIsSafe ==
  ASSUME NEW w, w \in TipoDoGiro, Comecou(w), NEW desvio \in BOOLEAN,
         ~desvio => /\ (w.cancelBlur => w.foco) /\ (w.momento => w.cancelBlur)
                    /\ w.disabled => ~w.foco
                    /\ ~w.calado => w.avisado = IF w.foco THEN w.previous ELSE w.val
  PROVE  GiroOK(_stop(w), desvio)
PROOF
  <1> DEFINE r == _stop(w)
  <1>1. r \in TipoDoGiro /\ Iguais(r, w) /\ r.timer = 0 /\ r.spinning = FALSE /\ r.val = w.val
    BY StopsTurning
  <1> HIDE DEF r
  <1>2. GiroOK(r, desvio)
    BY <1>1 DEF GiroOK, Comecou, Seguro, Iguais
  <1> QED
    BY <1>2 DEF r

\* Pressing a button or a key of the field begins to turn.
LEMMA HoldIsSafe ==
  ASSUME NEW w, w \in TipoDoGiro, Comecou(w), NEW desvio \in BOOLEAN, NEW k \in Int,
         ~desvio => /\ w.foco /\ ~w.disabled /\ (w.botao # 0 \/ w.tecla # 0)
                    /\ (w.momento => w.cancelBlur) /\ (~w.calado => w.avisado = w.previous)
  PROVE  GiroOK(_start(w), desvio) /\ GiroOK(_repeat(_start(w), k), desvio)
PROOF
  <1> DEFINE v == _start(w)
             r == _repeat(v, k)
  <1>1. v \in TipoDoGiro /\ Iguais(v, w) /\ v.timer = w.timer /\ v.spinning = TRUE /\ v.val = w.val
    BY StartsTurning
  <1> HIDE DEF v
  <1>2. r \in TipoDoGiro /\ Iguais(r, v) /\ r.timer = k /\ r.spinning = v.spinning
    BY <1>1, RepeatsTurning
  <1> HIDE DEF r
  <1>3. GiroOK(v, desvio)
    BY <1>1 DEF GiroOK, Comecou, Seguro, Iguais
  <1>4. GiroOK(r, desvio)
    BY <1>1, <1>2 DEF GiroOK, Comecou, Seguro, Iguais
  <1> QED
    BY <1>3, <1>4 DEF v, r

LEMMA KeysTurn ==
  ASSUME NEW d \in BOOLEAN, GiroOK(giro, d), NEW k \in Int, keydownGiro(k)
  PROVE  GiroOK(giro', d)
PROOF
  <1> DEFINE v == [giro EXCEPT !.tecla = 2]
  <1>1. giro \in TipoDoGiro /\ giro.foco /\ ~giro.disabled /\ Comecou(giro)
    BY DEF GiroOK, keydownGiro
  <1>2. v \in TipoDoGiro /\ Comecou(v)
    BY <1>1, FieldsOfHands
  <1>3. /\ v.foco = giro.foco /\ v.disabled = giro.disabled /\ v.tecla = 2
        /\ v.avisado = giro.avisado /\ v.previous = giro.previous
        /\ v.momento = giro.momento /\ v.cancelBlur = giro.cancelBlur /\ v.calado = giro.calado
    BY <1>1 DEF TipoDoGiro
  <1>4. ~d => (giro.momento => giro.cancelBlur) /\ (~giro.calado => giro.avisado = giro.previous)
    BY <1>1 DEF GiroOK, Seguro
  <1>5. giro' = IF k = 0 THEN _start(v) ELSE _repeat(_start(v), k)
    BY DEF keydownGiro
  <1> HIDE DEF v
  <1>6. GiroOK(_start(v), d) /\ GiroOK(_repeat(_start(v), k), d)
    <2>1. ~d => /\ v.foco /\ ~v.disabled /\ (v.botao # 0 \/ v.tecla # 0)
                /\ (v.momento => v.cancelBlur) /\ (~v.calado => v.avisado = v.previous)
      BY <1>1, <1>3, <1>4
    <2> QED
      BY <1>2, <2>1, HoldIsSafe
  <1> QED
    BY <1>5, <1>6

LEMMA KeyUpEnds ==
  ASSUME NEW d \in BOOLEAN, GiroOK(giro, d), keyup
  PROVE  GiroOK(giro', d)
PROOF
  <1> DEFINE v == [giro EXCEPT !.tecla = 0]
  <1>1. giro \in TipoDoGiro /\ Comecou(giro) /\ (~d => Seguro(giro))
    BY DEF GiroOK
  <1>2. v \in TipoDoGiro /\ Comecou(v)
    BY <1>1, FieldsOfHands
  <1>3. /\ v.foco = giro.foco /\ v.disabled = giro.disabled /\ v.tecla = 0 /\ v.timer = giro.timer
        /\ v.avisado = giro.avisado /\ v.previous = giro.previous /\ v.val = giro.val
        /\ v.cancelBlur = giro.cancelBlur /\ v.spinning = giro.spinning
        /\ v.momento = giro.momento /\ v.calado = giro.calado
    BY <1>1 DEF TipoDoGiro
  <1>4. giro' = IF giro.foco /\ ~giro.disabled THEN _stop(v) ELSE v
    BY DEF keyup
  <1> HIDE DEF v
  <1>5. GiroOK(_stop(v), d)
    BY <1>1, <1>2, <1>3, StopIsSafe DEF Seguro
  <1>6. CASE ~(giro.foco /\ ~giro.disabled)
    BY <1>1, <1>2, <1>3, <1>4, <1>6 DEF GiroOK, Seguro
  <1> QED
    BY <1>4, <1>5, <1>6

LEMMA ButtonTurns ==
  ASSUME NEW d \in BOOLEAN, GiroOK(giro, d), NEW s \in {1, -1}, mousedownGiro(s)
  PROVE  GiroOK(giro', d)
PROOF
  <1> DEFINE g == IF giro.foco THEN giro.previous ELSE giro.val
             v == [giro EXCEPT !.guardado = g, !.botao = s]
             w == checkFocusGiro(v)
             x == [w EXCEPT !.cancelBlur = TRUE]
             u == [x EXCEPT !.momento = TRUE]
  <1>1. giro \in TipoDoGiro /\ Comecou(giro) /\ (~d => Seguro(giro)) /\ s \in Int /\ s # 0
    BY DEF GiroOK
  <1>2. g \in Valores
    BY <1>1 DEF TipoDoGiro
  <1>3. giro' = IF giro.disabled THEN [giro EXCEPT !.botao = s] ELSE _repeat(_start(u), s)
    <2>1. u = [w EXCEPT !.cancelBlur = TRUE, !.momento = TRUE]
      OBVIOUS
    <2> QED
      BY <2>1 DEF mousedownGiro
  <1>4. CASE giro.disabled
    <2> DEFINE z == [giro EXCEPT !.botao = s]
    <2>1. z \in TipoDoGiro /\ Comecou(z)
      BY <1>1, FieldsOfHands
    <2>2. /\ z.foco = giro.foco /\ z.disabled = giro.disabled /\ z.tecla = giro.tecla /\ z.timer = giro.timer
          /\ z.avisado = giro.avisado /\ z.previous = giro.previous /\ z.val = giro.val
          /\ z.cancelBlur = giro.cancelBlur /\ z.spinning = giro.spinning /\ z.botao = s
          /\ z.momento = giro.momento /\ z.calado = giro.calado
      BY <1>1 DEF TipoDoGiro
    <2>3. giro' = z
      BY <1>3, <1>4
    <2> HIDE DEF z
    <2> QED
      BY <1>1, <2>1, <2>2, <2>3 DEF GiroOK, Seguro
  <1>5. CASE ~giro.disabled
    <2> HIDE DEF g
    <2>1. v \in TipoDoGiro /\ Comecou(v)
      <3> DEFINE y == [giro EXCEPT !.guardado = g]
      <3>1. y \in TipoDoGiro /\ Comecou(y)
        BY <1>1, <1>2, FieldsOfHands
      <3>2. v = [y EXCEPT !.botao = s]
        OBVIOUS
      <3> HIDE DEF y, v
      <3> QED
        BY <1>1, <3>1, <3>2, FieldsOfHands
    <2>2. /\ v.foco = giro.foco /\ v.disabled = giro.disabled
          /\ v.avisado = giro.avisado /\ v.previous = giro.previous /\ v.val = giro.val
          /\ v.guardado = g /\ v.botao = s /\ v.calado = giro.calado
      BY <1>1 DEF TipoDoGiro
    <2> HIDE DEF v
    <2>3. /\ w \in TipoDoGiro /\ Comecou(w) /\ w.foco /\ w.botao = s /\ w.disabled = v.disabled
          /\ w.avisado = v.avisado /\ w.calado = v.calado
          /\ w.previous = IF v.foco THEN v.previous ELSE v.guardado
      <3>1. CASE v.foco
        <4>1. w = v
          BY <3>1 DEF checkFocusGiro
        <4> HIDE DEF w
        <4> QED
          BY <2>1, <2>2, <3>1, <4>1
      <3>2. CASE ~v.foco
        <4> DEFINE y == [v EXCEPT !.foco = TRUE]
        <4>1. y \in TipoDoGiro /\ Comecou(y)
          BY <2>1, FieldsOfHands
        <4>2. y.foco = TRUE /\ y.botao = v.botao /\ y.disabled = v.disabled /\ y.avisado = v.avisado
              /\ y.calado = v.calado
          BY <2>1 DEF TipoDoGiro
        <4>3. w = [y EXCEPT !.previous = v.guardado]
          <5>1. ~v.disabled /\ (~v.disabled) = TRUE
            BY <1>5, <2>1, <2>2 DEF TipoDoGiro
          <5>2. w = [v EXCEPT !.foco = ~v.disabled, !.previous = v.guardado]
            BY <3>2 DEF checkFocusGiro
          <5> QED
            BY <5>1, <5>2
        <4> HIDE DEF y, w
        <4>4. v.guardado \in Valores
          BY <2>1 DEF TipoDoGiro
        <4>5. w \in TipoDoGiro /\ Comecou(w)
          BY <4>1, <4>3, <4>4, FieldsOfHands
        <4>6. /\ w.foco = y.foco /\ w.botao = y.botao /\ w.disabled = y.disabled /\ w.avisado = y.avisado
              /\ w.previous = v.guardado /\ w.calado = y.calado
          BY <4>1, <4>3 DEF TipoDoGiro
        <4> QED
          BY <2>2, <3>2, <4>2, <4>5, <4>6
      <3> QED
        BY <3>1, <3>2
    <2> HIDE DEF w
    <2>4. /\ u \in TipoDoGiro /\ Comecou(u) /\ u.foco = w.foco /\ u.botao = w.botao
          /\ u.disabled = w.disabled /\ u.avisado = w.avisado /\ u.previous = w.previous
          /\ u.cancelBlur = TRUE /\ u.calado = w.calado
      <3>1. x \in TipoDoGiro /\ Comecou(x)
        BY <2>3, FieldsOfHands
      <3>2. /\ x.foco = w.foco /\ x.botao = w.botao /\ x.disabled = w.disabled
            /\ x.avisado = w.avisado /\ x.previous = w.previous /\ x.cancelBlur = TRUE
            /\ x.calado = w.calado
        BY <2>3 DEF TipoDoGiro
      <3> HIDE DEF x
      <3>3. u \in TipoDoGiro /\ Comecou(u)
        BY <3>1, FieldsOfHands
      <3> QED
        BY <3>1, <3>2, <3>3 DEF TipoDoGiro
    <2> HIDE DEF u, x
    <2>5. ~d => (~giro.calado => giro.avisado = g)
      BY <1>1 DEF Seguro, g
    <2>6. ~d => (u.momento => u.cancelBlur) /\ (~u.calado => u.avisado = u.previous)
      BY <2>2, <2>3, <2>4, <2>5 DEF g
    <2> QED
      BY <1>1, <1>3, <1>5, <2>2, <2>3, <2>4, <2>6, HoldIsSafe
  <1> QED
    BY <1>4, <1>5

LEMMA ButtonEnds ==
  ASSUME NEW d \in BOOLEAN, GiroOK(giro, d), solta
  PROVE  GiroOK(giro', d)
PROOF
  <1> DEFINE v == [giro EXCEPT !.botao = 0]
  <1>1. giro \in TipoDoGiro /\ Comecou(giro) /\ (~d => Seguro(giro))
    BY DEF GiroOK
  <1>2. v \in TipoDoGiro /\ Comecou(v)
    BY <1>1, FieldsOfHands
  <1>3. /\ v.foco = giro.foco /\ v.disabled = giro.disabled /\ v.timer = giro.timer
        /\ v.avisado = giro.avisado /\ v.previous = giro.previous /\ v.val = giro.val
        /\ v.cancelBlur = giro.cancelBlur /\ v.spinning = giro.spinning
        /\ v.momento = giro.momento /\ v.calado = giro.calado
    BY <1>1 DEF TipoDoGiro
  <1>4. giro' = IF giro.disabled THEN v ELSE _stop(v)
    BY DEF solta
  <1> HIDE DEF v
  <1>5. GiroOK(_stop(v), d)
    BY <1>1, <1>2, <1>3, StopIsSafe DEF Seguro
  <1>6. CASE giro.disabled
    BY <1>1, <1>2, <1>3, <1>4, <1>6 DEF GiroOK, Seguro
  <1> QED
    BY <1>4, <1>5, <1>6

LEMMA TypingAndFocus ==
  ASSUME NEW d \in BOOLEAN, GiroOK(giro, d), focusGiro \/ \E v \in Digitados : digita(v)
  PROVE  GiroOK(giro', d)
PROOF
  <1>1. giro \in TipoDoGiro /\ Comecou(giro) /\ (~d => Seguro(giro)) /\ giro.val \in Valores
    BY DEF GiroOK, TipoDoGiro
  <1>2. CASE focusGiro
    <2> DEFINE y == [giro EXCEPT !.foco = TRUE]
               v == [y EXCEPT !.previous = giro.val]
    <2>1. giro' = v /\ ~giro.foco /\ ~giro.disabled
      BY <1>2 DEF focusGiro
    <2>2. y \in TipoDoGiro /\ Comecou(y)
      BY <1>1, FieldsOfHands
    <2>3. /\ y.foco = TRUE /\ y.disabled = giro.disabled /\ y.timer = giro.timer /\ y.botao = giro.botao
          /\ y.tecla = giro.tecla /\ y.avisado = giro.avisado
          /\ y.momento = giro.momento /\ y.calado = giro.calado
      BY <1>1 DEF TipoDoGiro
    <2> HIDE DEF y
    <2>4. v \in TipoDoGiro /\ Comecou(v)
      BY <1>1, <2>2, FieldsOfHands
    <2>5. /\ v.foco = y.foco /\ v.disabled = y.disabled /\ v.timer = y.timer /\ v.botao = y.botao
          /\ v.tecla = y.tecla /\ v.avisado = y.avisado /\ v.previous = giro.val
          /\ v.momento = y.momento /\ v.calado = y.calado
      BY <2>2 DEF TipoDoGiro
    <2> HIDE DEF v
    <2>6. ~d => Seguro(v)
      BY <1>1, <2>1, <2>3, <2>5 DEF Seguro
    <2> QED
      BY <2>1, <2>4, <2>6 DEF GiroOK
  <1>3. ASSUME NEW t \in Digitados, digita(t) PROVE GiroOK(giro', d)
    <2> DEFINE v == [giro EXCEPT !.val = t]
    <2>1. giro' = v /\ giro.foco
      BY <1>3 DEF digita
    <2>2. v \in TipoDoGiro /\ Comecou(v)
      BY <1>1, SpinnerNumbers, FieldsOfHands
    <2>3. /\ v.foco = giro.foco /\ v.disabled = giro.disabled /\ v.timer = giro.timer
          /\ v.botao = giro.botao /\ v.tecla = giro.tecla /\ v.avisado = giro.avisado
          /\ v.previous = giro.previous /\ v.cancelBlur = giro.cancelBlur /\ v.spinning = giro.spinning
          /\ v.momento = giro.momento /\ v.calado = giro.calado
      BY <1>1 DEF TipoDoGiro
    <2> HIDE DEF v
    <2>4. ~d => Seguro(v)
      BY <1>1, <2>1, <2>3 DEF Seguro
    <2> QED
      BY <2>1, <2>2, <2>4 DEF GiroOK
  <1> QED
    BY <1>2, <1>3

\* Left, the field tells of its value if that is not the one it was entered with.
LEMMA BlurTells ==
  ASSUME NEW d \in BOOLEAN, GiroOK(giro, d), blurGiro
  PROVE  GiroOK(giro', d \/ giro.cancelBlur)
PROOF
  <1>1. /\ giro \in TipoDoGiro /\ Comecou(giro) /\ (~d => Seguro(giro)) /\ giro.val \in Valores
        /\ giro.avisado \in Valores /\ giro.foco
    BY DEF GiroOK, TipoDoGiro, blurGiro
  <1>2. CASE giro.cancelBlur
    <2> DEFINE y == [giro EXCEPT !.cancelBlur = FALSE]
               v == [y EXCEPT !.foco = FALSE]
    <2>1. giro' = v
      BY <1>2 DEF blurGiro
    <2>2. y \in TipoDoGiro /\ Comecou(y)
      BY <1>1, FieldsOfHands
    <2> HIDE DEF y
    <2>3. v \in TipoDoGiro /\ Comecou(v)
      BY <2>2, FieldsOfHands
    <2> QED
      BY <1>2, <2>1, <2>3 DEF GiroOK
  <1>3. CASE ~giro.cancelBlur
    <2> DEFINE r == _stop(giro)
               y == [r EXCEPT !.foco = FALSE]
               z == [y EXCEPT !.avisado = y.val]
               v == [z EXCEPT !.calado = FALSE]
    <2>1. giro' = IF giro.previous = giro.val THEN y ELSE v
      <3>1. v = [y EXCEPT !.avisado = y.val, !.calado = FALSE]
        OBVIOUS
      <3> QED
        BY <1>3, <3>1 DEF blurGiro
    <2>2. r \in TipoDoGiro /\ Iguais(r, giro) /\ r.timer = 0 /\ r.spinning = FALSE /\ r.val = giro.val
      BY <1>1, StopsTurning
    <2> HIDE DEF r
    <2>3. Comecou(r)
      BY <2>2 DEF Comecou
    <2>4. y \in TipoDoGiro /\ Comecou(y) /\ y.val \in Valores
      <3>1. y \in TipoDoGiro /\ Comecou(y)
        BY <2>2, <2>3, FieldsOfHands
      <3> QED
        BY <3>1 DEF TipoDoGiro
    <2>5. /\ y.foco = FALSE /\ y.timer = r.timer /\ y.spinning = r.spinning /\ y.val = r.val
          /\ y.cancelBlur = r.cancelBlur /\ y.avisado = r.avisado
          /\ y.momento = r.momento /\ y.calado = r.calado
      BY <2>2 DEF TipoDoGiro
    <2> HIDE DEF y
    <2>6. z \in TipoDoGiro /\ Comecou(z)
      BY <2>4, FieldsOfHands
    <2>7. /\ z.foco = y.foco /\ z.timer = y.timer /\ z.spinning = y.spinning /\ z.val = y.val
          /\ z.cancelBlur = y.cancelBlur /\ z.avisado = y.val /\ z.momento = y.momento
      BY <2>4 DEF TipoDoGiro
    <2> HIDE DEF z
    <2>8. v \in TipoDoGiro /\ Comecou(v)
      BY <2>6, FieldsOfHands
    <2>9. /\ v.foco = z.foco /\ v.timer = z.timer /\ v.spinning = z.spinning /\ v.val = z.val
          /\ v.cancelBlur = z.cancelBlur /\ v.avisado = z.avisado /\ v.momento = z.momento
      BY <2>6 DEF TipoDoGiro
    <2> HIDE DEF v
    <2>10. CASE giro.previous = giro.val
      <3>1. ~d => Seguro(y)
        BY <1>1, <1>3, <2>2, <2>5, <2>10 DEF Seguro, Iguais
      <3> QED
        BY <1>3, <2>1, <2>4, <2>10, <3>1 DEF GiroOK
    <2>11. CASE giro.previous # giro.val
      <3>1. ~d => Seguro(v)
        BY <1>1, <1>3, <2>2, <2>5, <2>7, <2>9 DEF Seguro, Iguais
      <3> QED
        BY <1>3, <2>1, <2>8, <2>11, <3>1 DEF GiroOK
    <2> QED
      BY <2>10, <2>11
  <1> QED
    BY <1>2, <1>3

LEMMA WheelTurns ==
  ASSUME NEW d \in BOOLEAN, GiroOK(giro, d), NEW s \in {1, -1}, mousewheel(s)
  PROVE  GiroOK(giro', d)
PROOF
  <1> DEFINE b == IF giro.spinning THEN giro ELSE _start(giro)
             r == _spin(b, s)
             w == [r EXCEPT !.roda = TRUE]
             c == w.calado \/ (~giro.foco /\ w.val # giro.val)
             v == [w EXCEPT !.calado = c]
  <1>1. giro \in TipoDoGiro /\ Comecou(giro) /\ (~d => Seguro(giro)) /\ s \in Int
    BY DEF GiroOK
  <1>2. giro' = v /\ ~giro.disabled
    BY DEF mousewheel
  <1>3. b \in TipoDoGiro /\ Iguais(b, giro) /\ b.timer = giro.timer /\ b.spinning
    <2>1. CASE giro.spinning
      BY <1>1, <2>1 DEF Iguais
    <2>2. CASE ~giro.spinning
      BY <1>1, <2>2, StartsTurning
    <2> QED
      BY <2>1, <2>2
  <1> HIDE DEF b
  <1>4. r \in TipoDoGiro /\ Iguais(r, b) /\ r.timer = b.timer /\ r.spinning = b.spinning
    BY <1>1, <1>3, SpinTurns
  <1> HIDE DEF r
  <1>5. Comecou(r)
    BY <1>3, <1>4 DEF Comecou
  <1>6. w \in TipoDoGiro /\ Comecou(w)
    BY <1>4, <1>5, FieldsOfHands
  <1>7. Iguais(w, r) /\ w.timer = r.timer /\ w.spinning = r.spinning
    BY <1>4 DEF TipoDoGiro, Iguais
  <1> HIDE DEF w
  <1>8. Iguais(w, giro) /\ w.timer = giro.timer
    BY <1>3, <1>4, <1>7 DEF Iguais
  <1>9. c \in BOOLEAN /\ (c <=> giro.calado \/ (~giro.foco /\ w.val # giro.val))
    BY <1>8 DEF Iguais
  <1> HIDE DEF c
  <1>10. v \in TipoDoGiro /\ Comecou(v)
    BY <1>6, <1>9, FieldsOfHands
  <1>11. /\ v.calado = c /\ v.avisado = w.avisado /\ v.val = w.val /\ v.foco = w.foco
         /\ v.timer = w.timer /\ v.cancelBlur = w.cancelBlur /\ v.disabled = w.disabled
         /\ v.botao = w.botao /\ v.tecla = w.tecla /\ v.momento = w.momento
         /\ v.previous = w.previous
    BY <1>6 DEF TipoDoGiro
  <1> HIDE DEF v
  <1>12. ~d => Seguro(v)
    BY <1>1, <1>2, <1>8, <1>9, <1>11 DEF Seguro, Iguais
  <1> QED
    BY <1>2, <1>10, <1>12 DEF GiroOK

\* A call that changes the value outside a visit tells of it.
LEMMA CallTells ==
  ASSUME NEW d \in BOOLEAN, GiroOK(giro, d), NEW w, w \in TipoDoGiro, Iguais(w, giro),
         \/ w.timer = 0 /\ w.spinning = FALSE
         \/ w.timer = giro.timer /\ w.spinning = giro.spinning
  PROVE  GiroOK(spinnerModifer(w), d)
PROOF
  <1> DEFINE y == [w EXCEPT !.avisado = w.val]
             v == [y EXCEPT !.calado = giro.foco]
  <1>1. /\ giro \in TipoDoGiro /\ Comecou(giro) /\ (~d => Seguro(giro)) /\ giro.foco \in BOOLEAN
        /\ w.val \in Valores
    BY DEF GiroOK, TipoDoGiro
  <1>2. Comecou(w)
    BY <1>1 DEF Comecou
  <1>3. spinnerModifer(w) = IF w.val = giro.val THEN w ELSE v
    <2>1. v = [w EXCEPT !.avisado = w.val, !.calado = giro.foco]
      OBVIOUS
    <2> QED
      BY <2>1 DEF spinnerModifer
  <1>4. CASE w.val = giro.val
    <2>1. ~d => Seguro(w)
      BY <1>1, <1>4 DEF Seguro, Iguais
    <2> QED
      BY <1>2, <1>3, <1>4, <2>1 DEF GiroOK
  <1>5. CASE w.val # giro.val
    <2>1. y \in TipoDoGiro /\ Comecou(y)
      BY <1>1, <1>2, FieldsOfHands
    <2>2. /\ y.avisado = w.val /\ y.val = w.val /\ y.foco = w.foco /\ y.timer = w.timer
          /\ y.cancelBlur = w.cancelBlur /\ y.disabled = w.disabled /\ y.spinning = w.spinning
          /\ y.botao = w.botao /\ y.tecla = w.tecla /\ y.momento = w.momento
      BY DEF TipoDoGiro
    <2> HIDE DEF y
    <2>3. v \in TipoDoGiro /\ Comecou(v)
      BY <1>1, <2>1, FieldsOfHands
    <2>4. /\ v.avisado = y.avisado /\ v.val = y.val /\ v.foco = y.foco /\ v.timer = y.timer
          /\ v.cancelBlur = y.cancelBlur /\ v.disabled = y.disabled /\ v.spinning = y.spinning
          /\ v.botao = y.botao /\ v.tecla = y.tecla /\ v.momento = y.momento
          /\ v.calado = giro.foco
      BY <2>1 DEF TipoDoGiro
    <2> HIDE DEF v
    <2>5. ~d => Seguro(v)
      BY <1>1, <2>2, <2>4 DEF Seguro, Iguais
    <2> QED
      BY <1>3, <1>5, <2>3, <2>5 DEF GiroOK
  <1> QED
    BY <1>4, <1>5

LEMMA StepTells ==
  ASSUME NEW d \in BOOLEAN, GiroOK(giro, d), NEW s \in {1, -1}, _stepUp(s)
  PROVE  GiroOK(giro', d)
PROOF
  <1> DEFINE b == _start(giro)
             r == _spin(b, s)
             w == _stop(r)
  <1>1. giro \in TipoDoGiro /\ s \in Int
    BY DEF GiroOK
  <1>2. giro' = spinnerModifer(w)
    BY DEF _stepUp
  <1>3. b \in TipoDoGiro /\ Iguais(b, giro) /\ b.spinning = TRUE
    BY <1>1, StartsTurning
  <1> HIDE DEF b
  <1>4. r \in TipoDoGiro /\ Iguais(r, b) /\ r.spinning = b.spinning
    BY <1>1, <1>3, SpinTurns
  <1> HIDE DEF r
  <1>5. Comecou(r)
    BY <1>3, <1>4 DEF Comecou
  <1>6. w \in TipoDoGiro /\ Iguais(w, r) /\ w.timer = 0 /\ w.spinning = FALSE
    BY <1>4, <1>5, StopsTurning
  <1> HIDE DEF w
  <1>7. Iguais(w, giro)
    BY <1>3, <1>4, <1>6 DEF Iguais
  <1> QED
    BY <1>2, <1>6, <1>7, CallTells

LEMMA ValueTells ==
  ASSUME NEW d \in BOOLEAN, GiroOK(giro, d), NEW t \in Digitados, value(t)
  PROVE  GiroOK(giro', d)
PROOF
  <1> DEFINE x == IF t = Vazio THEN t ELSE _adjustValue(t)
             w == [giro EXCEPT !.val = x]
  <1>1. giro \in TipoDoGiro
    BY DEF GiroOK
  <1>2. x \in Valores
    BY SpinnerNumbers, Adjusted DEF Valores
  <1>3. giro' = spinnerModifer(w)
    BY DEF value, _value
  <1> HIDE DEF x
  <1>4. w \in TipoDoGiro
    BY <1>1, <1>2, FieldsOfHands
  <1>5. Iguais(w, giro) /\ w.timer = giro.timer /\ w.spinning = giro.spinning
    BY <1>1 DEF TipoDoGiro, Iguais
  <1> HIDE DEF w
  <1> QED
    BY <1>3, <1>4, <1>5, CallTells

LEMMA DisabledIsMarked ==
  ASSUME NEW d \in BOOLEAN, GiroOK(giro, d), _setOptionDisabledGiro
  PROVE  GiroOK(giro', d \/ giro.spinning \/ giro.cancelBlur)
PROOF
  <1> DEFINE x == [giro EXCEPT !.disabled = ~giro.disabled]
             y == [x EXCEPT !.foco = FALSE]
             c == giro.calado \/ (giro.foco /\ giro.previous # giro.val)
             v == [y EXCEPT !.calado = c]
  <1>1. /\ giro \in TipoDoGiro /\ Comecou(giro) /\ (~d => Seguro(giro)) /\ giro.val \in Valores
        /\ giro.disabled \in BOOLEAN /\ giro.calado \in BOOLEAN /\ giro.foco \in BOOLEAN
    BY DEF GiroOK, TipoDoGiro
  <1>2. giro' = v
    <2>1. v = [giro EXCEPT !.disabled = ~giro.disabled, !.foco = FALSE, !.calado = c]
      OBVIOUS
    <2> QED
      BY <2>1 DEF _setOptionDisabledGiro
  <1>3. x \in TipoDoGiro /\ Comecou(x)
    BY <1>1, FieldsOfHands
  <1>4. /\ x.timer = giro.timer /\ x.spinning = giro.spinning /\ x.cancelBlur = giro.cancelBlur
        /\ x.val = giro.val /\ x.avisado = giro.avisado /\ x.momento = giro.momento
    BY <1>1 DEF TipoDoGiro
  <1> HIDE DEF x
  <1>5. y \in TipoDoGiro /\ Comecou(y)
    BY <1>3, FieldsOfHands
  <1>6. /\ y.timer = x.timer /\ y.spinning = x.spinning /\ y.cancelBlur = x.cancelBlur
        /\ y.val = x.val /\ y.foco = FALSE /\ y.avisado = x.avisado /\ y.momento = x.momento
    BY <1>3 DEF TipoDoGiro
  <1> HIDE DEF y
  <1>7. v \in TipoDoGiro /\ Comecou(v)
    <2>1. c \in BOOLEAN
      BY <1>1
    <2> HIDE DEF c
    <2> QED
      BY <1>5, <2>1, FieldsOfHands
  <1>8. /\ v.timer = y.timer /\ v.spinning = y.spinning /\ v.cancelBlur = y.cancelBlur
        /\ v.val = y.val /\ v.foco = y.foco /\ v.avisado = y.avisado /\ v.momento = y.momento
        /\ v.calado = c
    BY <1>5 DEF TipoDoGiro
  <1> HIDE DEF v
  <1>9. ~(d \/ giro.spinning \/ giro.cancelBlur) => Seguro(v)
    BY <1>1, <1>4, <1>6, <1>7, <1>8 DEF Seguro, Comecou, c
  <1> QED
    BY <1>2, <1>7, <1>9 DEF GiroOK

LEMMA TimersTurn ==
  ASSUME NEW d \in BOOLEAN, GiroOK(giro, d), repete \/ fimDaRoda \/ passouMomento
  PROVE  GiroOK(giro', d)
PROOF
  <1>1. giro \in TipoDoGiro /\ Comecou(giro) /\ (~d => Seguro(giro)) /\ giro.timer \in Int
    BY DEF GiroOK, TipoDoGiro
  <1>2. CASE repete
    <2> DEFINE r == _repeat(giro, giro.timer)
    <2>1. giro' = r /\ giro.timer # 0
      BY <1>2 DEF repete
    <2>2. r \in TipoDoGiro /\ Iguais(r, giro) /\ r.timer = giro.timer /\ r.spinning = giro.spinning
      BY <1>1, RepeatsTurning
    <2> HIDE DEF r
    <2> QED
      BY <1>1, <2>1, <2>2 DEF GiroOK, Comecou, Seguro, Iguais
  <1>3. CASE fimDaRoda
    <2> DEFINE v == [giro EXCEPT !.roda = FALSE]
    <2>1. giro' = _stop(v)
      BY <1>3 DEF fimDaRoda
    <2>2. v \in TipoDoGiro /\ Comecou(v)
      BY <1>1, FieldsOfHands
    <2>3. /\ v.foco = giro.foco /\ v.disabled = giro.disabled /\ v.cancelBlur = giro.cancelBlur
          /\ v.avisado = giro.avisado /\ v.previous = giro.previous /\ v.val = giro.val
          /\ v.momento = giro.momento /\ v.calado = giro.calado
      BY <1>1 DEF TipoDoGiro
    <2> HIDE DEF v
    <2>4. GiroOK(_stop(v), d)
      BY <1>1, <2>2, <2>3, StopIsSafe DEF Seguro
    <2> QED
      BY <2>1, <2>4
  <1>4. CASE passouMomento
    <2> DEFINE x == [giro EXCEPT !.cancelBlur = FALSE]
               v == [x EXCEPT !.momento = FALSE]
               y == checkFocusGiro(v)
               z == [y EXCEPT !.guardado = Vazio]
    <2>1. giro' = z /\ giro.momento
      <3>1. v = [giro EXCEPT !.cancelBlur = FALSE, !.momento = FALSE]
        OBVIOUS
      <3> QED
        BY <1>4, <3>1 DEF passouMomento
    <2>2. x \in TipoDoGiro /\ Comecou(x)
      BY <1>1, FieldsOfHands
    <2>3. /\ x.foco = giro.foco /\ x.disabled = giro.disabled /\ x.cancelBlur = FALSE
          /\ x.avisado = giro.avisado /\ x.previous = giro.previous /\ x.val = giro.val
          /\ x.timer = giro.timer /\ x.spinning = giro.spinning
          /\ x.botao = giro.botao /\ x.tecla = giro.tecla /\ x.calado = giro.calado
      BY <1>1 DEF TipoDoGiro
    <2> HIDE DEF x
    <2>4. v \in TipoDoGiro /\ Comecou(v) /\ v.guardado \in Valores /\ v.disabled \in BOOLEAN
      <3>1. v \in TipoDoGiro /\ Comecou(v)
        BY <2>2, FieldsOfHands
      <3> QED
        BY <3>1 DEF TipoDoGiro
    <2>5. /\ v.foco = x.foco /\ v.disabled = x.disabled /\ v.cancelBlur = x.cancelBlur /\ v.momento = FALSE
          /\ v.avisado = x.avisado /\ v.previous = x.previous /\ v.val = x.val
          /\ v.timer = x.timer /\ v.spinning = x.spinning
          /\ v.botao = x.botao /\ v.tecla = x.tecla /\ v.calado = x.calado
      BY <2>2 DEF TipoDoGiro
    <2> HIDE DEF v
    <2>6. y \in TipoDoGiro /\ Comecou(y)
      <3>1. CASE v.foco
        BY <2>4, <3>1 DEF checkFocusGiro
      <3>2. CASE ~v.foco
        <4> DEFINE livre == ~v.disabled
                   u == [v EXCEPT !.foco = livre]
        <4>1. livre \in BOOLEAN
          OBVIOUS
        <4>2. y = [u EXCEPT !.previous = v.guardado]
          BY <3>2 DEF checkFocusGiro
        <4> HIDE DEF livre, y
        <4>3. u \in TipoDoGiro /\ Comecou(u)
          BY <2>4, <4>1, FieldsOfHands
        <4> HIDE DEF u
        <4> QED
          BY <2>4, <4>2, <4>3, FieldsOfHands
      <3> QED
        BY <3>1, <3>2
    <2>7. ~d => y = v
      BY <1>1, <2>1, <2>3, <2>5 DEF Seguro, checkFocusGiro
    <2> HIDE DEF y
    <2>8. z \in TipoDoGiro /\ Comecou(z)
      BY <2>6, FieldsOfHands DEF Valores
    <2>9. /\ z.foco = y.foco /\ z.disabled = y.disabled /\ z.cancelBlur = y.cancelBlur
          /\ z.avisado = y.avisado /\ z.previous = y.previous /\ z.val = y.val
          /\ z.timer = y.timer /\ z.spinning = y.spinning /\ z.momento = y.momento
          /\ z.botao = y.botao /\ z.tecla = y.tecla /\ z.calado = y.calado
      BY <2>6 DEF TipoDoGiro
    <2> HIDE DEF z
    <2>10. ~d => Seguro(z)
      BY <1>1, <2>1, <2>3, <2>5, <2>7, <2>9 DEF Seguro
    <2> QED
      BY <2>1, <2>8, <2>10 DEF GiroOK
  <1> QED
    BY <1>2, <1>3, <1>4

LEMMA SpinnerStep ==
  ASSUME giroDesvio \in BOOLEAN, GiroOK(giro, giroDesvio), GiroNext
  PROVE  giroDesvio' \in BOOLEAN /\ GiroOK(giro', giroDesvio')
PROOF
  <1>1. CASE blurGiro /\ giroDesvio' = (giroDesvio \/ giro.cancelBlur)
    BY <1>1, BlurTells
  <1>2. CASE _setOptionDisabledGiro /\ giroDesvio' = (giroDesvio \/ giro.spinning \/ giro.cancelBlur)
    BY <1>2, DisabledIsMarked
  <1>3. CASE UNCHANGED giroDesvio
    <2>1. ASSUME NEW k \in {1, -1, Pagina, -Pagina, 0}, keydownGiro(k) PROVE GiroOK(giro', giroDesvio)
      <3>1. k \in Int
        BY SpinnerNumbers
      <3> QED
        BY <2>1, <3>1, KeysTurn
    <2>2. ASSUME NEW s \in {1, -1}, mousewheel(s) PROVE GiroOK(giro', giroDesvio)
      BY <2>2, WheelTurns
    <2>3. ASSUME NEW s \in {1, -1}, mousedownGiro(s) PROVE GiroOK(giro', giroDesvio)
      BY <2>3, ButtonTurns
    <2>4. ASSUME NEW s \in {1, -1}, _stepUp(s) PROVE GiroOK(giro', giroDesvio)
      BY <2>4, StepTells
    <2>5. \/ \E k \in {1, -1, Pagina, -Pagina, 0} : keydownGiro(k)
          \/ \E v \in Digitados : digita(v) \/ value(v)
          \/ \E s \in {1, -1} : mousewheel(s) \/ mousedownGiro(s) \/ _stepUp(s)
          \/ keyup \/ focusGiro \/ solta \/ repete \/ fimDaRoda \/ passouMomento
          \/ blurGiro /\ giroDesvio' = (giroDesvio \/ giro.cancelBlur)
          \/ _setOptionDisabledGiro /\ giroDesvio' = (giroDesvio \/ giro.spinning \/ giro.cancelBlur)
      BY DEF GiroNext
    <2>6. focusGiro \/ (\E v \in Digitados : digita(v)) => GiroOK(giro', giroDesvio)
      BY TypingAndFocus
    <2>7. keyup => GiroOK(giro', giroDesvio)
      BY KeyUpEnds
    <2>8. solta => GiroOK(giro', giroDesvio)
      BY ButtonEnds
    <2>9. repete \/ fimDaRoda \/ passouMomento => GiroOK(giro', giroDesvio)
      BY TimersTurn
    <2>10. ASSUME NEW v \in Digitados, value(v) PROVE GiroOK(giro', giroDesvio)
      BY <2>10, ValueTells
    <2> QED
      BY <1>1, <1>2, <1>3, <2>10, <2>1, <2>2, <2>3, <2>4, <2>5, <2>6, <2>7, <2>8, <2>9
  <1> QED
    BY <1>1, <1>2, <1>3 DEF GiroNext

LEMMA SpinnerBegins ==
  ASSUME GiroInit
  PROVE  giroDesvio \in BOOLEAN /\ GiroOK(giro, giroDesvio)
PROOF
  <1>1. PICK v \in Digitados :
          giro = [val |-> v, previous |-> v, guardado |-> Vazio, spinning |-> FALSE, counter |-> 0, timer |-> 0,
                  roda |-> FALSE, cancelBlur |-> FALSE, momento |-> FALSE, foco |-> FALSE, disabled |-> FALSE,
                  botao |-> 0, tecla |-> 0, avisado |-> v, calado |-> FALSE]
    BY DEF GiroInit
  <1>2. v \in Valores /\ Vazio \in Valores
    BY SpinnerNumbers DEF Valores
  <1>3. giro \in TipoDoGiro
    BY <1>1, <1>2 DEF TipoDoGiro
  <1> QED
    BY <1>1, <1>3 DEF GiroOK, Comecou, Seguro, GiroInit

LEMMA SpinnerOnThePage ==
  [Next]_vars => GiroNext \/ UNCHANGED <<giro, giroDesvio>>
  BY DEF Next, vars, giroVars

LEMMA SpinnerInvariant == Spec => [](giroDesvio \in BOOLEAN /\ GiroOK(giro, giroDesvio))
PROOF
  <1> DEFINE I == giroDesvio \in BOOLEAN /\ GiroOK(giro, giroDesvio)
  <1>1. Init => I
    BY SpinnerBegins DEF Init
  <1>2. I /\ [Next]_vars => I'
    <2>1. I /\ UNCHANGED <<giro, giroDesvio>> => I'
      BY DEF GiroOK, TipoDoGiro, Comecou, Seguro
    <2>2. giroDesvio' \in BOOLEAN /\ GiroOK(giro', giroDesvio') => I'
      BY DEF GiroOK, TipoDoGiro, Comecou, Seguro
    <2> QED
      BY <2>1, <2>2, SpinnerOnThePage, SpinnerStep
  <1> QED
    BY <1>1, <1>2, PTL DEF Spec

LEMMA SpinnersEndAndTell ==
  giroDesvio \in BOOLEAN /\ GiroOK(giro, giroDesvio) => GiroPara /\ GiroAvisa
  BY DEF GiroOK, Comecou, Seguro, GiroPara, GiroAvisa

\* A spinner turns by itself only while a button or a key of the field is held down.
THEOREM SpinnerStops == Spec => []GiroPara
  BY SpinnerInvariant, SpinnersEndAndTell, PTL

\* When the spinner's field is left, the last change event told the page of its
\* value, unless the value came about without one.
THEOREM SpinnerTells == Spec => []GiroAvisa
  BY SpinnerInvariant, SpinnersEndAndTell, PTL

----------------------------------------------------------------------------
(* Select menus *)

TipoDaEscolha ==
  [selectedIndex : Opcoes, rotulo : Opcoes, focusIndex : 0..NOpcoes, isOpen : BOOLEAN,
   rendered : BOOLEAN, disabled : BOOLEAN, foco : BOOLEAN, reset : BOOLEAN, mudada : BOOLEAN]

\* An open menu has the focus on an item, which the keys may select.
EscolhaOK(w) ==
  /\ w \in TipoDaEscolha
  /\ w.isOpen => w.focusIndex # 0
  /\ w.rotulo = w.selectedIndex \/ w.mudada \/ w.reset

LEMMA OptionsAreNumbered ==
  /\ NOpcoes \in Nat /\ 1 \in Opcoes /\ Inertes \subseteq Opcoes /\ 0 \notin Opcoes
  /\ 0..NOpcoes = Opcoes \cup {0}
  BY ConstantesDaEscolha DEF Opcoes

LEMMA SelectFollows ==
  ASSUME NEW w, w \in TipoDaEscolha, NEW i \in Opcoes
  PROVE  LET r == _select(w, i) IN
         EscolhaOK(r) /\ r.selectedIndex = i /\ r.rotulo = i /\ r.reset = w.reset
         /\ r.focusIndex = w.focusIndex /\ r.isOpen = FALSE
PROOF
  <1> DEFINE r == _select(w, i)
  <1>1. r = [w EXCEPT !.selectedIndex = i, !.rotulo = i, !.isOpen = FALSE, !.mudada = FALSE]
    BY DEF _select
  <1> HIDE DEF r
  <1>2. \A f, g \in BOOLEAN :
          [w EXCEPT !.selectedIndex = i, !.rotulo = i, !.isOpen = f, !.mudada = g] \in TipoDaEscolha
    BY DEF TipoDaEscolha
  <1>3. r \in TipoDaEscolha
    BY <1>1, <1>2, Zenon
  <1>4. /\ r.selectedIndex = i /\ r.rotulo = i /\ r.reset = w.reset /\ r.focusIndex = w.focusIndex
        /\ r.isOpen = FALSE
    BY <1>1 DEF TipoDaEscolha
  <1> QED
    BY <1>3, <1>4 DEF EscolhaOK, r

LEMMA FocusFollows ==
  ASSUME NEW w, EscolhaOK(w), NEW i \in Opcoes
  PROVE  LET r == focusEscolha(w, i) IN
         /\ EscolhaOK(r) /\ r.focusIndex = i /\ r.reset = w.reset
         /\ i = w.selectedIndex => r.selectedIndex = w.selectedIndex
PROOF
  <1> USE OptionsAreNumbered
  <1> DEFINE s == IF w.focusIndex \notin {0, i} /\ ~w.isOpen THEN _select(w, i) ELSE w
             r == focusEscolha(w, i)
  <1>1. /\ EscolhaOK(s) /\ s.reset = w.reset
        /\ i = w.selectedIndex => s.selectedIndex = w.selectedIndex
    BY SelectFollows DEF EscolhaOK
  <1>2. r = [s EXCEPT !.focusIndex = i]
    BY DEF focusEscolha
  <1> HIDE DEF s, r
  <1>3. s \in TipoDaEscolha
    BY <1>1 DEF EscolhaOK
  <1>4. r \in TipoDaEscolha
    BY <1>2, <1>3 DEF TipoDaEscolha
  <1>5. /\ r.focusIndex = i /\ r.selectedIndex = s.selectedIndex /\ r.rotulo = s.rotulo
        /\ r.mudada = s.mudada /\ r.reset = s.reset /\ r.isOpen = s.isOpen
    BY <1>2, <1>3 DEF TipoDaEscolha
  <1>6. EscolhaOK(r)
    BY <1>1, <1>4, <1>5 DEF EscolhaOK
  <1> QED
    BY <1>1, <1>5, <1>6 DEF r

LEMMA RefreshFollows ==
  ASSUME NEW w, EscolhaOK(w)
  PROVE  /\ EscolhaOK(_refreshMenu(w)) /\ _refreshMenu(w).focusIndex # 0
         /\ EscolhaOK(refreshEscolha(w))
         /\ refreshEscolha(w).rotulo = refreshEscolha(w).selectedIndex
PROOF
  <1> USE OptionsAreNumbered
  <1> DEFINE f == focusEscolha(w, w.selectedIndex)
             m == _refreshMenu(w)
             r == refreshEscolha(w)
  <1>1. w.selectedIndex \in Opcoes
    BY DEF EscolhaOK, TipoDaEscolha
  <1>2. EscolhaOK(f) /\ f.focusIndex = w.selectedIndex /\ f.selectedIndex = w.selectedIndex
    BY <1>1, FocusFollows
  <1>3. m = [f EXCEPT !.rendered = TRUE]
    BY DEF _refreshMenu
  <1>4. r = [m EXCEPT !.rotulo = w.selectedIndex, !.mudada = FALSE]
    BY DEF refreshEscolha
  <1> HIDE DEF f, m, r
  <1>5. f \in TipoDaEscolha
    BY <1>2 DEF EscolhaOK
  <1>6. m \in TipoDaEscolha
    BY <1>3, <1>5 DEF TipoDaEscolha
  <1>7. /\ m.focusIndex = f.focusIndex /\ m.selectedIndex = f.selectedIndex /\ m.rotulo = f.rotulo
        /\ m.mudada = f.mudada /\ m.reset = f.reset /\ m.isOpen = f.isOpen
    BY <1>3, <1>5 DEF TipoDaEscolha
  <1>8. r \in TipoDaEscolha
    BY <1>1, <1>4, <1>6 DEF TipoDaEscolha
  <1>9. /\ r.focusIndex = m.focusIndex /\ r.selectedIndex = m.selectedIndex
        /\ r.rotulo = w.selectedIndex /\ r.isOpen = m.isOpen
    BY <1>4, <1>6 DEF TipoDaEscolha
  <1>10. EscolhaOK(m) /\ m.focusIndex # 0
    BY <1>1, <1>2, <1>6, <1>7 DEF EscolhaOK
  <1>11. EscolhaOK(r) /\ r.rotulo = r.selectedIndex
    BY <1>2, <1>7, <1>8, <1>9, <1>10 DEF EscolhaOK
  <1> QED
    BY <1>10, <1>11 DEF m, r

\* What no more than opens or closes the menu, or moves the page's focus.
LEMMA FlagsFollow ==
  ASSUME NEW w, EscolhaOK(w)
  PROVE  /\ \A b \in BOOLEAN : /\ EscolhaOK([w EXCEPT !.foco = b])
                               /\ EscolhaOK([w EXCEPT !.disabled = b])
         /\ w.rotulo = w.selectedIndex =>
              \A b \in BOOLEAN : EscolhaOK([w EXCEPT !.reset = b])
         /\ w.focusIndex # 0 => EscolhaOK([w EXCEPT !.isOpen = TRUE])
         /\ EscolhaOK([w EXCEPT !.isOpen = FALSE])
PROOF
  <1>1. w \in TipoDaEscolha
    BY DEF EscolhaOK
  <1>2. ASSUME NEW b \in BOOLEAN, NEW v,
               v \in {[w EXCEPT !.foco = b], [w EXCEPT !.disabled = b]}
        PROVE  EscolhaOK(v)
    <2>1. v \in TipoDaEscolha
      BY <1>1, <1>2 DEF TipoDaEscolha
    <2>2. /\ v.focusIndex = w.focusIndex /\ v.selectedIndex = w.selectedIndex /\ v.rotulo = w.rotulo
          /\ v.mudada = w.mudada /\ v.reset = w.reset /\ v.isOpen = w.isOpen
      BY <1>1, <1>2 DEF TipoDaEscolha
    <2> QED
      BY <2>1, <2>2 DEF EscolhaOK
  <1>3. ASSUME w.rotulo = w.selectedIndex, NEW b \in BOOLEAN
        PROVE  EscolhaOK([w EXCEPT !.reset = b])
    <2> DEFINE v == [w EXCEPT !.reset = b]
    <2>1. v \in TipoDaEscolha
      BY <1>1 DEF TipoDaEscolha
    <2>2. /\ v.focusIndex = w.focusIndex /\ v.selectedIndex = w.selectedIndex /\ v.rotulo = w.rotulo
          /\ v.isOpen = w.isOpen
      BY <1>1 DEF TipoDaEscolha
    <2> HIDE DEF v
    <2>3. EscolhaOK(v)
      BY <1>3, <2>1, <2>2 DEF EscolhaOK
    <2> QED
      BY <2>3 DEF v
  <1>4. ASSUME NEW b \in BOOLEAN, b => w.focusIndex # 0
        PROVE  EscolhaOK([w EXCEPT !.isOpen = b])
    <2> DEFINE v == [w EXCEPT !.isOpen = b]
    <2>1. v \in TipoDaEscolha
      BY <1>1 DEF TipoDaEscolha
    <2>2. /\ v.focusIndex = w.focusIndex /\ v.selectedIndex = w.selectedIndex /\ v.rotulo = w.rotulo
          /\ v.mudada = w.mudada /\ v.reset = w.reset /\ v.isOpen = b
      BY <1>1 DEF TipoDaEscolha
    <2> HIDE DEF v
    <2>3. EscolhaOK(v)
      BY <1>4, <2>1, <2>2 DEF EscolhaOK
    <2> QED
      BY <2>3 DEF v
  <1>5. w.focusIndex # 0 => EscolhaOK([w EXCEPT !.isOpen = TRUE])
    BY <1>4, Zenon
  <1>6. EscolhaOK([w EXCEPT !.isOpen = FALSE])
    BY <1>4, Zenon
  <1> QED
    BY <1>2, <1>3, <1>5, <1>6

LEMMA OpenFollows ==
  ASSUME NEW w, EscolhaOK(w)
  PROVE  /\ EscolhaOK(openEscolha(w)) /\ EscolhaOK(closeEscolha(w)) /\ EscolhaOK(_toggleEscolha(w))
PROOF
  <1> USE OptionsAreNumbered
  <1>1. w.selectedIndex \in Opcoes
    BY DEF EscolhaOK, TipoDaEscolha
  <1>2. EscolhaOK(closeEscolha(w))
    BY FlagsFollow DEF closeEscolha
  <1>3. EscolhaOK(openEscolha(w))
    <2> DEFINE m == IF w.rendered THEN focusEscolha(w, w.selectedIndex) ELSE _refreshMenu(w)
    <2>1. EscolhaOK(m) /\ m.focusIndex # 0
      BY <1>1, FocusFollows, RefreshFollows
    <2>2. openEscolha(w) = IF w.disabled THEN w ELSE [m EXCEPT !.isOpen = TRUE]
      BY DEF openEscolha
    <2> HIDE DEF m
    <2>3. EscolhaOK([m EXCEPT !.isOpen = TRUE])
      BY <2>1, FlagsFollow
    <2> QED
      BY <2>2, <2>3
  <1> QED
    BY <1>2, <1>3 DEF _toggleEscolha

LEMMA MoveFollows ==
  ASSUME NEW w, EscolhaOK(w), NEW passo \in {1, -1}, NEW fim \in BOOLEAN
  PROVE  EscolhaOK(_moveEscolha(w, passo, fim))
PROOF
  <1> USE OptionsAreNumbered
  <1> DEFINE de == IF w.isOpen THEN w.focusIndex ELSE w.selectedIndex
             onde == {i \in (IF w.isOpen THEN Opcoes ELSE Opcoes \ Inertes) :
                        IF passo = 1 THEN i > de ELSE i < de}
             longe(i, j) == IF passo = 1 THEN i >= j ELSE i <= j
             k == CHOOSE i \in onde : \A j \in onde : IF fim THEN longe(i, j) ELSE longe(j, i)
  <1>1. CASE onde = {}
    BY <1>1 DEF _moveEscolha
  <1>2. CASE onde # {}
    <2>1. onde \in SUBSET Opcoes
      OBVIOUS
    <2> HIDE DEF onde
    <2>2. onde \in SUBSET Nat
      BY <2>1 DEF Opcoes
    <2>3. \E i \in onde : \A j \in onde : i <= j
      BY <1>2, <2>2, FirstOfNumbers
    <2>4. \E i \in onde : \A j \in onde : i >= j
      BY <1>2, <2>1, LastOfNumbers DEF Opcoes
    <2>5. \E i \in onde : \A j \in onde : IF fim THEN longe(i, j) ELSE longe(j, i)
      <3>1. \A i, j \in onde : i \in Int /\ j \in Int
        BY <2>2
      <3>2. CASE passo = 1 /\ fim
        BY <2>4, <3>2
      <3>3. CASE passo = 1 /\ ~fim
        <4>1. PICK i \in onde : \A j \in onde : i <= j
          BY <2>3
        <4>2. \A j \in onde : j >= i
          BY <2>2, <4>1
        <4> QED
          BY <3>3, <4>2
      <3>4. CASE passo # 1 /\ fim
        BY <2>3, <3>4
      <3>5. CASE passo # 1 /\ ~fim
        <4>1. PICK i \in onde : \A j \in onde : i >= j
          BY <2>4
        <4>2. \A j \in onde : j <= i
          BY <2>2, <4>1
        <4> QED
          BY <3>5, <4>2
      <3> QED
        BY <3>2, <3>3, <3>4, <3>5
    <2>6. k \in onde
      BY <2>5
    <2>7. _moveEscolha(w, passo, fim) = focusEscolha(w, k)
      BY <1>2 DEF _moveEscolha, onde
    <2> HIDE DEF k
    <2> QED
      BY <2>1, <2>6, <2>7, FocusFollows
  <1> QED
    BY <1>1, <1>2

LEMMA SelectMenuStep ==
  ASSUME EscolhaOK(escolha), EscolhaNext
  PROVE  EscolhaOK(escolha')
PROOF
  <1> USE OptionsAreNumbered
  <1> DEFINE w == escolha
  <1>0. w \in TipoDaEscolha /\ w.focusIndex \in 0..NOpcoes /\ w.selectedIndex \in Opcoes
    BY DEF EscolhaOK, TipoDaEscolha
  <1>1. CASE focusin
    <2> DEFINE m == IF w.rendered THEN w ELSE _refreshMenu(w)
    <2>1. EscolhaOK(m)
      BY RefreshFollows
    <2>2. escolha' = [m EXCEPT !.foco = TRUE]
      BY <1>1 DEF focusin
    <2> HIDE DEF m
    <2> QED
      BY <2>1, <2>2, FlagsFollow
  <1>2. CASE keydownEscolha
    <2>1. EscolhaOK(closeEscolha(w)) /\ EscolhaOK(_toggleEscolha(w))
      BY OpenFollows
    <2>2. EscolhaOK([closeEscolha(w) EXCEPT !.foco = FALSE])
      BY <2>1, FlagsFollow
    <2>3. w.isOpen => EscolhaOK(_selectFocusedItem(w))
      BY <1>0, SelectFollows DEF EscolhaOK, _selectFocusedItem
    <2>4. \A passo \in {1, -1}, fim \in BOOLEAN : EscolhaOK(_moveEscolha(w, passo, fim))
      BY MoveFollows
    <2>5. \A i \in Opcoes : EscolhaOK(focusEscolha(w, i))
      BY FocusFollows
    <2>6. \/ escolha' = [closeEscolha(w) EXCEPT !.foco = FALSE]
          \/ escolha' = closeEscolha(w) \/ escolha' = _toggleEscolha(w)
          \/ escolha' = IF w.isOpen THEN _selectFocusedItem(w) ELSE w
          \/ escolha' = IF w.isOpen THEN _selectFocusedItem(w) ELSE _toggleEscolha(w)
          \/ \E passo \in {1, -1}, fim \in BOOLEAN : escolha' = _moveEscolha(w, passo, fim)
          \/ \E i \in Opcoes : escolha' = focusEscolha(w, i)
      BY <1>2 DEF keydownEscolha
    <2> QED
      BY <2>1, <2>2, <2>3, <2>4, <2>5, <2>6
  <1>3. CASE clickBotao
    <2>1. EscolhaOK(_toggleEscolha(w))
      BY OpenFollows
    <2> QED
      BY <1>3, <2>1, FlagsFollow DEF clickBotao
  <1>4. CASE _documentClick
    <2>1. EscolhaOK(closeEscolha(w))
      BY OpenFollows
    <2> QED
      BY <1>4, <2>1, FlagsFollow DEF _documentClick
  <1>5. CASE pagina
    <2>1. ASSUME NEW i \in Opcoes, escolha' = [w EXCEPT !.selectedIndex = i, !.mudada = TRUE]
          PROVE  EscolhaOK(escolha')
      <3> DEFINE v == escolha'
      <3>1. v \in TipoDaEscolha
        BY <1>0, <2>1 DEF TipoDaEscolha
      <3>2. v.focusIndex = w.focusIndex /\ v.isOpen = w.isOpen /\ v.mudada = TRUE
        BY <1>0, <2>1 DEF TipoDaEscolha
      <3> HIDE DEF v
      <3>3. EscolhaOK(v)
        BY <3>1, <3>2 DEF EscolhaOK
      <3> QED
        BY <3>3 DEF v
    <2> QED
      BY <1>5, <2>1, RefreshFollows, OpenFollows DEF pagina
  <1>6. CASE reset(1)
    <2> DEFINE v == escolha'
    <2>1. v = [w EXCEPT !.selectedIndex = 1, !.reset = TRUE]
      BY <1>6 DEF reset
    <2> HIDE DEF v
    <2>2. v \in TipoDaEscolha
      BY <1>0, <2>1 DEF TipoDaEscolha
    <2>3. v.focusIndex = w.focusIndex /\ v.isOpen = w.isOpen /\ v.reset = TRUE
      BY <1>0, <2>1 DEF TipoDaEscolha
    <2>4. EscolhaOK(v)
      BY <2>2, <2>3 DEF EscolhaOK
    <2> QED
      BY <2>4 DEF v
  <1>7. CASE _formResetHandler
    <2> DEFINE r == refreshEscolha(w)
    <2>1. EscolhaOK(r) /\ r.rotulo = r.selectedIndex
      BY RefreshFollows
    <2>2. escolha' = [r EXCEPT !.reset = FALSE]
      BY <1>7 DEF _formResetHandler
    <2> HIDE DEF r
    <2> QED
      BY <2>1, <2>2, FlagsFollow
  <1>8. ASSUME NEW i \in Opcoes, rato(i) PROVE EscolhaOK(escolha')
    <2> DEFINE f == focusEscolha(w, i)
    <2>1. EscolhaOK(f)
      BY FocusFollows
    <2>2. escolha' \in {f, _select(f, i)}
      BY <1>8 DEF rato
    <2> HIDE DEF f
    <2>3. EscolhaOK(_select(f, i))
      BY <2>1, SelectFollows DEF EscolhaOK
    <2> QED
      BY <2>1, <2>2, <2>3
  <1>9. ASSUME NEW v \in BOOLEAN, _setOptionDisabledEscolha(v) PROVE EscolhaOK(escolha')
    <2> DEFINE m == IF v THEN closeEscolha(w) ELSE w
               f == m.foco /\ ~v
               y == [m EXCEPT !.disabled = v]
    <2>1. EscolhaOK(m)
      BY OpenFollows
    <2>2. escolha' = [m EXCEPT !.disabled = v, !.foco = @ /\ ~v]
      BY <1>9 DEF _setOptionDisabledEscolha
    <2> HIDE DEF m
    <2>3. m \in TipoDaEscolha /\ f \in BOOLEAN
      BY <2>1 DEF EscolhaOK
    <2>4. y.foco = m.foco
      BY <2>3 DEF TipoDaEscolha
    <2>5. escolha' = [y EXCEPT !.foco = y.foco /\ ~v]
      BY <2>2
    <2>6. EscolhaOK(y)
      BY <2>1, FlagsFollow
    <2> HIDE DEF y
    <2>7. (y.foco /\ ~v) \in BOOLEAN
      OBVIOUS
    <2> QED
      BY <2>5, <2>6, <2>7, FlagsFollow, Zenon
  <1> QED
    BY <1>1, <1>2, <1>3, <1>4, <1>5, <1>6, <1>7, <1>8, <1>9 DEF EscolhaNext

LEMMA SelectMenuOnThePage ==
  [Next]_vars => EscolhaNext \/ UNCHANGED escolha
  BY DEF Next, vars

LEMMA SelectMenuInvariant == Spec => []EscolhaOK(escolha)
PROOF
  <1>1. Init => EscolhaOK(escolha)
    <2> SUFFICES ASSUME EscolhaInit PROVE EscolhaOK(escolha)
      BY DEF Init
    <2>1. escolha \in TipoDaEscolha
      BY OptionsAreNumbered DEF EscolhaInit, TipoDaEscolha
    <2> QED
      BY <2>1 DEF EscolhaInit, EscolhaOK
  <1>2. EscolhaOK(escolha) /\ [Next]_vars => EscolhaOK(escolha)'
    <2>1. EscolhaOK(escolha) /\ UNCHANGED escolha => EscolhaOK(escolha)'
      BY DEF EscolhaOK, TipoDaEscolha
    <2>2. EscolhaOK(escolha') => EscolhaOK(escolha)'
      BY DEF EscolhaOK, TipoDaEscolha
    <2> QED
      BY <2>1, <2>2, SelectMenuOnThePage, SelectMenuStep
  <1> QED
    BY <1>1, <1>2, PTL DEF Spec

\* The button of a select menu shows what the element has, whatever keys, mouse,
\* refreshes and resets come, unless the page changed it and told nobody.
THEOREM LabelFollows == Spec => []RotuloSegue
PROOF
  <1>1. EscolhaOK(escolha) => RotuloSegue
    BY DEF EscolhaOK, RotuloSegue
  <1> QED
    BY <1>1, SelectMenuInvariant, PTL

----------------------------------------------------------------------------
(* Dialogs *)

Focaveis == Dialogos \cup {Fora, Corpo}

TipoDoDialogo ==
  [instances : Seq(Dialogos), isOpen : [Dialogos -> BOOLEAN], opener : [Dialogos -> Focaveis],
   zIndex : [Dialogos -> Int], overlay : [Dialogos -> Int], overlays : Int,
   focusin : SUBSET (Dialogos \X BOOLEAN), foco : Focaveis, confere : SUBSET Dialogos]

ModaisAbertos(w) == {d \in Modais : w.isOpen[d]}

Esta(s, d) == \E k \in 1..Len(s) : s[k] = d

\* Every open dialog is tracked; the overlays are those of the open modal ones, each
\* under its dialog and no two at the same height.
PilhaOK(w) ==
  /\ \A d \in Dialogos : w.isOpen[d] => Esta(w.instances, d)
  /\ \A d \in Dialogos : IF d \in ModaisAbertos(w) THEN 0 <= w.overlay[d] /\ w.overlay[d] < w.zIndex[d]
                         ELSE w.overlay[d] = -1
  /\ \A d, e \in ModaisAbertos(w) : w.overlay[d] = w.overlay[e] => d = e
  /\ w.overlays = Cardinality(ModaisAbertos(w))

\* The handler of the lowest of them holds the focus, once it has opened; until then
\* some dialog has got it.
GuardaOK(w) ==
  /\ w.focusin # {} <=> ModaisAbertos(w) # {}
  /\ \A g \in w.focusin :
       /\ g[1] \in ModaisAbertos(w) /\ \A e \in ModaisAbertos(w) : w.overlay[g[1]] <= w.overlay[e]
       /\ g[2] => w.foco \in Dialogos
       /\ w.foco # Fora

DialogoOK(w, desvio) == w \in TipoDoDialogo /\ PilhaOK(w) /\ (~desvio => GuardaOK(w))

LEMMA DialogsAreFew ==
  /\ IsFiniteSet(Dialogos) /\ Modais \subseteq Dialogos
  /\ Fora \notin Dialogos /\ Corpo \notin Dialogos /\ Corpo # Fora
  BY ConstantesDosDialogos

LEMMA LastOfFinite ==
  ASSUME NEW S, IsFiniteSet(S), S \subseteq Int, S # {}
  PROVE  \E x \in S : \A y \in S : y <= x
PROOF
  <1> DEFINE Maiores(x) == {y \in S : y > x}
             D == {Maiores(x) : x \in S}
  <1>1. D \subseteq FiniteSubsetsOf(S) /\ D # {}
    <2>1. ASSUME NEW x \in S
          PROVE  Maiores(x) \in SUBSET S /\ IsFiniteSet(Maiores(x))
      BY FS_Subset
    <2> QED
      BY <2>1 DEF FiniteSubsetsOf
  <1>2. PICK m \in D : \A d \in D : ~(<<d, m>> \in StrictSubsetOrdering(S))
    <2> HIDE DEF D
    <2> QED
      BY <1>1, FS_StrictSubsetOrderingWellFounded, WFMin
  <1>3. PICK x \in S : m = Maiores(x)
    BY <1>2
  <1>4. ASSUME NEW y \in S, y > x
        PROVE  FALSE
    <2>0. \A z \in S : z \in Int
      OBVIOUS
    <2>1a. \A z \in S : z > y => z > x
      BY <1>4, <2>0
    <2>1b. ~(y > y)
      BY <2>0
    <2>1. Maiores(y) \subseteq Maiores(x) /\ y \in Maiores(x) /\ y \notin Maiores(y)
      BY <1>4, <2>1a, <2>1b, Zenon
    <2>2. <<Maiores(y), m>> \in StrictSubsetOrdering(S)
      BY <1>3, <2>1 DEF StrictSubsetOrdering
    <2>3. Maiores(y) \in D
      OBVIOUS
    <2> QED
      BY <1>2, <2>2, <2>3
  <1>5. \A y \in S : y <= x
    BY <1>4
  <1> QED
    BY <1>5

\* What is spliced out of a sequence leaves the rest.
LEMMA RestStays ==
  ASSUME NEW s \in Seq(Dialogos), NEW i \in 1..Len(s)
  PROVE  /\ RemoveAt(s, i) \in Seq(Dialogos)
         /\ \A k \in 1..Len(s) : k # i => Esta(RemoveAt(s, i), s[k])
PROOF
  <1> DEFINE a == SubSeq(s, 1, i - 1)
             b == SubSeq(s, i + 1, Len(s))
             c == a \o b
  <1>1. c = RemoveAt(s, i)
    BY DEF RemoveAt
  <1>2. /\ a \in Seq(Dialogos) /\ Len(a) = i - 1
        /\ \A k \in 1..(i - 1) : a[k] = s[k]
    OBVIOUS
  <1>3. /\ b \in Seq(Dialogos) /\ Len(b) = Len(s) - i
        /\ \A k \in 1..(Len(s) - i) : b[k] = s[i + k]
    OBVIOUS
  <1> HIDE DEF a, b
  <1>4. /\ c \in Seq(Dialogos) /\ Len(c) = Len(s) - 1
        /\ \A k \in 1..(i - 1) : c[k] = s[k]
        /\ \A k \in 1..(Len(s) - i) : c[i - 1 + k] = s[i + k]
    <2>0. Len(s) \in Nat /\ i \in 1..Len(s)
      OBVIOUS
    <2>1. c \in Seq(Dialogos)
      BY <1>2, <1>3
    <2>2. Len(c) = Len(a) + Len(b) /\ \A k \in 1..(Len(a) + Len(b)) :
            c[k] = IF k <= Len(a) THEN a[k] ELSE b[k - Len(a)]
      BY <1>2, <1>3, ConcatProperties
    <2> HIDE DEF c
    <2>3. Len(c) = Len(s) - 1
      BY <1>2, <1>3, <2>0, <2>2
    <2>4. ASSUME NEW k \in 1..(i - 1) PROVE c[k] = s[k]
      <3>1. k \in 1..(Len(a) + Len(b)) /\ k <= Len(a)
        BY <1>2, <1>3, <2>0
      <3>2. c[k] = a[k]
        BY <2>2, <3>1
      <3> QED
        BY <1>2, <3>2
    <2>5. ASSUME NEW k \in 1..(Len(s) - i) PROVE c[i - 1 + k] = s[i + k]
      <3> DEFINE j == i - 1 + k
      <3>1. j \in 1..(Len(a) + Len(b)) /\ ~(j <= Len(a)) /\ j - Len(a) = k
        BY <1>2, <1>3, <2>0
      <3> HIDE DEF j
      <3>2. c[j] = b[j - Len(a)]
        BY <2>2, <3>1
      <3>3. b[k] = s[i + k]
        BY <1>3
      <3> QED
        BY <3>1, <3>2, <3>3 DEF j
    <2> QED
      BY <2>1, <2>3, <2>4, <2>5
  <1> HIDE DEF c
  <1>5. ASSUME NEW k \in 1..Len(s), k # i PROVE Esta(c, s[k])
    <2>1. CASE k < i
      <3>1. k \in 1..(i - 1) /\ k \in 1..Len(c)
        BY <1>4, <2>1
      <3>2. c[k] = s[k]
        BY <1>4, <3>1
      <3> QED
        BY <3>1, <3>2 DEF Esta
    <2>2. CASE k > i
      <3>1. k - 1 \in 1..Len(c) /\ k - i \in 1..(Len(s) - i)
        BY <1>4, <2>2
      <3>2. c[i - 1 + (k - i)] = s[i + (k - i)]
        BY <1>4, <3>1
      <3>3. i - 1 + (k - i) = k - 1 /\ i + (k - i) = k
        OBVIOUS
      <3> QED
        BY <3>1, <3>2, <3>3 DEF Esta
    <2> QED
      BY <1>5, <2>1, <2>2
  <1> QED
    BY <1>1, <1>4, <1>5

LEMMA UntrackedLeavesRest ==
  ASSUME NEW w, w \in TipoDoDialogo, NEW d \in Dialogos
  PROVE  \E s \in Seq(Dialogos) :
           /\ _untrackInstance(w, d) = [w EXCEPT !.instances = s]
           /\ \A e \in Dialogos : e # d /\ Esta(w.instances, e) => Esta(s, e)
PROOF
  <1> DEFINE s == w.instances
             exists == {k \in 1..Len(s) : s[k] = d}
  <1>1. s \in Seq(Dialogos)
    BY DEF TipoDoDialogo
  <1>2. CASE exists = {}
    <2>1. _untrackInstance(w, d) = w
      BY <1>2 DEF _untrackInstance
    <2>2. w = [w EXCEPT !.instances = s]
      BY DEF TipoDoDialogo
    <2> QED
      BY <1>1, <2>1, <2>2
  <1>3. CASE exists # {}
    <2>1. exists \in SUBSET Nat
      BY <1>1
    <2>2. \E k \in exists : \A j \in exists : k <= j
      BY <1>3, <2>1, FirstOfNumbers
    <2>3. Min(exists) \in exists
      <3> HIDE DEF exists
      <3> QED
        BY <2>2 DEF Min
    <2> DEFINE i == Min(exists)
               r == RemoveAt(s, i)
    <2>4. _untrackInstance(w, d) = [w EXCEPT !.instances = r]
      BY <1>3 DEF _untrackInstance
    <2>5. i \in 1..Len(s) /\ s[i] = d
      BY <2>3
    <2> HIDE DEF exists, i
    <2>6. r \in Seq(Dialogos) /\ \A k \in 1..Len(s) : k # i => Esta(r, s[k])
      BY <1>1, <2>5, RestStays
    <2> HIDE DEF r
    <2>7. ASSUME NEW e \in Dialogos, e # d, Esta(s, e) PROVE Esta(r, e)
      <3>1. PICK k \in 1..Len(s) : s[k] = e
        BY <2>7 DEF Esta
      <3> QED
        BY <2>5, <2>6, <2>7, <3>1
    <2> QED
      BY <2>4, <2>6, <2>7
  <1> QED
    BY <1>2, <1>3

LEMMA FirstIsTracked ==
  ASSUME NEW w, w \in TipoDoDialogo, NEW d \in Dialogos
  PROVE  \E s \in Seq(Dialogos) :
           /\ _makeFocusTarget(w, d) = [w EXCEPT !.instances = s]
           /\ \A e \in Dialogos : Esta(w.instances, e) => Esta(s, e)
           /\ Esta(s, d)
PROOF
  <1>1. PICK s \in Seq(Dialogos) :
          /\ _untrackInstance(w, d) = [w EXCEPT !.instances = s]
          /\ \A e \in Dialogos : e # d /\ Esta(w.instances, e) => Esta(s, e)
    BY UntrackedLeavesRest
  <1> DEFINE u == [w EXCEPT !.instances = s]
             r == <<d>> \o s
  <1>2. u.instances = s
    BY DEF TipoDoDialogo
  <1>3. _makeFocusTarget(w, d) = [u EXCEPT !.instances = r]
    BY <1>1, <1>2 DEF _makeFocusTarget
  <1>4. [u EXCEPT !.instances = r] = [w EXCEPT !.instances = r]
    BY DEF TipoDoDialogo
  <1>5. /\ r \in Seq(Dialogos) /\ Len(r) = Len(s) + 1 /\ r[1] = d
        /\ \A k \in 1..Len(s) : r[k + 1] = s[k]
    OBVIOUS
  <1> HIDE DEF r, u
  <1>6. Esta(r, d)
    BY <1>5 DEF Esta
  <1>7. ASSUME NEW e \in Dialogos, Esta(s, e) PROVE Esta(r, e)
    <2>1. PICK k \in 1..Len(s) : s[k] = e
      BY <1>7 DEF Esta
    <2>2. k + 1 \in 1..Len(r) /\ r[k + 1] = e
      BY <1>5, <2>1
    <2> QED
      BY <2>2 DEF Esta
  <1> QED
    BY <1>1, <1>3, <1>4, <1>5, <1>6, <1>7

\* A step that only gives the focus to x and tracks dialogs.
Foca(w, v, x) ==
  /\ v \in TipoDoDialogo /\ v.foco = x
  /\ v.isOpen = w.isOpen /\ v.opener = w.opener /\ v.zIndex = w.zIndex /\ v.overlay = w.overlay
  /\ v.overlays = w.overlays /\ v.focusin = w.focusin /\ v.confere = w.confere
  /\ \A e \in Dialogos : Esta(w.instances, e) => Esta(v.instances, e)

LEMMA TrackingOnly ==
  ASSUME NEW w, w \in TipoDoDialogo, NEW d \in Dialogos
  PROVE  /\ Foca(w, _makeFocusTarget(w, d), w.foco)
         /\ Esta(_makeFocusTarget(w, d).instances, d)
PROOF
  <1>1. PICK s \in Seq(Dialogos) :
          /\ _makeFocusTarget(w, d) = [w EXCEPT !.instances = s]
          /\ \A e \in Dialogos : Esta(w.instances, e) => Esta(s, e)
          /\ Esta(s, d)
    BY FirstIsTracked
  <1> DEFINE v == [w EXCEPT !.instances = s]
  <1>2. v \in TipoDoDialogo
    BY DEF TipoDoDialogo
  <1>3. /\ v.instances = s /\ v.foco = w.foco
        /\ v.isOpen = w.isOpen /\ v.opener = w.opener /\ v.zIndex = w.zIndex /\ v.overlay = w.overlay
        /\ v.overlays = w.overlays /\ v.focusin = w.focusin /\ v.confere = w.confere
    BY DEF TipoDoDialogo
  <1> HIDE DEF v
  <1>4. Foca(w, v, w.foco)
    BY <1>1, <1>2, <1>3 DEF Foca
  <1> QED
    BY <1>1, <1>3, <1>4 DEF v

LEMMA FocusOnly ==
  ASSUME NEW w, w \in TipoDoDialogo, NEW x \in Focaveis
  PROVE  Foca(w, [w EXCEPT !.foco = x], x)
PROOF
  <1> DEFINE v == [w EXCEPT !.foco = x]
  <1>1. v \in TipoDoDialogo
    BY DEF TipoDoDialogo
  <1>2. /\ v.instances = w.instances /\ v.foco = x
        /\ v.isOpen = w.isOpen /\ v.opener = w.opener /\ v.zIndex = w.zIndex /\ v.overlay = w.overlay
        /\ v.overlays = w.overlays /\ v.focusin = w.focusin /\ v.confere = w.confere
    BY DEF TipoDoDialogo
  <1> HIDE DEF v
  <1> QED
    BY <1>1, <1>2 DEF Foca, v

LEMMA FocusGoesToOpen ==
  ASSUME NEW w, w \in TipoDoDialogo, NEW d \in Dialogos
  PROVE  Foca(w, _focusTabbable(w, d), IF w.isOpen[d] THEN d ELSE w.foco)
PROOF
  <1>1. CASE w.isOpen[d]
    <2> DEFINE v == [w EXCEPT !.foco = d]
               u == _makeFocusTarget(v, d)
    <2>1. Foca(w, v, d)
      BY FocusOnly DEF Focaveis
    <2> HIDE DEF v
    <2>2. v \in TipoDoDialogo /\ v.foco = d
      BY <2>1 DEF Foca
    <2>3. Foca(v, u, d)
      BY <2>2, TrackingOnly
    <2> HIDE DEF u
    <2>4. Foca(w, u, d)
      BY <2>1, <2>3 DEF Foca
    <2> QED
      BY <1>1, <2>4 DEF _focusTabbable, u, v
  <1>2. CASE ~w.isOpen[d]
    BY <1>2 DEF _focusTabbable, Foca
  <1> QED
    BY <1>1, <1>2

LEMMA FocusKeepsDialogs ==
  ASSUME NEW w, NEW v, NEW x, NEW desvio, DialogoOK(w, desvio), Foca(w, v, x),
         x = w.foco \/ x \in Dialogos \/ (~desvio => w.focusin = {})
  PROVE  DialogoOK(v, desvio)
PROOF
  <1>1. v \in TipoDoDialogo
    BY DEF Foca
  <1>2. ModaisAbertos(v) = ModaisAbertos(w)
    BY DEF Foca, ModaisAbertos
  <1>3. PilhaOK(v)
    BY <1>2 DEF Foca, PilhaOK, DialogoOK
  <1>4. ASSUME ~desvio PROVE GuardaOK(v)
    <2>1. GuardaOK(w)
      BY <1>4 DEF DialogoOK
    <2> QED
      BY <1>2, <1>4, <2>1, DialogsAreFew DEF Foca, GuardaOK
  <1> QED
    BY <1>1, <1>3, <1>4 DEF DialogoOK

LEMMA TabbableKeepsDialogs ==
  ASSUME NEW w, NEW desvio, DialogoOK(w, desvio), NEW d \in Dialogos
  PROVE  /\ DialogoOK(_focusTabbable(w, d), desvio)
         /\ DialogoOK(_makeFocusTarget(w, d), desvio)
PROOF
  <1>1. w \in TipoDoDialogo
    BY DEF DialogoOK
  <1>2. Foca(w, _focusTabbable(w, d), IF w.isOpen[d] THEN d ELSE w.foco)
    BY <1>1, FocusGoesToOpen
  <1>3. Foca(w, _makeFocusTarget(w, d), w.foco)
    BY <1>1, TrackingOnly
  <1>4. (IF w.isOpen[d] THEN d ELSE w.foco) = w.foco \/ (IF w.isOpen[d] THEN d ELSE w.foco) \in Dialogos
    OBVIOUS
  <1> QED
    BY <1>2, <1>3, <1>4, FocusKeepsDialogs

\* The page gets the focus only when no handler that has opened is there to take it.
LEMMA PageFocusKeepsDialogs ==
  ASSUME NEW w, NEW desvio, DialogoOK(w, desvio), ~desvio => \A g \in w.focusin : ~g[2]
  PROVE  DialogoOK(focaFora(w), desvio)
PROOF
  <1>0. w \in TipoDoDialogo
    BY DEF DialogoOK
  <1>1. CASE (\E d \in Dialogos : <<d, FALSE>> \in w.focusin) /\ w.instances # <<>>
    <2>1. w.instances \in Seq(Dialogos)
      BY <1>0 DEF TipoDoDialogo
    <2>2. w.instances[1] \in Dialogos
      BY <1>1, <2>1
    <2> QED
      BY <1>1, <2>2, TabbableKeepsDialogs DEF focaFora
  <1>2. CASE ~((\E d \in Dialogos : <<d, FALSE>> \in w.focusin) /\ w.instances # <<>>)
    <2>1. ASSUME ~desvio PROVE w.focusin = {}
      <3> SUFFICES ASSUME NEW g \in w.focusin PROVE FALSE
        OBVIOUS
      <3>1. w.focusin \in SUBSET (Dialogos \X BOOLEAN)
        BY <1>0 DEF TipoDoDialogo
      <3>a. PICK e \in Dialogos, f \in BOOLEAN : g = <<e, f>>
        BY <3>1
      <3>b. g[1] = e /\ g[2] = f
        BY <3>a
      <3>c. f = FALSE
        BY <2>1, <3>b
      <3>2. g[1] \in Dialogos /\ g = <<g[1], FALSE>>
        BY <3>a, <3>b, <3>c
      <3>3. g[1] \in ModaisAbertos(w)
        BY <2>1 DEF DialogoOK, GuardaOK
      <3>4. Esta(w.instances, g[1])
        BY <3>2, <3>3 DEF DialogoOK, PilhaOK, ModaisAbertos
      <3>5. w.instances # <<>>
        BY <3>4 DEF Esta
      <3> QED
        BY <1>2, <3>2, <3>5
    <2>2. focaFora(w) = [w EXCEPT !.foco = Fora]
      BY <1>2 DEF focaFora
    <2>3. Foca(w, focaFora(w), Fora)
      BY <1>0, <2>2, FocusOnly DEF Focaveis
    <2> QED
      BY <2>1, <2>3, FocusKeepsDialogs
  <1> QED
    BY <1>1, <1>2

LEMMA HeightsAreFew ==
  ASSUME NEW f \in [Dialogos -> Int], NEW S \in SUBSET Dialogos
  PROVE  IsFiniteSet({f[e] : e \in S})
PROOF
  <1> DEFINE T == {f[e] : e \in S}
             g == [e \in S |-> f[e]]
  <1>1. IsFiniteSet(S)
    BY DialogsAreFew, FS_Subset
  <1>2. g \in [S -> T] /\ \A t \in T : \E e \in S : g[e] = t
    OBVIOUS
  <1> HIDE DEF g, T
  <1>3. g \in Surjection(S, T)
    BY <1>2 DEF Surjection
  <1> QED
    BY <1>1, <1>3, FS_Surjection DEF T

\* A step that only raises a dialog, over every overlay.
Sobe(w, v, d) ==
  /\ v \in TipoDoDialogo
  /\ v.instances = w.instances /\ v.foco = w.foco
  /\ v.isOpen = w.isOpen /\ v.opener = w.opener /\ v.overlay = w.overlay
  /\ v.overlays = w.overlays /\ v.focusin = w.focusin /\ v.confere = w.confere
  /\ \A e \in Dialogos : w.zIndex[e] <= v.zIndex[e]
  /\ \A z \in Cobertos(w) : z < v.zIndex[d]
  /\ \A e \in Abertos(w) \ {d} : v.zIndex[e] = w.zIndex[e] /\ w.zIndex[e] < v.zIndex[d]

LEMMA OverTheOthers ==
  ASSUME NEW w, w \in TipoDoDialogo, NEW d \in Dialogos
  PROVE  \E z \in Int : /\ _moveToTop(w, d) = [w EXCEPT !.zIndex[d] = z]
                        /\ w.zIndex[d] <= z /\ \A y \in Cobertos(w) : y < z
                        /\ \A e \in Abertos(w) \ {d} : w.zIndex[e] < z
PROOF
  <1> DEFINE outros == {w.zIndex[e] : e \in Abertos(w) \ {d}} \cup Cobertos(w)
             z0 == w.zIndex[d]
  <1>0. w.zIndex \in [Dialogos -> Int] /\ w.overlay \in [Dialogos -> Int]
    BY DEF TipoDoDialogo
  <1>1. IsFiniteSet(outros) /\ outros \subseteq Int
    <2>1. (Abertos(w) \ {d}) \in SUBSET Dialogos
      BY DEF Abertos
    <2>2. IsFiniteSet({w.zIndex[e] : e \in Abertos(w) \ {d}})
      BY <1>0, <2>1, HeightsAreFew
    <2>3. IsFiniteSet({w.overlay[e] : e \in Dialogos})
      BY <1>0, HeightsAreFew
    <2>4. IsFiniteSet(Cobertos(w))
      BY <2>3, FS_Subset DEF Cobertos
    <2>5. IsFiniteSet(outros)
      BY <2>2, <2>4, FS_Union
    <2> QED
      BY <1>0, <2>1, <2>5 DEF Cobertos
  <1>2. z0 \in Int
    BY <1>0
  <1>3. CASE \A z \in outros : z < z0
    <2>1. _moveToTop(w, d) = w
      BY <1>3 DEF _moveToTop
    <2>2. w = [w EXCEPT !.zIndex[d] = z0]
      BY <1>0 DEF TipoDoDialogo
    <2>3. \A y \in Cobertos(w) \cup {w.zIndex[e] : e \in Abertos(w) \ {d}} : y < z0
      BY <1>3
    <2> QED
      BY <1>2, <2>1, <2>2, <2>3
  <1>4. CASE ~(\A z \in outros : z < z0)
    <2> DEFINE m == CHOOSE z \in outros : \A y \in outros : y <= z
    <2>1. _moveToTop(w, d) = [w EXCEPT !.zIndex[d] = 1 + m]
      BY <1>4 DEF _moveToTop
    <2>2. Cobertos(w) \subseteq outros /\ \A e \in Abertos(w) \ {d} : w.zIndex[e] \in outros
      OBVIOUS
    <2> HIDE DEF outros, z0
    <2>3. outros # {}
      BY <1>4
    <2>4. m \in outros /\ \A y \in outros : y <= m
      BY <1>1, <2>3, LastOfFinite
    <2> HIDE DEF m
    <2>5. \A y \in outros : y \in Int /\ y <= m
      BY <1>1, <2>4
    <2>6. z0 <= 1 + m /\ 1 + m \in Int /\ \A y \in outros : y < 1 + m
      BY <1>2, <1>4, <2>4, <2>5
    <2> QED
      BY <2>1, <2>2, <2>6 DEF z0
  <1> QED
    BY <1>3, <1>4

LEMMA RaiseIsASobe ==
  ASSUME NEW w, w \in TipoDoDialogo, NEW d \in Dialogos
  PROVE  Sobe(w, _moveToTop(w, d), d)
PROOF
  <1>1. PICK z \in Int : /\ _moveToTop(w, d) = [w EXCEPT !.zIndex[d] = z]
                         /\ w.zIndex[d] <= z /\ \A y \in Cobertos(w) : y < z
                         /\ \A e \in Abertos(w) \ {d} : w.zIndex[e] < z
    BY OverTheOthers
  <1> DEFINE h == [w.zIndex EXCEPT ![d] = z]
             v == [w EXCEPT !.zIndex = h]
  <1>2. w.zIndex \in [Dialogos -> Int]
    BY DEF TipoDoDialogo
  <1>3. /\ h \in [Dialogos -> Int] /\ h[d] = z /\ \A e \in Dialogos : w.zIndex[e] <= h[e]
        /\ \A e \in Abertos(w) \ {d} : h[e] = w.zIndex[e]
    BY <1>1, <1>2 DEF Abertos
  <1>4. _moveToTop(w, d) = v
    BY <1>1
  <1> HIDE DEF h
  <1>5. v \in TipoDoDialogo
    BY <1>3 DEF TipoDoDialogo
  <1>6. /\ v.instances = w.instances /\ v.foco = w.foco /\ v.zIndex = h
        /\ v.isOpen = w.isOpen /\ v.opener = w.opener /\ v.overlay = w.overlay
        /\ v.overlays = w.overlays /\ v.focusin = w.focusin /\ v.confere = w.confere
    BY DEF TipoDoDialogo
  <1> HIDE DEF v
  <1> QED
    BY <1>1, <1>3, <1>4, <1>5, <1>6 DEF Sobe

LEMMA RaiseKeepsDialogs ==
  ASSUME NEW w, NEW desvio, DialogoOK(w, desvio), NEW d \in Dialogos
  PROVE  DialogoOK(_moveToTop(w, d), desvio)
PROOF
  <1> DEFINE v == _moveToTop(w, d)
  <1>1. Sobe(w, v, d) /\ w \in TipoDoDialogo
    BY RaiseIsASobe DEF DialogoOK
  <1> HIDE DEF v
  <1>2. ModaisAbertos(v) = ModaisAbertos(w) /\ v \in TipoDoDialogo
    BY <1>1 DEF Sobe, ModaisAbertos
  <1>3. \A e \in Dialogos : w.zIndex[e] \in Int /\ v.zIndex[e] \in Int /\ w.overlay[e] \in Int
    BY <1>1, <1>2 DEF TipoDoDialogo
  <1>4. PilhaOK(v)
    BY <1>1, <1>2, <1>3 DEF Sobe, PilhaOK, DialogoOK
  <1>5. GuardaOK(w) => GuardaOK(v)
    BY <1>1, <1>2 DEF Sobe, GuardaOK
  <1> QED
    BY <1>2, <1>4, <1>5 DEF DialogoOK, v

\* v is w with p and o in isOpen and opener.
AoAbrir(w, v, p, o) ==
  /\ v \in TipoDoDialogo /\ v.isOpen = p /\ v.opener = o
  /\ v.instances = w.instances /\ v.zIndex = w.zIndex /\ v.overlay = w.overlay
  /\ v.overlays = w.overlays /\ v.focusin = w.focusin /\ v.foco = w.foco /\ v.confere = w.confere

LEMMA OpenFields ==
  ASSUME NEW w, w \in TipoDoDialogo, NEW p \in [Dialogos -> BOOLEAN], NEW o \in [Dialogos -> Focaveis]
  PROVE  AoAbrir(w, [w EXCEPT !.isOpen = p, !.opener = o], p, o)
PROOF
  <1> DEFINE v == [w EXCEPT !.isOpen = p, !.opener = o]
  <1>1. v \in TipoDoDialogo
    BY DEF TipoDoDialogo
  <1>2. /\ v.isOpen = p /\ v.opener = o
        /\ v.instances = w.instances /\ v.zIndex = w.zIndex /\ v.overlay = w.overlay
        /\ v.overlays = w.overlays /\ v.focusin = w.focusin /\ v.foco = w.foco /\ v.confere = w.confere
    BY DEF TipoDoDialogo
  <1> HIDE DEF v
  <1>3. AoAbrir(w, v, p, o)
    BY <1>1, <1>2 DEF AoAbrir
  <1> QED
    BY <1>3 DEF v

\* v is w with n overlays, at the heights c, and the handlers f.
AoCobrir(w, v, n, c, f) ==
  /\ v \in TipoDoDialogo /\ v.overlays = n /\ v.overlay = c /\ v.focusin = f
  /\ v.instances = w.instances /\ v.isOpen = w.isOpen /\ v.opener = w.opener
  /\ v.zIndex = w.zIndex /\ v.foco = w.foco /\ v.confere = w.confere

LEMMA OverlayFields ==
  ASSUME NEW w, w \in TipoDoDialogo, NEW n \in Int, NEW c \in [Dialogos -> Int],
         NEW f \in SUBSET (Dialogos \X BOOLEAN)
  PROVE  AoCobrir(w, [w EXCEPT !.overlays = n, !.overlay = c, !.focusin = f], n, c, f)
PROOF
  <1> DEFINE v == [w EXCEPT !.overlays = n, !.overlay = c, !.focusin = f]
  <1>1. v \in TipoDoDialogo
    BY DEF TipoDoDialogo
  <1>2. /\ v.overlays = n /\ v.overlay = c /\ v.focusin = f
        /\ v.instances = w.instances /\ v.isOpen = w.isOpen /\ v.opener = w.opener
        /\ v.zIndex = w.zIndex /\ v.foco = w.foco /\ v.confere = w.confere
    BY DEF TipoDoDialogo
  <1> HIDE DEF v
  <1>3. AoCobrir(w, v, n, c, f)
    BY <1>1, <1>2 DEF AoCobrir
  <1> QED
    BY <1>3 DEF v

\* What a dialog that opens has done to the others: v after w.
Abre(w, v, d) ==
  /\ v \in TipoDoDialogo /\ v.foco = d
  /\ v.isOpen = [w.isOpen EXCEPT ![d] = TRUE]
  /\ \A e \in Dialogos : Esta(w.instances, e) => Esta(v.instances, e)
  /\ Esta(v.instances, d)
  /\ \A e \in Dialogos \ {d} : v.overlay[e] = w.overlay[e]
  /\ \A e \in Abertos(w) : v.zIndex[e] = w.zIndex[e] /\ w.zIndex[e] < v.zIndex[d]
  /\ IF d \in Modais
     THEN /\ 0 < v.zIndex[d] /\ v.overlay[d] = v.zIndex[d] - 1
          /\ v.overlays = w.overlays + 1
          /\ v.focusin = IF w.overlays = 0 THEN w.focusin \cup {<<d, TRUE>>} ELSE w.focusin
     ELSE v.overlay[d] = w.overlay[d] /\ v.overlays = w.overlays /\ v.focusin = w.focusin

LEMMA OpenIsAnAbre ==
  ASSUME NEW w, w \in TipoDoDialogo, NEW d \in Dialogos, ~w.isOpen[d]
  PROVE  LET w0 == [w EXCEPT !.isOpen[d] = TRUE, !.opener[d] = w.foco]
             w1 == _moveToTop(_createOverlay(w0, d), d)
             w2 == IF d \in Modais THEN [w1 EXCEPT !.overlay[d] = w1.zIndex[d] - 1] ELSE w1 IN
         Abre(w, _makeFocusTarget(_focusTabbable(w2, d), d), d)
PROOF
  <1> DEFINE p == [w.isOpen EXCEPT ![d] = TRUE]
             o == [w.opener EXCEPT ![d] = w.foco]
             w0 == [w EXCEPT !.isOpen = p, !.opener = o]
             wc == _createOverlay(w0, d)
             w1 == _moveToTop(wc, d)
             w2 == IF d \in Modais THEN [w1 EXCEPT !.overlay[d] = w1.zIndex[d] - 1] ELSE w1
             w3 == _focusTabbable(w2, d)
             v == _makeFocusTarget(w3, d)
  <1>0. /\ w.isOpen \in [Dialogos -> BOOLEAN] /\ w.opener \in [Dialogos -> Focaveis]
        /\ w.overlay \in [Dialogos -> Int] /\ w.zIndex \in [Dialogos -> Int] /\ w.overlays \in Int
        /\ w.focusin \in SUBSET (Dialogos \X BOOLEAN) /\ w.foco \in Focaveis
    BY DEF TipoDoDialogo
  <1>1. /\ p \in [Dialogos -> BOOLEAN] /\ o \in [Dialogos -> Focaveis] /\ p[d] = TRUE
        /\ \A e \in Dialogos \ {d} : p[e] = w.isOpen[e]
    BY <1>0
  <1>2. w0 = [w EXCEPT !.isOpen[d] = TRUE, !.opener[d] = w.foco]
    OBVIOUS
  <1> HIDE DEF p, o
  <1>3. /\ w0 \in TipoDoDialogo /\ w0.isOpen = p
        /\ w0.instances = w.instances /\ w0.zIndex = w.zIndex /\ w0.overlay = w.overlay
        /\ w0.overlays = w.overlays /\ w0.focusin = w.focusin /\ w0.foco = w.foco
    <2>1. AoAbrir(w, w0, p, o)
      BY <1>1, OpenFields
    <2> HIDE DEF w0
    <2> QED
      BY <2>1 DEF AoAbrir
  <1> HIDE DEF w0
  <1> DEFINE n == w.overlays + 1
             c == [w.overlay EXCEPT ![d] = 0]
             f == IF w.overlays = 0 THEN w.focusin \cup {<<d, TRUE>>} ELSE w.focusin
  <1>4. /\ n \in Int /\ c \in [Dialogos -> Int] /\ f \in SUBSET (Dialogos \X BOOLEAN)
        /\ c[d] = 0 /\ \A e \in Dialogos \ {d} : c[e] = w.overlay[e]
    <2>1. n \in Int
      BY <1>0
    <2>2. c \in [Dialogos -> Int] /\ c[d] = 0 /\ \A e \in Dialogos \ {d} : c[e] = w.overlay[e]
      BY <1>0
    <2>3. f \in SUBSET (Dialogos \X BOOLEAN)
      <3>1. TRUE \in BOOLEAN
        OBVIOUS
      <3>2. <<d, TRUE>> \in Dialogos \X BOOLEAN
        BY <3>1, Zenon
      <3> QED
        BY <1>0, <3>2, Zenon
    <2> QED
      BY <2>1, <2>2, <2>3
  <1>5. d \in Modais => wc = [w0 EXCEPT !.overlays = n, !.overlay = c, !.focusin = f]
    BY <1>3 DEF _createOverlay
  <1>6. d \notin Modais => wc = w0
    BY DEF _createOverlay
  <1>7. /\ wc \in TipoDoDialogo /\ wc.isOpen = p
        /\ wc.instances = w.instances /\ wc.zIndex = w.zIndex /\ wc.foco = w.foco
        /\ d \in Modais => wc.overlays = n /\ wc.overlay = c /\ wc.focusin = f
        /\ d \notin Modais => /\ wc.overlays = w.overlays /\ wc.overlay = w.overlay
                              /\ wc.focusin = w.focusin
    <2> HIDE DEF n, c, f, wc
    <2>1. CASE d \in Modais
      <3> DEFINE y == [w0 EXCEPT !.overlays = n, !.overlay = c, !.focusin = f]
      <3>1. /\ y \in TipoDoDialogo /\ y.overlays = n /\ y.overlay = c /\ y.focusin = f
            /\ y.instances = w0.instances /\ y.isOpen = w0.isOpen /\ y.zIndex = w0.zIndex
            /\ y.foco = w0.foco
        <4>1. AoCobrir(w0, y, n, c, f)
          BY <1>3, <1>4, OverlayFields
        <4> HIDE DEF y
        <4> QED
          BY <4>1 DEF AoCobrir
      <3> HIDE DEF y
      <3>2. wc = y
        BY <1>5, <2>1 DEF y
      <3> QED
        BY <1>3, <2>1, <3>1, <3>2
    <2>2. CASE d \notin Modais
      BY <1>3, <1>6, <2>2
    <2> QED
      BY <2>1, <2>2
  <1> HIDE DEF wc
  <1>8. Sobe(wc, w1, d)
    BY <1>7, RaiseIsASobe
  <1> HIDE DEF w1
  <1>9. w1 \in TipoDoDialogo /\ w1.zIndex \in [Dialogos -> Int] /\ w1.overlay \in [Dialogos -> Int]
    BY <1>8 DEF Sobe, TipoDoDialogo
  <1>10. Abertos(wc) = Abertos(w) \cup {d} /\ d \notin Abertos(w)
    BY <1>1, <1>7 DEF Abertos
  <1>11. \A e \in Abertos(w) : w1.zIndex[e] = w.zIndex[e] /\ w.zIndex[e] < w1.zIndex[d]
    BY <1>7, <1>8, <1>10 DEF Sobe
  <1>12. d \in Modais => 0 < w1.zIndex[d]
    <2> SUFFICES ASSUME d \in Modais PROVE 0 < w1.zIndex[d]
      OBVIOUS
    <2>1. wc.overlay[d] = 0
      BY <1>4, <1>7
    <2>2. 0 \in Cobertos(wc)
      BY <2>1 DEF Cobertos
    <2> QED
      BY <1>8, <2>2 DEF Sobe
  <1> DEFINE c2 == [w1.overlay EXCEPT ![d] = w1.zIndex[d] - 1]
  <1>13. c2 \in [Dialogos -> Int] /\ c2[d] = w1.zIndex[d] - 1 /\ \A e \in Dialogos \ {d} : c2[e] = w1.overlay[e]
    BY <1>9
  <1>14. d \in Modais => w2 = [w1 EXCEPT !.overlay = c2]
    OBVIOUS
  <1>15. d \notin Modais => w2 = w1
    OBVIOUS
  <1> HIDE DEF c2, w2
  <1>16. /\ w2 \in TipoDoDialogo
         /\ w2.instances = w1.instances /\ w2.foco = w1.foco /\ w2.isOpen = w1.isOpen
         /\ w2.zIndex = w1.zIndex /\ w2.overlays = w1.overlays /\ w2.focusin = w1.focusin
         /\ d \in Modais => w2.overlay = c2
         /\ d \notin Modais => w2.overlay = w1.overlay
    <2>1. CASE d \in Modais
      <3> DEFINE y == [w1 EXCEPT !.overlay = c2]
      <3>1. y \in TipoDoDialogo
        BY <1>9, <1>13 DEF TipoDoDialogo
      <3>2. /\ y.instances = w1.instances /\ y.foco = w1.foco /\ y.isOpen = w1.isOpen
            /\ y.zIndex = w1.zIndex /\ y.overlays = w1.overlays /\ y.focusin = w1.focusin
            /\ y.overlay = c2
        BY <1>9 DEF TipoDoDialogo
      <3> HIDE DEF y
      <3>3. w2 = y
        BY <1>14, <2>1 DEF y
      <3> QED
        BY <2>1, <3>1, <3>2, <3>3
    <2>2. CASE d \notin Modais
      BY <1>9, <1>15, <2>2
    <2> QED
      BY <2>1, <2>2
  <1>17. w2.isOpen[d]
    BY <1>1, <1>7, <1>8, <1>16 DEF Sobe
  <1>18. Foca(w2, w3, d)
    BY <1>16, <1>17, FocusGoesToOpen
  <1> HIDE DEF w3
  <1>19. Foca(w3, v, w3.foco) /\ Esta(v.instances, d)
    BY <1>18, TrackingOnly DEF Foca
  <1> HIDE DEF v
  <1>20. Foca(w2, v, d)
    BY <1>18, <1>19 DEF Foca
  <1>21. /\ v \in TipoDoDialogo /\ v.foco = d /\ v.isOpen = p
         /\ \A e \in Dialogos : Esta(w.instances, e) => Esta(v.instances, e)
         /\ v.zIndex = w1.zIndex /\ v.overlay = w2.overlay /\ v.overlays = wc.overlays
         /\ v.focusin = wc.focusin
    BY <1>7, <1>8, <1>16, <1>20 DEF Foca, Sobe
  <1>22. \A e \in Dialogos \ {d} : v.overlay[e] = w.overlay[e]
    BY <1>4, <1>7, <1>8, <1>13, <1>16, <1>21 DEF Sobe
  <1>23. d \in Modais => /\ 0 < v.zIndex[d] /\ v.overlay[d] = v.zIndex[d] - 1
                         /\ v.overlays = w.overlays + 1
                         /\ v.focusin = IF w.overlays = 0 THEN w.focusin \cup {<<d, TRUE>>} ELSE w.focusin
    BY <1>7, <1>12, <1>13, <1>16, <1>21
  <1>24. d \notin Modais => /\ v.overlay[d] = w.overlay[d] /\ v.overlays = w.overlays
                            /\ v.focusin = w.focusin
    BY <1>7, <1>8, <1>16, <1>21 DEF Sobe
  <1>25. Abre(w, v, d)
    BY <1>11, <1>19, <1>21, <1>22, <1>23, <1>24 DEF Abre, p
  <1> QED
    BY <1>2, <1>25 DEF v, w3, w2, w1, wc

LEMMA OpeningKeepsDialogs ==
  ASSUME NEW w, NEW v, NEW desvio, NEW d \in Dialogos, DialogoOK(w, desvio), ~w.isOpen[d], Abre(w, v, d)
  PROVE  DialogoOK(v, desvio)
PROOF
  <1> DEFINE M == ModaisAbertos(w)
             N == ModaisAbertos(v)
  <1>0. w \in TipoDoDialogo /\ v \in TipoDoDialogo /\ PilhaOK(w)
    BY DEF DialogoOK, Abre
  <1>1. /\ w.isOpen \in [Dialogos -> BOOLEAN] /\ w.overlays \in Int
        /\ \A e \in Dialogos : /\ w.overlay[e] \in Int /\ w.zIndex[e] \in Int
                               /\ v.overlay[e] \in Int /\ v.zIndex[e] \in Int
    BY <1>0 DEF TipoDoDialogo
  <1>2. /\ d \notin M /\ M \subseteq Abertos(w) \cap Modais /\ IsFiniteSet(M)
        /\ N = IF d \in Modais THEN M \cup {d} ELSE M
    <2>1. d \notin M /\ M \subseteq Abertos(w) \cap Modais /\ M \in SUBSET Dialogos
      BY DialogsAreFew DEF ModaisAbertos, Abertos
    <2>2. IsFiniteSet(M)
      BY <2>1, DialogsAreFew, FS_Subset
    <2>3. N = IF d \in Modais THEN M \cup {d} ELSE M
      BY <1>1, DialogsAreFew DEF ModaisAbertos, Abre
    <2> QED
      BY <2>1, <2>2, <2>3
  <1>3. ASSUME NEW e \in M
        PROVE  /\ e \in Dialogos /\ v.overlay[e] = w.overlay[e] /\ v.zIndex[e] = w.zIndex[e]
               /\ 0 <= w.overlay[e] /\ w.overlay[e] < w.zIndex[e] /\ w.zIndex[e] < v.zIndex[d]
    <2>1. e \in Dialogos \ {d} /\ e \in Abertos(w)
      BY <1>2 DEF Abertos
    <2> QED
      BY <1>0, <2>1 DEF Abre, PilhaOK
  <1>4. d \in Modais => 0 <= v.overlay[d] /\ v.overlay[d] < v.zIndex[d] /\ v.overlay[d] = v.zIndex[d] - 1
    BY <1>1 DEF Abre
  <1>5. d \in Modais => \A e \in M : v.overlay[e] < v.overlay[d]
    BY <1>1, <1>3, <1>4
  <1>6. PilhaOK(v)
    <2>1. \A e \in Dialogos : v.isOpen[e] => Esta(v.instances, e)
      BY <1>0, <1>1 DEF Abre, PilhaOK
    <2>2. ASSUME NEW e \in Dialogos
          PROVE  IF e \in N THEN 0 <= v.overlay[e] /\ v.overlay[e] < v.zIndex[e] ELSE v.overlay[e] = -1
      <3>1. CASE e \in M
        BY <1>2, <1>3, <3>1
      <3>2. CASE e = d
        <4>1. w.overlay[d] = -1
          BY <1>0, <1>2 DEF PilhaOK
        <4> QED
          BY <1>2, <1>4, <3>2, <4>1 DEF Abre
      <3>3. CASE e \notin M /\ e # d
        <4>1. e \notin N /\ v.overlay[e] = w.overlay[e]
          BY <1>2, <3>3 DEF Abre
        <4> QED
          BY <1>0, <3>3, <4>1 DEF PilhaOK
      <3> QED
        BY <3>1, <3>2, <3>3
    <2>3. ASSUME NEW e \in N, NEW f \in N, v.overlay[e] = v.overlay[f] PROVE e = f
      <3>1. CASE e \in M /\ f \in M
        BY <1>0, <1>3, <2>3, <3>1 DEF PilhaOK
      <3>2. CASE e = d /\ f \in M
        BY <1>1, <1>2, <1>3, <1>5, <2>3, <3>2
      <3>3. CASE e \in M /\ f = d
        BY <1>1, <1>2, <1>3, <1>5, <2>3, <3>3
      <3> QED
        BY <1>2, <3>1, <3>2, <3>3
    <2>4. v.overlays = Cardinality(N)
      <3>1. w.overlays = Cardinality(M)
        BY <1>0 DEF PilhaOK
      <3>2. Cardinality(M \cup {d}) = Cardinality(M) + 1
        BY <1>2, FS_AddElement
      <3> QED
        BY <1>2, <3>1, <3>2 DEF Abre
    <2> HIDE DEF N
    <2> QED
      BY <2>1, <2>2, <2>3, <2>4 DEF PilhaOK, N
  <1>7. ASSUME GuardaOK(w) PROVE GuardaOK(v)
    <2>0. /\ w.focusin # {} <=> M # {}
          /\ \A g \in w.focusin : g[1] \in M /\ \A e \in M : w.overlay[g[1]] <= w.overlay[e]
      BY <1>7 DEF GuardaOK
    <2>1. w.overlays = 0 <=> M = {}
      BY <1>0, <1>2, FS_EmptySet DEF PilhaOK
    <2>2. v.foco = d /\ d # Fora
      BY DialogsAreFew DEF Abre
    <2>3. v.focusin # {} <=> N # {}
      <3>1. CASE d \in Modais
        BY <1>2, <2>0, <2>1, <3>1 DEF Abre
      <3>2. CASE d \notin Modais
        BY <1>2, <2>0, <3>2 DEF Abre
      <3> QED
        BY <3>1, <3>2
    <2>4. ASSUME NEW g \in v.focusin
          PROVE  g[1] \in N /\ \A e \in N : v.overlay[g[1]] <= v.overlay[e]
      <3>1. CASE g \in w.focusin
        <4>1. g[1] \in M /\ \A e \in M : w.overlay[g[1]] <= w.overlay[e]
          BY <2>0, <3>1
        <4>2. \A e \in M : v.overlay[g[1]] <= v.overlay[e]
          BY <1>3, <4>1
        <4>3. d \in Modais => v.overlay[g[1]] <= v.overlay[d]
          BY <1>1, <1>3, <1>5, <4>1
        <4> QED
          BY <1>2, <4>1, <4>2, <4>3
      <3>2. CASE g \notin w.focusin
        <4>1. d \in Modais /\ w.overlays = 0 /\ g = <<d, TRUE>>
          BY <3>2 DEF Abre
        <4>2. N = {d} /\ g[1] = d
          BY <1>2, <2>1, <4>1
        <4> QED
          BY <1>1, <4>2
      <3> QED
        BY <3>1, <3>2
    <2> HIDE DEF N
    <2> QED
      BY <2>2, <2>3, <2>4 DEF GuardaOK, N
  <1> QED
    BY <1>0, <1>6, <1>7 DEF DialogoOK

\* What a dialog that closes has done to the others, before the focus goes back.
Fecha(w, v, d) ==
  /\ v \in TipoDoDialogo /\ v.foco = w.foco /\ v.zIndex = w.zIndex
  /\ v.isOpen = [w.isOpen EXCEPT ![d] = FALSE]
  /\ \A e \in Dialogos \ {d} : Esta(w.instances, e) => Esta(v.instances, e)
  /\ \A e \in Dialogos \ {d} : v.overlay[e] = w.overlay[e]
  /\ IF d \in Modais
     THEN /\ v.overlay[d] = -1 /\ v.overlays = w.overlays - 1
          /\ v.focusin = IF w.overlays = 1 THEN {g \in w.focusin : g[1] # d} ELSE w.focusin
     ELSE v.overlay[d] = w.overlay[d] /\ v.overlays = w.overlays /\ v.focusin = w.focusin

LEMMA CloseIsAFecha ==
  ASSUME NEW w, w \in TipoDoDialogo, NEW d \in Dialogos
  PROVE  Fecha(w, _untrackInstance(_destroyOverlay([w EXCEPT !.isOpen[d] = FALSE], d), d), d)
PROOF
  <1> DEFINE p == [w.isOpen EXCEPT ![d] = FALSE]
             w0 == [w EXCEPT !.isOpen = p]
             n == w.overlays - 1
             c == [w.overlay EXCEPT ![d] = -1]
             f == IF w.overlays = 1 THEN {g \in w.focusin : g[1] # d} ELSE w.focusin
             wc == _destroyOverlay(w0, d)
             v == _untrackInstance(wc, d)
  <1>0. /\ w.isOpen \in [Dialogos -> BOOLEAN] /\ w.overlay \in [Dialogos -> Int] /\ w.overlays \in Int
        /\ w.focusin \in SUBSET (Dialogos \X BOOLEAN)
    BY DEF TipoDoDialogo
  <1>1. p \in [Dialogos -> BOOLEAN]
    BY <1>0
  <1>2. w0 = [w EXCEPT !.isOpen[d] = FALSE]
    OBVIOUS
  <1> HIDE DEF p
  <1>3. w0 \in TipoDoDialogo
    BY <1>1 DEF TipoDoDialogo
  <1>4. /\ w0.isOpen = p /\ w0.instances = w.instances /\ w0.zIndex = w.zIndex /\ w0.overlay = w.overlay
        /\ w0.overlays = w.overlays /\ w0.focusin = w.focusin /\ w0.foco = w.foco
    BY DEF TipoDoDialogo
  <1> HIDE DEF w0
  <1>5. n \in Int
    BY <1>0
  <1>6. c \in [Dialogos -> Int] /\ c[d] = -1 /\ \A e \in Dialogos \ {d} : c[e] = w.overlay[e]
    BY <1>0
  <1>7. f \in SUBSET (Dialogos \X BOOLEAN)
    BY <1>0
  <1>8. /\ wc \in TipoDoDialogo /\ wc.foco = w.foco /\ wc.zIndex = w.zIndex /\ wc.isOpen = p
        /\ wc.instances = w.instances
        /\ d \in Modais => wc.overlays = n /\ wc.overlay = c /\ wc.focusin = f
        /\ d \notin Modais => /\ wc.overlays = w.overlays /\ wc.overlay = w.overlay
                              /\ wc.focusin = w.focusin
    <2>1. CASE d \in Modais
      <3> DEFINE y == [w0 EXCEPT !.overlays = n, !.overlay = c, !.focusin = f]
      <3>1. wc = y
        BY <1>4, <2>1 DEF _destroyOverlay
      <3> HIDE DEF n, c, f, wc
      <3>2. AoCobrir(w0, y, n, c, f)
        BY <1>3, <1>5, <1>6, <1>7, OverlayFields
      <3> HIDE DEF y
      <3> QED
        BY <1>3, <1>4, <2>1, <3>1, <3>2 DEF AoCobrir
    <2>2. CASE d \notin Modais
      <3>1. wc = w0
        BY <2>2 DEF _destroyOverlay
      <3> HIDE DEF n, c, f, wc
      <3> QED
        BY <1>3, <1>4, <2>2, <3>1
    <2> QED
      BY <2>1, <2>2
  <1> HIDE DEF wc
  <1>9. PICK s \in Seq(Dialogos) :
          /\ v = [wc EXCEPT !.instances = s]
          /\ \A e \in Dialogos : e # d /\ Esta(wc.instances, e) => Esta(s, e)
    BY <1>8, UntrackedLeavesRest
  <1> DEFINE u == [wc EXCEPT !.instances = s]
  <1>10. u \in TipoDoDialogo
    BY <1>8 DEF TipoDoDialogo
  <1>11. /\ u.instances = s /\ u.foco = wc.foco /\ u.isOpen = wc.isOpen /\ u.zIndex = wc.zIndex
         /\ u.overlay = wc.overlay /\ u.overlays = wc.overlays /\ u.focusin = wc.focusin
    BY <1>8 DEF TipoDoDialogo
  <1> HIDE DEF u
  <1>12. Fecha(w, u, d)
    <2>1. \A e \in Dialogos \ {d} : Esta(w.instances, e) => Esta(u.instances, e)
      BY <1>8, <1>9, <1>11
    <2>2. \A e \in Dialogos \ {d} : u.overlay[e] = w.overlay[e]
      <3> HIDE DEF n, c, f
      <3> QED
        BY <1>6, <1>8, <1>11
    <2>3. CASE d \in Modais
      BY <1>6, <1>8, <1>10, <1>11, <2>1, <2>2, <2>3 DEF Fecha, p
    <2>4. CASE d \notin Modais
      BY <1>8, <1>10, <1>11, <2>1, <2>2, <2>4 DEF Fecha, p
    <2> QED
      BY <2>3, <2>4
  <1> HIDE DEF v
  <1>13. Fecha(w, v, d)
    BY <1>9, <1>12 DEF u
  <1> QED
    BY <1>2, <1>13 DEF v, wc

\* A dialog that closes in order, when no other one is opening, leaves the handler
\* to the lowest of those that stay, if there is one.
LEMMA ClosingKeepsDialogs ==
  ASSUME NEW w, NEW v, NEW desvio, NEW desvio1, NEW d \in Dialogos,
         DialogoOK(w, desvio), w.isOpen[d], Fecha(w, v, d),
         ~desvio1 => /\ ~desvio
                     /\ d \in Modais => \A z \in Cobertos(w) : ~(z > w.overlay[d])
                     /\ \A e \in Dialogos \ {d} : <<e, TRUE>> \notin w.focusin
  PROVE  DialogoOK(v, desvio1) /\ (~desvio1 => \A g \in v.focusin : ~g[2])
PROOF
  <1> DEFINE M == ModaisAbertos(w)
             N == ModaisAbertos(v)
  <1>0. w \in TipoDoDialogo /\ v \in TipoDoDialogo /\ PilhaOK(w)
    BY DEF DialogoOK, Fecha
  <1>1. /\ w.isOpen \in [Dialogos -> BOOLEAN] /\ w.overlays \in Int
        /\ w.focusin \in SUBSET (Dialogos \X BOOLEAN)
        /\ \A e \in Dialogos : /\ w.overlay[e] \in Int /\ w.zIndex[e] \in Int
                               /\ v.overlay[e] \in Int /\ v.zIndex[e] \in Int
    BY <1>0 DEF TipoDoDialogo
  <1>2. /\ M \subseteq Modais /\ M \subseteq Dialogos /\ IsFiniteSet(M)
        /\ d \in M <=> d \in Modais
        /\ N = M \ {d}
    <2>1. /\ M \subseteq Modais /\ M \in SUBSET Dialogos
          /\ d \in M <=> d \in Modais
      BY DialogsAreFew DEF ModaisAbertos
    <2>2. IsFiniteSet(M)
      BY <2>1, DialogsAreFew, FS_Subset
    <2>3. N = M \ {d}
      BY <1>1, DialogsAreFew DEF ModaisAbertos, Fecha
    <2> QED
      BY <2>1, <2>2, <2>3
  <1>2a. /\ IsFiniteSet(N) /\ w.overlays = Cardinality(M)
        /\ Cardinality(N) = IF d \in M THEN Cardinality(M) - 1 ELSE Cardinality(M)
    <2>1. /\ IsFiniteSet(M \ {d})
          /\ Cardinality(M \ {d}) = IF d \in M THEN Cardinality(M) - 1 ELSE Cardinality(M)
      BY <1>2, FS_RemoveElement
    <2>2. w.overlays = Cardinality(M)
      BY <1>0 DEF PilhaOK
    <2> QED
      BY <1>2, <2>1, <2>2
  <1>3. \A e \in N : e \in M /\ e # d /\ v.overlay[e] = w.overlay[e] /\ v.zIndex[e] = w.zIndex[e]
    BY <1>2 DEF Fecha
  <1>4. PilhaOK(v)
    <2>1. \A e \in Dialogos : v.isOpen[e] => Esta(v.instances, e)
      BY <1>0, <1>1 DEF Fecha, PilhaOK
    <2>2. ASSUME NEW e \in Dialogos
          PROVE  IF e \in N THEN 0 <= v.overlay[e] /\ v.overlay[e] < v.zIndex[e] ELSE v.overlay[e] = -1
      <3>1. CASE e \in N
        BY <1>0, <1>3, <3>1 DEF PilhaOK
      <3>2. CASE e \notin N /\ e # d
        BY <1>0, <1>2, <3>2 DEF PilhaOK, Fecha
      <3>3. CASE e = d
        BY <1>0, <1>2, <3>3 DEF PilhaOK, Fecha
      <3> QED
        BY <3>1, <3>2, <3>3
    <2>3. \A e, f \in N : v.overlay[e] = v.overlay[f] => e = f
      BY <1>0, <1>3 DEF PilhaOK
    <2>4. v.overlays = Cardinality(N)
      BY <1>2, <1>2a DEF Fecha
    <2> HIDE DEF N
    <2> QED
      BY <2>1, <2>2, <2>3, <2>4 DEF PilhaOK, N
  <1>5. ASSUME ~desvio1 PROVE GuardaOK(v) /\ \A g \in v.focusin : ~g[2]
    <2>0. /\ w.focusin # {} <=> M # {}
          /\ \A g \in w.focusin : /\ g[1] \in M /\ \A e \in M : w.overlay[g[1]] <= w.overlay[e]
                                  /\ w.foco # Fora
      BY <1>5 DEF GuardaOK, DialogoOK
    <2>1. \A g \in w.focusin : g[1] # d => ~g[2]
      <3> SUFFICES ASSUME NEW g \in w.focusin, g[1] # d PROVE ~g[2]
        OBVIOUS
      <3>1. PICK e \in Dialogos, b \in BOOLEAN : g = <<e, b>>
        BY <1>1
      <3>2. g[1] = e /\ g[2] = b
        BY <3>1
      <3>3. b # TRUE
        BY <1>5, <3>1, <3>2
      <3> QED
        BY <3>2, <3>3
    <2>2. CASE d \notin Modais
      <3>1. N = M /\ v.focusin = w.focusin /\ v.foco = w.foco
        BY <1>2, <2>2 DEF Fecha
      <3>2. \A g \in v.focusin : g[1] \in N /\ g[1] # d
        BY <1>2, <2>0, <2>2, <3>1
      <3>3. \A g \in v.focusin : \A e \in N : v.overlay[g[1]] <= v.overlay[e]
        BY <1>3, <2>0, <3>1, <3>2
      <3>4. \A g \in v.focusin : ~g[2]
        BY <2>1, <3>1, <3>2
      <3> HIDE DEF N
      <3> QED
        BY <2>0, <3>1, <3>2, <3>3, <3>4 DEF GuardaOK, N
    <2>3. CASE d \in Modais /\ w.overlays = 1
      <3>1. Cardinality(N) = 0
        BY <1>2a, <1>2, <2>3
      <3>2. N = {}
        BY <1>2a, <3>1, FS_EmptySet
      <3>3. v.focusin = {}
        BY <1>2, <2>0, <2>3, <3>2 DEF Fecha
      <3> HIDE DEF N
      <3> QED
        BY <3>2, <3>3 DEF GuardaOK, N
    <2>4. CASE d \in Modais /\ w.overlays # 1
      <3>1. N # {}
        <4>1. Cardinality(N) # 0
          BY <1>2a, <1>1, <1>2, <2>4
        <4> QED
          BY <4>1, FS_EmptySet
      <3>2. PICK e \in N : TRUE
        BY <3>1
      <3>3. v.focusin = w.focusin /\ v.foco = w.foco
        BY <2>4 DEF Fecha
      <3>4. w.overlay[e] < w.overlay[d]
        <4>1. e \in M /\ e # d /\ d \in M /\ e \in Dialogos
          BY <1>2, <1>3, <2>4, <3>2
        <4>2. w.overlay[e] # -1
          BY <1>0, <1>1, <4>1 DEF PilhaOK
        <4>3. w.overlay[e] \in Cobertos(w)
          BY <4>1, <4>2 DEF Cobertos
        <4>4. ~(w.overlay[e] > w.overlay[d])
          BY <1>5, <2>4, <4>3
        <4>5. w.overlay[e] # w.overlay[d]
          BY <1>0, <4>1 DEF PilhaOK
        <4> QED
          BY <1>1, <4>1, <4>4, <4>5
      <3>5. ASSUME NEW g \in w.focusin
            PROVE  g[1] \in N /\ \A x \in N : v.overlay[g[1]] <= v.overlay[x]
        <4>1. g[1] \in M /\ \A x \in M : w.overlay[g[1]] <= w.overlay[x]
          BY <2>0
        <4>2. g[1] # d
          <5>1. w.overlay[g[1]] <= w.overlay[e]
            BY <1>3, <3>2, <4>1
          <5> QED
            BY <1>1, <1>2, <1>3, <3>2, <3>4, <4>1, <5>1
        <4> QED
          BY <1>2, <1>3, <4>1, <4>2
      <3>6. \A g \in v.focusin : ~g[2]
        <4>1. \A g \in v.focusin : g[1] # d
          BY <1>3, <3>3, <3>5
        <4> QED
          BY <2>1, <3>3, <4>1
      <3>7. v.focusin # {} <=> N # {}
        BY <1>2, <2>0, <3>1, <3>3
      <3> HIDE DEF N
      <3> QED
        BY <2>0, <3>3, <3>5, <3>6, <3>7 DEF GuardaOK, N
    <2> QED
      BY <2>2, <2>3, <2>4
  <1> QED
    BY <1>0, <1>4, <1>5 DEF DialogoOK

\* Nothing opening, the focus may go to nothing.
LEMMA NothingFocused ==
  ASSUME NEW w, NEW desvio, DialogoOK(w, desvio), ~desvio => \A g \in w.focusin : ~g[2]
  PROVE  DialogoOK([w EXCEPT !.foco = Corpo], desvio)
PROOF
  <1> DEFINE v == [w EXCEPT !.foco = Corpo]
  <1>1. Foca(w, v, Corpo)
    BY FocusOnly DEF DialogoOK, Focaveis
  <1> HIDE DEF v
  <1>2. v \in TipoDoDialogo /\ ModaisAbertos(v) = ModaisAbertos(w)
    BY <1>1 DEF Foca, ModaisAbertos
  <1>3. PilhaOK(v)
    BY <1>1, <1>2 DEF Foca, PilhaOK, DialogoOK
  <1>4. ~desvio => GuardaOK(v)
    BY <1>1, <1>2, DialogsAreFew DEF Foca, GuardaOK, DialogoOK
  <1>5. DialogoOK(v, desvio)
    BY <1>2, <1>3, <1>4 DEF DialogoOK
  <1> QED
    BY <1>5 DEF v

LEMMA FocusGoesBack ==
  ASSUME NEW w, NEW desvio, NEW d \in Dialogos, DialogoOK(w, desvio),
         ~desvio => \A g \in w.focusin : ~g[2]
  PROVE  DialogoOK(devolve(w, d), desvio)
PROOF
  <1> DEFINE o == w.opener[d]
  <1>1. CASE o = Fora
    BY <1>1, PageFocusKeepsDialogs DEF devolve
  <1>2. CASE o # Fora /\ o \in Abertos(w)
    <2>1. o \in Dialogos
      BY <1>2 DEF Abertos
    <2>2. devolve(w, d) = _focusTabbable(w, o)
      BY <1>2 DEF devolve
    <2> HIDE DEF o
    <2> QED
      BY <2>1, <2>2, TabbableKeepsDialogs
  <1>3. CASE o # Fora /\ o \notin Abertos(w)
    BY <1>3, NothingFocused DEF devolve
  <1> QED
    BY <1>1, <1>2, <1>3

LEMMA CloseKeepsDialogs ==
  ASSUME DialogoOK(dialogo, dialogoDesvio), NEW d \in Dialogos, closeDialogo(d),
         dialogoDesvio' = (dialogoDesvio \/ foraDeOrdem(d)
                           \/ \E e \in Dialogos \ {d} : <<e, TRUE>> \in dialogo.focusin)
  PROVE  DialogoOK(dialogo', dialogoDesvio')
PROOF
  <1> DEFINE v == _untrackInstance(_destroyOverlay([dialogo EXCEPT !.isOpen[d] = FALSE], d), d)
  <1>1. Fecha(dialogo, v, d)
    BY CloseIsAFecha DEF DialogoOK
  <1>2. dialogo' = devolve(v, d) /\ dialogo.isOpen[d]
    BY DEF closeDialogo
  <1> HIDE DEF v
  <1>3. ~dialogoDesvio' => /\ ~dialogoDesvio
                           /\ d \in Modais => \A z \in Cobertos(dialogo) : ~(z > dialogo.overlay[d])
                           /\ \A e \in Dialogos \ {d} : <<e, TRUE>> \notin dialogo.focusin
    BY DEF foraDeOrdem
  <1>4. DialogoOK(v, dialogoDesvio') /\ (~dialogoDesvio' => \A g \in v.focusin : ~g[2])
    BY <1>1, <1>2, <1>3, ClosingKeepsDialogs
  <1> QED
    BY <1>2, <1>4, FocusGoesBack

LEMMA CheckingKeepsDialogs ==
  ASSUME NEW w, NEW desvio, DialogoOK(w, desvio), NEW C \in SUBSET Dialogos
  PROVE  DialogoOK([w EXCEPT !.confere = C], desvio)
PROOF
  <1> DEFINE v == [w EXCEPT !.confere = C]
  <1>0. w \in TipoDoDialogo
    BY DEF DialogoOK
  <1>1. v \in TipoDoDialogo
    BY <1>0 DEF TipoDoDialogo
  <1>2. /\ v.instances = w.instances /\ v.foco = w.foco
        /\ v.isOpen = w.isOpen /\ v.opener = w.opener /\ v.zIndex = w.zIndex /\ v.overlay = w.overlay
        /\ v.overlays = w.overlays /\ v.focusin = w.focusin
    BY <1>0 DEF TipoDoDialogo
  <1> HIDE DEF v
  <1>3. ModaisAbertos(v) = ModaisAbertos(w)
    BY <1>2 DEF ModaisAbertos
  <1>4. DialogoOK(v, desvio)
    BY <1>1, <1>2, <1>3 DEF DialogoOK, PilhaOK, GuardaOK
  <1> QED
    BY <1>4 DEF v

LEMMA OpenedKeepsDialogs ==
  ASSUME NEW w, NEW desvio, DialogoOK(w, desvio), NEW d \in Dialogos, <<d, TRUE>> \in w.focusin
  PROVE  DialogoOK([w EXCEPT !.focusin = (w.focusin \ {<<d, TRUE>>}) \cup {<<d, FALSE>>}], desvio)
PROOF
  <1> DEFINE f == (w.focusin \ {<<d, TRUE>>}) \cup {<<d, FALSE>>}
             v == [w EXCEPT !.focusin = f]
  <1>0. w \in TipoDoDialogo
    BY DEF DialogoOK
  <1>1. f \in SUBSET (Dialogos \X BOOLEAN)
    <2>1. w.focusin \in SUBSET (Dialogos \X BOOLEAN)
      BY <1>0 DEF TipoDoDialogo
    <2>2. FALSE \in BOOLEAN
      OBVIOUS
    <2>3. <<d, FALSE>> \in Dialogos \X BOOLEAN
      BY <2>2, Zenon
    <2> QED
      BY <2>1, <2>3, Zenon
  <1>2. f # {} /\ \A g \in f : g \in w.focusin \/ (g[1] = d /\ ~g[2])
    <2> DEFINE k == <<d, FALSE>>
    <2>1. k[1] = d /\ k[2] = FALSE
      OBVIOUS
    <2>2. f = (w.focusin \ {<<d, TRUE>>}) \cup {k}
      OBVIOUS
    <2> HIDE DEF k, f
    <2> QED
      BY <2>1, <2>2
  <1> HIDE DEF f
  <1>3. v \in TipoDoDialogo
    BY <1>0, <1>1 DEF TipoDoDialogo
  <1>4. /\ v.instances = w.instances /\ v.foco = w.foco /\ v.focusin = f
        /\ v.isOpen = w.isOpen /\ v.opener = w.opener /\ v.zIndex = w.zIndex /\ v.overlay = w.overlay
        /\ v.overlays = w.overlays
    BY <1>0 DEF TipoDoDialogo
  <1> HIDE DEF v
  <1>5. ModaisAbertos(v) = ModaisAbertos(w)
    BY <1>4 DEF ModaisAbertos
  <1>6. PilhaOK(v)
    BY <1>4, <1>5 DEF DialogoOK, PilhaOK
  <1>7. ASSUME ~desvio PROVE GuardaOK(v)
    <2> DEFINE h == <<d, TRUE>>
    <2>1. h[1] = d /\ h \in w.focusin
      OBVIOUS
    <2> HIDE DEF h
    <2>2. GuardaOK(w)
      BY <1>7 DEF DialogoOK
    <2>3. /\ d \in ModaisAbertos(w) /\ \A e \in ModaisAbertos(w) : w.overlay[d] <= w.overlay[e]
          /\ w.foco # Fora
      BY <2>1, <2>2 DEF GuardaOK
    <2>4. v.focusin # {} <=> ModaisAbertos(v) # {}
      BY <1>2, <1>4, <1>5, <2>3
    <2>5. ASSUME NEW g \in v.focusin
          PROVE  /\ g[1] \in ModaisAbertos(v) /\ \A e \in ModaisAbertos(v) : v.overlay[g[1]] <= v.overlay[e]
                 /\ g[2] => v.foco \in Dialogos
                 /\ v.foco # Fora
      <3>1. CASE g \in w.focusin
        BY <1>4, <1>5, <2>2, <3>1 DEF GuardaOK
      <3>2. CASE g[1] = d /\ ~g[2]
        BY <1>4, <1>5, <2>3, <3>2
      <3> QED
        BY <1>2, <1>4, <3>1, <3>2
    <2> QED
      BY <2>4, <2>5 DEF GuardaOK
  <1>8. DialogoOK(v, desvio)
    BY <1>3, <1>6, <1>7 DEF DialogoOK
  <1> QED
    BY <1>8 DEF v, f

LEMMA OpenKeepsDialogs ==
  ASSUME DialogoOK(dialogo, dialogoDesvio), NEW d \in Dialogos, openDialogo(d)
  PROVE  DialogoOK(dialogo', dialogoDesvio)
PROOF
  <1> DEFINE w0 == [dialogo EXCEPT !.isOpen[d] = TRUE, !.opener[d] = dialogo.foco]
             w1 == _moveToTop(_createOverlay(w0, d), d)
             w2 == IF d \in Modais THEN [w1 EXCEPT !.overlay[d] = w1.zIndex[d] - 1] ELSE w1
             v == _makeFocusTarget(_focusTabbable(w2, d), d)
             subido == _moveToTop(dialogo, d)
  <1>0. dialogo \in TipoDoDialogo
    BY DEF DialogoOK
  <1>1. dialogo' = IF ~dialogo.isOpen[d] THEN v
                   ELSE IF subido = dialogo THEN dialogo ELSE _focusTabbable(subido, d)
    BY DEF openDialogo
  <1>2. CASE ~dialogo.isOpen[d]
    <2>1. Abre(dialogo, v, d)
      BY <1>0, <1>2, OpenIsAnAbre
    <2> HIDE DEF v
    <2> QED
      BY <1>1, <1>2, <2>1, OpeningKeepsDialogs
  <1>3. CASE dialogo.isOpen[d]
    <2>1. DialogoOK(subido, dialogoDesvio)
      BY RaiseKeepsDialogs
    <2> HIDE DEF subido, v
    <2> QED
      BY <1>1, <1>3, <2>1, TabbableKeepsDialogs
  <1> QED
    BY <1>2, <1>3

LEMMA DialogsStep ==
  ASSUME DialogoOK(dialogo, dialogoDesvio), DialogosNext
  PROVE  DialogoOK(dialogo', dialogoDesvio')
PROOF
  <1> DEFINE w == dialogo
             desvio == dialogoDesvio
  <1>0. w \in TipoDoDialogo
    BY DEF DialogoOK
  <1>1. ASSUME NEW d \in Dialogos, closeDialogo(d),
               dialogoDesvio' = (dialogoDesvio \/ foraDeOrdem(d)
                                 \/ \E e \in Dialogos \ {d} : <<e, TRUE>> \in dialogo.focusin)
        PROVE  DialogoOK(dialogo', dialogoDesvio')
    BY <1>1, CloseKeepsDialogs
  <1>2. ASSUME NEW d \in Dialogos, openDialogo(d)
        PROVE  DialogoOK(dialogo', desvio)
    BY <1>2, OpenKeepsDialogs
  <1>3. ASSUME NEW d \in Dialogos, mousedownDialogo(d)
        PROVE  DialogoOK(dialogo', desvio)
    <2>1. DialogoOK(_moveToTop(w, d), desvio)
      BY RaiseKeepsDialogs
    <2>2. dialogo' = _focusTabbable(_moveToTop(w, d), d)
      BY <1>3 DEF mousedownDialogo
    <2> QED
      BY <2>1, <2>2, TabbableKeepsDialogs
  <1>4. ASSUME NEW d \in Dialogos, _keepFocus(d)
        PROVE  DialogoOK(dialogo', desvio)
    <2> DEFINE C == w.confere \cup {d}
               v == [w EXCEPT !.confere = C]
    <2>1. dialogo' = _focusTabbable(v, d)
      BY <1>4 DEF _keepFocus
    <2>2. C \in SUBSET Dialogos
      BY <1>0 DEF TipoDoDialogo
    <2> HIDE DEF C
    <2>3. DialogoOK(v, desvio)
      BY <2>2, CheckingKeepsDialogs
    <2> HIDE DEF v
    <2> QED
      BY <2>1, <2>3, TabbableKeepsDialogs
  <1>5. ASSUME NEW d \in Dialogos, checkFocusDialogo(d)
        PROVE  DialogoOK(dialogo', desvio)
    <2> DEFINE C == w.confere \ {d}
               v == [w EXCEPT !.confere = C]
    <2>1. dialogo' = IF v.foco = d THEN v ELSE _focusTabbable(v, d)
      BY <1>5 DEF checkFocusDialogo
    <2>2. C \in SUBSET Dialogos
      BY <1>0 DEF TipoDoDialogo
    <2> HIDE DEF C
    <2>3. DialogoOK(v, desvio)
      BY <2>2, CheckingKeepsDialogs
    <2> HIDE DEF v
    <2> QED
      BY <2>1, <2>3, TabbableKeepsDialogs
  <1>6. ASSUME NEW d \in Dialogos, aberto(d)
        PROVE  DialogoOK(dialogo', desvio)
    BY <1>6, OpenedKeepsDialogs DEF aberto
  <1>7. ASSUME clicaFora PROVE DialogoOK(dialogo', desvio)
    <2>1. ASSUME ~desvio PROVE w.focusin = {}
      <3>1. ModaisAbertos(w) = {}
        <4> SUFFICES ASSUME NEW e \in ModaisAbertos(w) PROVE FALSE
          OBVIOUS
        <4>1. e \in Dialogos /\ w.overlay[e] \in Int /\ 0 <= w.overlay[e]
          BY <1>0, DialogsAreFew DEF TipoDoDialogo, DialogoOK, PilhaOK, ModaisAbertos
        <4>2. w.overlay[e] \in Cobertos(w)
          BY <4>1 DEF Cobertos
        <4> QED
          BY <1>7, <4>2 DEF clicaFora
      <3> QED
        BY <2>1, <3>1 DEF DialogoOK, GuardaOK
    <2> QED
      BY <1>7, <2>1, PageFocusKeepsDialogs DEF clicaFora
  <1>8. ASSUME tab PROVE DialogoOK(dialogo', desvio)
    <2>1. ASSUME ~desvio PROVE \A g \in w.focusin : ~g[2]
      BY <1>8, <2>1, DialogsAreFew DEF tab, DialogoOK, GuardaOK
    <2>2. DialogoOK(focaFora(w), desvio)
      BY <2>1, PageFocusKeepsDialogs
    <2>3. \A d \in Abertos(w) : DialogoOK(_focusTabbable(w, d), desvio)
      BY TabbableKeepsDialogs DEF Abertos
    <2> QED
      BY <1>8, <2>2, <2>3 DEF tab
  <1> QED
    BY <1>1, <1>2, <1>3, <1>4, <1>5, <1>6, <1>7, <1>8 DEF DialogosNext

LEMMA DialogsOnThePage ==
  [Next]_vars => DialogosNext \/ UNCHANGED <<dialogo, dialogoDesvio>>
  BY DEF Next, vars, dialogoVars

LEMMA DialogsInvariant == Spec => []DialogoOK(dialogo, dialogoDesvio)
PROOF
  <1>1. Init => DialogoOK(dialogo, dialogoDesvio)
    <2> SUFFICES ASSUME DialogosInit PROVE DialogoOK(dialogo, dialogoDesvio)
      BY DEF Init
    <2> DEFINE w == dialogo
               p == [d \in Dialogos |-> FALSE]
               o == [d \in Dialogos |-> Corpo]
               z == [d \in Dialogos |-> 0]
               c == [d \in Dialogos |-> -1]
    <2>1. /\ p \in [Dialogos -> BOOLEAN] /\ o \in [Dialogos -> Focaveis]
          /\ z \in [Dialogos -> Int] /\ c \in [Dialogos -> Int]
          /\ \A d \in Dialogos : p[d] = FALSE /\ c[d] = -1
      BY DEF Focaveis
    <2>2. w = [instances |-> <<>>, isOpen |-> p, opener |-> o, zIndex |-> z, overlay |-> c,
               overlays |-> 0, focusin |-> {}, foco |-> Corpo, confere |-> {}]
      BY DEF DialogosInit
    <2> HIDE DEF p, o, z, c
    <2>3. <<>> \in Seq(Dialogos) /\ Corpo \in Focaveis /\ 0 \in Int
      BY DEF Focaveis
    <2>4. w \in TipoDoDialogo
      BY <2>1, <2>2, <2>3 DEF TipoDoDialogo
    <2>5. w.isOpen = p /\ w.overlay = c /\ w.overlays = 0 /\ w.focusin = {}
      BY <2>2
    <2> HIDE DEF w
    <2>6. ModaisAbertos(w) = {}
      BY <2>1, <2>5, DialogsAreFew DEF ModaisAbertos
    <2>7. PilhaOK(w)
      BY <2>1, <2>5, <2>6, FS_EmptySet DEF PilhaOK
    <2> QED
      BY <2>4, <2>5, <2>6, <2>7 DEF DialogoOK, GuardaOK, w
  <1>2. DialogoOK(dialogo, dialogoDesvio) /\ [Next]_vars => DialogoOK(dialogo, dialogoDesvio)'
    <2>1. DialogoOK(dialogo, dialogoDesvio) /\ UNCHANGED <<dialogo, dialogoDesvio>>
            => DialogoOK(dialogo', dialogoDesvio')
      OBVIOUS
    <2>2. DialogoOK(dialogo', dialogoDesvio') => DialogoOK(dialogo, dialogoDesvio)'
      BY DEF DialogoOK, TipoDoDialogo, PilhaOK, GuardaOK, ModaisAbertos, Esta
    <2> QED
      BY <2>1, <2>2, DialogsOnThePage, DialogsStep
  <1> QED
    BY <1>1, <1>2, PTL DEF Spec

\* While a modal dialog is open, whichever dialogs open over it, are raised, clicked
\* and closed in order, the handler that holds the focus is there and the page has not
\* got it; it goes with the last of them.
THEOREM FocusIsHeld == Spec => []FocoPreso
PROOF
  <1>1. DialogoOK(dialogo, dialogoDesvio) => FocoPreso
    <2> SUFFICES ASSUME DialogoOK(dialogo, dialogoDesvio), ~dialogoDesvio
                 PROVE  /\ dialogo.focusin # {} <=> Modais \cap Abertos(dialogo) # {}
                        /\ dialogo.focusin # {} => dialogo.foco # Fora
      BY DEF FocoPreso
    <2>1. Modais \cap Abertos(dialogo) = ModaisAbertos(dialogo)
      BY DialogsAreFew DEF Abertos, ModaisAbertos
    <2> QED
      BY <2>1 DEF DialogoOK, GuardaOK
  <1> QED
    BY <1>1, DialogsInvariant, PTL

----------------------------------------------------------------------------
(* Menus *)

Lugares == 1..Len(Itens)
Menus == Submenus \cup {Raiz}

LEMMA MenusOfItems ==
  /\ Len(Itens) \in Nat \ {0} /\ 1 \in Lugares
  /\ \A k \in Lugares : Itens[k] \in It /\ MenuDe[Itens[k]] \in {Raiz} \cup {Itens[j] : j \in 1..k - 1}
  /\ \A i \in It : \E k \in Lugares : Itens[k] = i
  /\ \A i \in It : MenuDe[i] \in Menus
  /\ Submenus \subseteq It /\ Raiz \notin It /\ Nada \notin It /\ Nada # Raiz
PROOF
  <1>1. Len(Itens) \in Nat \ {0} /\ 1 \in Lugares
    BY ConstantesDoMenu DEF Lugares
  <1>2. \A k \in Lugares : Itens[k] \in It /\ MenuDe[Itens[k]] \in {Raiz} \cup {Itens[j] : j \in 1..k - 1}
    BY ConstantesDoMenu DEF Lugares, It
  <1>3. \A i \in It : \E k \in Lugares : Itens[k] = i
    BY DEF It, Lugares
  <1>4. \A i \in It : MenuDe[i] \in Menus
    BY DEF Menus, Submenus
  <1>5. ASSUME NEW s \in Submenus
        PROVE  s \in It
    <2>1. PICK i \in It : s = MenuDe[i] /\ s # Raiz
      BY DEF Submenus
    <2>2. PICK k \in Lugares : Itens[k] = i
      BY <1>3
    <2>3. PICK j \in 1..k - 1 : MenuDe[Itens[k]] = Itens[j]
      BY <1>2, <2>1, <2>2
    <2>4. j \in Lugares
      BY <1>1, <2>2, <2>3 DEF Lugares
    <2> QED
      BY <1>2, <2>1, <2>2, <2>3, <2>4
  <1> QED
    BY <1>1, <1>2, <1>3, <1>4, <1>5, ConstantesDoMenu

\* A menu has items, and they are in it.
LEMMA ItemsOfMenus ==
  \A m \in Menus : De(m) \in SUBSET Lugares /\ De(m) # {}
PROOF
  <1> SUFFICES ASSUME NEW m \in Menus PROVE De(m) # {}
    BY DEF De, Lugares
  <1>1. CASE m = Raiz
    <2>1. MenuDe[Itens[1]] \in {Raiz} \cup {Itens[j] : j \in 1..1 - 1}
      BY MenusOfItems
    <2>2. MenuDe[Itens[1]] = Raiz
      BY <2>1
    <2> QED
      BY <1>1, <2>2, MenusOfItems DEF De, Lugares
  <1>2. CASE m # Raiz
    <2>1. PICK i \in It : m = MenuDe[i]
      BY <1>2 DEF Menus, Submenus
    <2> QED
      BY <2>1, MenusOfItems DEF De, Lugares
  <1> QED
    BY <1>1, <1>2

LEMMA EndsOfPlaces ==
  ASSUME NEW S \in SUBSET Lugares, S # {}
  PROVE  Min(S) \in S /\ Max(S) \in S
PROOF
  <1>1. S \in SUBSET Nat /\ Len(Itens) \in Nat
    BY MenusOfItems DEF Lugares
  <1>2. \E x \in S : \A y \in S : x <= y
    BY <1>1, FirstOfNumbers
  <1>3. \E x \in S : \A y \in S : x >= y
    BY <1>1, LastOfNumbers DEF Lugares
  <1>4. Min(S) \in S
    BY <1>2 DEF Min
  <1>5. Max(S) \in S
    BY <1>3 DEF Max
  <1> QED
    BY <1>4, <1>5

\* The items above one another: the way up is the least set that goes on.
Continua(C) == \A i \in C : MenuDe[i] \in C \cup {Raiz}
Subida(m) == {a \in It : \A C \in SUBSET It : m \in C /\ Continua(C) => a \in C}

LEMMA WayGoesOn ==
  ASSUME NEW m \in It
  PROVE  m \in Subida(m) /\ Subida(m) \in SUBSET It /\ Continua(Subida(m))
PROOF
  <1>1. m \in Subida(m) /\ Subida(m) \in SUBSET It
    BY DEF Subida
  <1>2. ASSUME NEW i \in Subida(m), MenuDe[i] # Raiz
        PROVE  MenuDe[i] \in Subida(m)
    <2>1. MenuDe[i] \in It /\ i \in It
      BY <1>1, <1>2, MenusOfItems DEF Menus
    <2>2. ASSUME NEW C \in SUBSET It, m \in C, Continua(C)
          PROVE  MenuDe[i] \in C
      <3>1. i \in C
        BY <2>2 DEF Subida
      <3> QED
        BY <1>2, <2>2, <3>1 DEF Continua
    <2> QED
      BY <2>1, <2>2 DEF Subida
  <1> QED
    BY <1>1, <1>2 DEF Continua

LEMMA WayIsLeast ==
  ASSUME NEW m \in It, NEW C \in SUBSET It, m \in C, Continua(C)
  PROVE  Subida(m) \subseteq C
  BY DEF Subida

LEMMA WayOfTheNext ==
  ASSUME NEW m \in It
  PROVE  Subida(m) = {m} \cup (IF MenuDe[m] = Raiz THEN {} ELSE Subida(MenuDe[m]))
PROOF
  <1>0. MenuDe[m] # Raiz => MenuDe[m] \in It
    BY MenusOfItems DEF Menus
  <1> DEFINE R == IF MenuDe[m] = Raiz THEN {} ELSE Subida(MenuDe[m])
             C == {m} \cup R
  <1>1. R \in SUBSET It /\ Continua(R) /\ (MenuDe[m] # Raiz => MenuDe[m] \in R)
    BY <1>0, WayGoesOn DEF Continua
  <1>2. Subida(m) \subseteq C
    <2>1. Continua(C)
      BY <1>1 DEF Continua
    <2> HIDE DEF R
    <2> QED
      BY <1>1, <2>1, WayIsLeast
  <1>3. R \subseteq Subida(m)
    <2> SUFFICES ASSUME MenuDe[m] # Raiz PROVE Subida(MenuDe[m]) \subseteq Subida(m)
      OBVIOUS
    <2>1. MenuDe[m] \in Subida(m) /\ Subida(m) \in SUBSET It /\ Continua(Subida(m))
      BY WayGoesOn DEF Continua
    <2> QED
      BY <1>0, <2>1, WayIsLeast
  <1> QED
    BY <1>2, <1>3, WayGoesOn

LEMMA AboveIsTheWay == Acima[Raiz] = {} /\ \A m \in It : Acima[m] = Subida(m)
PROOF
  <1> DEFINE SobeDe(f) == [m \in It \cup {Raiz} |-> IF m = Raiz THEN {} ELSE {m} \cup f[MenuDe[m]]]
             g == [m \in It \cup {Raiz} |-> IF m = Raiz THEN {} ELSE Subida(m)]
  <1>1. g = SobeDe(g)
    <2>1. ASSUME NEW m \in It
          PROVE  Subida(m) = {m} \cup g[MenuDe[m]]
      <3>1. MenuDe[m] \in It \cup {Raiz}
        BY MenusOfItems DEF Menus
      <3> QED
        BY <3>1, WayOfTheNext
    <2> QED
      BY <2>1
  <1>2. Acima = SobeDe(Acima)
    <2>1. Acima = CHOOSE f : f = SobeDe(f)
      BY Zenon DEF Acima
    <2> HIDE DEF SobeDe, g
    <2> QED
      BY <1>1, <2>1
  <1>3. Acima[Raiz] = {} /\ \A m \in It : Acima[m] = {m} \cup Acima[MenuDe[m]]
    <2>1. Acima = [m \in It \cup {Raiz} |-> IF m = Raiz THEN {} ELSE {m} \cup Acima[MenuDe[m]]]
      BY <1>2
    <2> QED
      BY <2>1, MenusOfItems
  <1> DEFINE Outros == {k \in Lugares : Acima[Itens[k]] # Subida(Itens[k])}
  <1>4. Outros = {}
    <2> SUFFICES ASSUME Outros # {} PROVE FALSE
      OBVIOUS
    <2>1. PICK k \in Outros : \A j \in Outros : k <= j
      <3>1. Outros \in SUBSET Nat
        BY DEF Lugares
      <3> HIDE DEF Outros
      <3> QED
        BY <3>1, FirstOfNumbers
    <2>2. k \in Lugares /\ Itens[k] \in It /\ Acima[Itens[k]] # Subida(Itens[k])
      BY MenusOfItems
    <2>3. Acima[Itens[k]] = {Itens[k]} \cup Acima[MenuDe[Itens[k]]]
      BY <1>3, <2>2
    <2>4. Subida(Itens[k]) = {Itens[k]} \cup (IF MenuDe[Itens[k]] = Raiz THEN {} ELSE Subida(MenuDe[Itens[k]]))
      BY <2>2, WayOfTheNext
    <2>5. PICK j \in 1..k - 1 : MenuDe[Itens[k]] = Itens[j]
      BY <1>3, <2>2, <2>3, <2>4, MenusOfItems
    <2>6. j \in Lugares /\ j < k
      BY <2>2, <2>5, MenusOfItems DEF Lugares
    <2>7. Acima[Itens[j]] = Subida(Itens[j]) /\ Itens[j] # Raiz
      <3>1. ~(k <= j)
        BY <2>2, <2>6 DEF Lugares
      <3> QED
        BY <2>1, <2>6, <3>1, MenusOfItems
    <2> QED
      BY <2>2, <2>3, <2>4, <2>5, <2>7
  <1> QED
    BY <1>3, <1>4, MenusOfItems

LEMMA OneWayUp ==
  /\ \A s \in It : s \in Acima[s] /\ Acima[s] \in SUBSET It
                   /\ (MenuDe[s] # Raiz => MenuDe[s] \in Acima[s])
                   /\ Acima[s] = {s} \cup Acima[MenuDe[s]]
  /\ \A s \in Submenus : Acima[s] \in SUBSET Submenus
  /\ \A s \in It : \A r \in Acima[s] : Acima[r] \subseteq Acima[s]
  /\ \A s \in It : \A r, q \in Acima[s] : r \in Acima[q] \/ q \in Acima[r]
  /\ \A r, s \in It : r \in Acima[s] /\ s \in Acima[r] => r = s
PROOF
  <1>1. ASSUME NEW s \in It
        PROVE  /\ s \in Acima[s] /\ Acima[s] \in SUBSET It
               /\ MenuDe[s] # Raiz => MenuDe[s] \in Acima[s]
               /\ Acima[s] = {s} \cup Acima[MenuDe[s]]
               /\ Continua(Acima[s])
    <2>1. s \in Subida(s) /\ Subida(s) \in SUBSET It /\ Continua(Subida(s))
      BY WayGoesOn
    <2>2. Subida(s) = {s} \cup (IF MenuDe[s] = Raiz THEN {} ELSE Subida(MenuDe[s]))
      BY WayOfTheNext
    <2>3. MenuDe[s] \in It \cup {Raiz}
      BY MenusOfItems DEF Menus
    <2> QED
      BY <2>1, <2>2, <2>3, AboveIsTheWay DEF Continua
  <1>2. ASSUME NEW m \in It, NEW C \in SUBSET It, m \in C, Continua(C)
        PROVE  Acima[m] \subseteq C
    BY <1>2, WayIsLeast, AboveIsTheWay
  <1>3. ASSUME NEW s \in Submenus
        PROVE  Acima[s] \in SUBSET Submenus
    <2>1. Submenus \in SUBSET It /\ Continua(Submenus)
      BY MenusOfItems DEF Continua, Menus
    <2> QED
      BY <1>2, <2>1
  <1>4. ASSUME NEW s \in It, NEW r \in Acima[s]
        PROVE  Acima[r] \subseteq Acima[s]
    BY <1>1, <1>2
  <1>5. ASSUME NEW s \in It, NEW r \in Acima[s], NEW q \in Acima[s]
        PROVE  r \in Acima[q] \/ q \in Acima[r]
    <2> DEFINE C == {a \in Acima[s] : r \in Acima[a] \/ a \in Acima[r]}
    <2>1. C \in SUBSET It /\ s \in C
      BY <1>1
    <2>2. ASSUME NEW a \in C, MenuDe[a] # Raiz
          PROVE  MenuDe[a] \in C
      <3>1. a \in Acima[s] /\ a \in It /\ r \in It /\ MenuDe[a] \in Acima[s] /\ MenuDe[a] \in It
        BY <1>1, <2>1, <2>2, MenusOfItems DEF Continua, Menus
      <3>2. CASE a \in Acima[r]
        BY <1>1, <2>2, <3>1, <3>2 DEF Continua
      <3>3. CASE r \in Acima[a]
        <4>1. r = a \/ r \in Acima[MenuDe[a]]
          BY <1>1, <3>1, <3>3
        <4> QED
          BY <1>1, <2>2, <3>1, <3>2, <4>1 DEF Continua
      <3> QED
        BY <3>2, <3>3
    <2>3. Continua(C)
      BY <2>2 DEF Continua
    <2> HIDE DEF C
    <2>4. q \in C
      BY <1>2, <2>1, <2>3
    <2> QED
      BY <2>4 DEF C
  <1>6. ASSUME NEW r \in It, NEW s \in It, r \in Acima[s], s \in Acima[r], r # s
        PROVE  FALSE
    <2>1. ASSUME NEW k \in Lugares
          PROVE  Acima[Itens[k]] \subseteq {Itens[j] : j \in 1..k}
      <3> DEFINE C == {Itens[j] : j \in 1..k}
      <3>1. \A j \in 1..k : j \in Lugares
        BY MenusOfItems DEF Lugares
      <3>2. C \in SUBSET It /\ Itens[k] \in C
        BY <3>1, MenusOfItems DEF Lugares
      <3>3. ASSUME NEW j \in 1..k, MenuDe[Itens[j]] # Raiz
            PROVE  MenuDe[Itens[j]] \in C
        <4>1. PICK n \in 1..j - 1 : MenuDe[Itens[j]] = Itens[n]
          BY <3>1, <3>3, MenusOfItems
        <4>2. n \in 1..k
          BY <3>1, <4>1, MenusOfItems DEF Lugares
        <4> QED
          BY <4>1, <4>2
      <3>4. Continua(C)
        BY <3>3 DEF Continua
      <3> HIDE DEF C
      <3>5. Acima[Itens[k]] \subseteq C
        BY <1>2, <3>2, <3>4, MenusOfItems
      <3> QED
        BY <3>5 DEF C
    <2>2. PICK k \in Lugares, n \in Lugares : Itens[k] = r /\ Itens[n] = s
      BY MenusOfItems
    <2>3. PICK j \in 1..n : r = Itens[j]
      BY <1>6, <2>1, <2>2
    <2>4. PICK i \in 1..k : s = Itens[i]
      BY <1>6, <2>1, <2>2
    <2>5. \A a, b \in Lugares : Itens[a] = Itens[b] => a = b
      BY ConstantesDoMenu DEF IsInjective, Lugares
    <2>6. i \in Lugares /\ j \in Lugares
      BY <2>2, <2>3, <2>4, MenusOfItems DEF Lugares
    <2>7. j = k /\ i = n
      BY <2>2, <2>3, <2>4, <2>5, <2>6
    <2>8. k <= n /\ n <= k /\ k \in Int /\ n \in Int
      BY <2>2, <2>3, <2>4, <2>7 DEF Lugares
    <2> QED
      BY <1>6, <2>2, <2>8
  <1> QED
    BY <1>1, <1>3, <1>4, <1>5, <1>6

----------------------------------------------------------------------------
(* The state of the menu *)

TemposDaFila == [tipo : {"fecha", "abre", "colapsa"}, alvo : Menus \cup {Nada}]
TemposBreves ==
  [tipo : {"tecla", "clique"}, alvo : It] \cup [tipo : {"perdeu"}, alvo : {Raiz}]
Letras == {Nada} \cup {LetraDe[i] : i \in It}

TipoDoMenu ==
  [active : It \cup {Nada}, activeMenu : Menus, previousFilter : Letras,
   fila : Seq(TemposDaFila), semTimer : BOOLEAN, abertos : SUBSET Submenus,
   logo : SUBSET TemposBreves, rato : It \cup {Nada}, noFoco : BOOLEAN]

\* A menu that is shown, in a state of the menus.
Mostra(w, m) == m = Raiz \/ m \in w.abertos

\* The submenus shown are one path from the outermost menu.
Trilha(w) ==
  \A s \in w.abertos : /\ Acima[s] \subseteq w.abertos
                       /\ \A r \in w.abertos : r \in Acima[s] \/ s \in Acima[r]

\* One delay at most is under way, and the menu remembers it.
UmTempo(w) == IF w.semTimer THEN w.fila = <<>> ELSE \E t \in TemposDaFila : w.fila = <<t>>

AtivoVisivel(w) == w.active # Nada => Mostra(w, MenuDe[w.active])

\* What the delay is about: the active item, or a menu that is shown.
FilaOK(w) ==
  w.fila # <<>> =>
    LET t == w.fila[1] IN
    /\ t.tipo \in {"fecha", "abre"} => w.active # Nada /\ w.activeMenu = MenuDe[w.active]
    /\ t.tipo = "abre" => t.alvo = w.active /\ t.alvo \in Submenus
    /\ t.tipo = "colapsa" => t.alvo \in Menus /\ Mostra(w, t.alvo)

Firme(w) == w \in TipoDoMenu /\ UmTempo(w) /\ Trilha(w) /\ AtivoVisivel(w) /\ FilaOK(w)

DeExpansao(t) == t.tipo \in {"tecla", "clique"}
Espera(w) == \E t \in w.logo : DeExpansao(t)

\* Until the first item of a submenu gets the focus, it can be seen; at any other
\* time the active menu can.
MenuOK(w) ==
  /\ Firme(w)
  /\ w.rato # Nada => Mostra(w, MenuDe[w.rato])
  /\ \A t \in w.logo : DeExpansao(t) => t.alvo \in It /\ Mostra(w, MenuDe[t.alvo])
  /\ Espera(w) \/ Mostra(w, w.activeMenu)

MenuInv == menuCruzado \in BOOLEAN /\ (~menuCruzado => MenuOK(menu))

\* What a handler leaves alone while timers come and go.
MesmoMenu(v, w) ==
  /\ v.active = w.active /\ v.activeMenu = w.activeMenu /\ v.abertos = w.abertos
  /\ v.logo = w.logo /\ v.rato = w.rato
  /\ v.previousFilter = w.previousFilter /\ v.noFoco = w.noFoco

LEMMA TimerCleared ==
  ASSUME NEW w \in TipoDoMenu, UmTempo(w)
  PROVE  /\ clearTimeout(w) \in TipoDoMenu /\ clearTimeout(w).fila = <<>> /\ clearTimeout(w).semTimer
         /\ MesmoMenu(clearTimeout(w), w)
PROOF
  <1> DEFINE v == clearTimeout(w)
  <1>1. CASE w.semTimer
    <2>1. v = w
      BY <1>1 DEF clearTimeout
    <2> HIDE DEF v
    <2> QED
      BY <1>1, <2>1 DEF UmTempo, MesmoMenu, v
  <1>2. CASE ~w.semTimer
    <2>1. PICK t \in TemposDaFila : w.fila = <<t>>
      BY <1>2 DEF UmTempo
    <2>2. Front(w.fila) = <<>>
      BY <2>1 DEF Front
    <2> DEFINE sim == TRUE
               vazia == <<>>
    <2>3. sim \in BOOLEAN /\ sim /\ vazia \in Seq(TemposDaFila) /\ vazia = <<>>
      OBVIOUS
    <2> HIDE DEF sim, vazia
    <2>4. v = [w EXCEPT !.fila = vazia, !.semTimer = sim]
      <3>1. sim = TRUE
        BY DEF sim
      <3> QED
        BY <1>2, <2>2, <2>3, <3>1, Zenon DEF clearTimeout
    <2> HIDE DEF v
    <2>5. v \in TipoDoMenu
      BY <2>3, <2>4 DEF TipoDoMenu
    <2>6. v.fila = vazia /\ v.semTimer = sim
      BY <2>3, <2>4 DEF TipoDoMenu
    <2>7. MesmoMenu(v, w)
      BY <2>3, <2>4 DEF TipoDoMenu, MesmoMenu
    <2> QED
      BY <2>3, <2>5, <2>6, <2>7 DEF v
  <1> QED
    BY <1>1, <1>2

LEMMA Delayed ==
  ASSUME NEW w \in TipoDoMenu, w.fila = <<>>, NEW tipo \in {"fecha", "abre", "colapsa"},
         NEW alvo \in Menus \cup {Nada}
  PROVE  LET v == Adia(w, tipo, alvo) IN
         /\ v \in TipoDoMenu /\ UmTempo(v) /\ MesmoMenu(v, w)
         /\ v.fila # <<>> /\ v.fila[1].tipo = tipo /\ v.fila[1].alvo = alvo
PROOF
  <1> DEFINE v == Adia(w, tipo, alvo)
             t == [tipo |-> tipo, alvo |-> alvo]
             f == <<t>>
             nao == FALSE
  <1>1. t \in TemposDaFila /\ t.tipo = tipo /\ t.alvo = alvo
    BY DEF TemposDaFila
  <1>2. Append(w.fila, t) = f
    OBVIOUS
  <1>3. nao \in BOOLEAN /\ ~nao /\ nao = FALSE
    OBVIOUS
  <1> HIDE DEF t, nao
  <1>4. f \in Seq(TemposDaFila) /\ f = <<t>> /\ f # <<>> /\ f[1] = t
    BY <1>1
  <1> HIDE DEF f
  <1>5. v = [w EXCEPT !.fila = f, !.semTimer = nao]
    BY <1>2, <1>3, Zenon DEF Adia, t
  <1> HIDE DEF v
  <1>6. v \in TipoDoMenu
    BY <1>3, <1>4, <1>5 DEF TipoDoMenu
  <1>7. v.fila = f /\ v.semTimer = nao
    BY <1>3, <1>4, <1>5 DEF TipoDoMenu
  <1>8. MesmoMenu(v, w)
    BY <1>3, <1>4, <1>5 DEF TipoDoMenu, MesmoMenu
  <1>9. UmTempo(v)
    BY <1>1, <1>3, <1>4, <1>7 DEF UmTempo
  <1> QED
    BY <1>1, <1>4, <1>6, <1>7, <1>8, <1>9 DEF v

LEMMA MenusClosed ==
  ASSUME NEW w \in TipoDoMenu, NEW m
  PROVE  LET v == closeMenu(w, m) IN
         /\ v \in TipoDoMenu /\ v.abertos = w.abertos \ Abaixo(m)
         /\ v.active = w.active /\ v.activeMenu = w.activeMenu /\ v.fila = w.fila
         /\ v.semTimer = w.semTimer /\ v.logo = w.logo /\ v.rato = w.rato
         /\ v.previousFilter = w.previousFilter /\ v.noFoco = w.noFoco
PROOF
  <1> DEFINE v == closeMenu(w, m)
             B == w.abertos \ Abaixo(m)
  <1>1. B \in SUBSET Submenus
    BY DEF TipoDoMenu
  <1>2. v = [w EXCEPT !.abertos = B]
    BY Zenon DEF closeMenu
  <1> HIDE DEF v, B
  <1>3. v \in TipoDoMenu
    BY <1>1, <1>2 DEF TipoDoMenu
  <1>4. v.abertos = B
    BY <1>1, <1>2 DEF TipoDoMenu
  <1>5. /\ v.active = w.active /\ v.activeMenu = w.activeMenu /\ v.fila = w.fila
        /\ v.semTimer = w.semTimer /\ v.logo = w.logo /\ v.rato = w.rato
        /\ v.previousFilter = w.previousFilter /\ v.noFoco = w.noFoco
    BY <1>1, <1>2 DEF TipoDoMenu
  <1> QED
    BY <1>3, <1>4, <1>5 DEF v, B

\* What is closed below a menu leaves a path, with the menu and what is above it.
LEMMA PathCloses ==
  ASSUME NEW w \in TipoDoMenu, Trilha(w), NEW m \in Menus
  PROVE  LET v == closeMenu(w, m) IN
         /\ Trilha(v)
         /\ Mostra(w, m) => Mostra(v, m)
         /\ \A n \in Menus : m # Raiz /\ n \in {Raiz} \cup Acima[m] /\ Mostra(w, n) => Mostra(v, n)
PROOF
  <1> DEFINE v == closeMenu(w, m)
             B == w.abertos \ Abaixo(m)
  <1>1. w.abertos \in SUBSET Submenus /\ B \in SUBSET Submenus
    BY DEF TipoDoMenu
  <1>4. v.abertos = B
    BY MenusClosed
  <1> HIDE DEF v, B
  <1>6. ASSUME m # Raiz, NEW n \in Menus, n \in {Raiz} \cup Acima[m], Mostra(w, n)
        PROVE  Mostra(v, n)
    <2> SUFFICES ASSUME n # Raiz PROVE n \in B
      BY <1>4 DEF Mostra
    <2>1. n \in w.abertos /\ n \in Acima[m] /\ n \in It /\ m \in It
      BY <1>6, MenusOfItems DEF Mostra, Menus
    <2>2. n \notin Abaixo(m)
      BY <1>6, <2>1, OneWayUp DEF Abaixo
    <2> QED
      BY <2>1, <2>2 DEF B
  <1>7. Mostra(w, m) => Mostra(v, m)
    <2>1. CASE m = Raiz
      BY <2>1 DEF Mostra
    <2>2. CASE m # Raiz
      BY <1>6, <2>2, OneWayUp, MenusOfItems DEF Menus
    <2> QED
      BY <2>1, <2>2
  <1>8. ASSUME NEW s \in B
        PROVE  Acima[s] \subseteq B
    <2>1. s \in w.abertos /\ s \in Submenus /\ s \in It /\ s \notin Abaixo(m)
      BY <1>1, MenusOfItems DEF B
    <2>2. m # Raiz /\ (s = m \/ m \notin Acima[s])
      BY <2>1 DEF Abaixo
    <2>3. ASSUME NEW r \in Acima[s], r \in Abaixo(m)
          PROVE  FALSE
      <3>1. r # m /\ m \in Acima[r] /\ m \in It /\ r \in It
        BY <2>2, <2>3, MenusOfItems DEF Abaixo, Menus
      <3>2. m \in Acima[s]
        BY <2>1, <2>3, <3>1, OneWayUp
      <3> QED
        BY <2>2, <2>3, <3>1, <3>2, OneWayUp
    <2> QED
      BY <2>1, <2>3 DEF B, Trilha
  <1>9. Trilha(v)
    BY <1>4, <1>8 DEF Trilha, B
  <1> QED
    BY <1>6, <1>7, <1>9 DEF v

\* A submenu that can be seen opens alone with what is above it.
LEMMA PathOpens ==
  ASSUME NEW w \in TipoDoMenu, UmTempo(w), Trilha(w), NEW s \in Submenus, Mostra(w, MenuDe[s])
  PROVE  LET v == _openMenu(w, s) IN
         /\ v \in TipoDoMenu /\ UmTempo(v) /\ Trilha(v) /\ v.abertos = Acima[s]
         /\ v.fila = <<>>
         /\ Mostra(v, s) /\ Mostra(v, MenuDe[s])
         /\ v.active = w.active /\ v.activeMenu = w.activeMenu /\ v.logo = w.logo
         /\ v.rato = w.rato /\ v.previousFilter = w.previousFilter /\ v.noFoco = w.noFoco
PROOF
  <1> DEFINE v == _openMenu(w, s)
             u == clearTimeout(w)
             A == (w.abertos \cap Acima[s]) \cup {s}
  <1>1. /\ u \in TipoDoMenu /\ u.fila = <<>> /\ u.semTimer /\ MesmoMenu(u, w)
    BY TimerCleared
  <1>2. s \in It /\ Acima[s] \in SUBSET Submenus /\ s \in Acima[s] /\ Acima[s] = {s} \cup Acima[MenuDe[s]]
    BY MenusOfItems, OneWayUp
  <1>3. A = Acima[s]
    <2>1. Acima[MenuDe[s]] \subseteq w.abertos
      <3>1. CASE MenuDe[s] = Raiz
        BY <3>1, AboveIsTheWay
      <3>2. CASE MenuDe[s] # Raiz
        BY <3>2 DEF Mostra, Trilha
      <3> QED
        BY <3>1, <3>2
    <2> QED
      BY <1>2, <2>1
  <1>4. v = [u EXCEPT !.abertos = A]
    <2>1. u.abertos = w.abertos
      BY <1>1 DEF MesmoMenu
    <2> QED
      BY <2>1, Zenon DEF _openMenu
  <1> HIDE DEF v, u, A
  <1>5. v \in TipoDoMenu
    BY <1>1, <1>2, <1>3, <1>4 DEF TipoDoMenu
  <1>6. v.abertos = Acima[s]
    BY <1>1, <1>3, <1>4 DEF TipoDoMenu
  <1>7. /\ v.active = u.active /\ v.activeMenu = u.activeMenu /\ v.logo = u.logo
        /\ v.rato = u.rato /\ v.previousFilter = u.previousFilter /\ v.noFoco = u.noFoco
        /\ v.fila = u.fila /\ v.semTimer = u.semTimer
    BY <1>1, <1>4 DEF TipoDoMenu
  <1>8. Trilha(v)
    BY <1>2, <1>6, OneWayUp DEF Trilha
  <1>9. Mostra(v, s) /\ Mostra(v, MenuDe[s])
    BY <1>2, <1>6, OneWayUp DEF Mostra
  <1>10. UmTempo(v)
    BY <1>1, <1>7 DEF UmTempo
  <1> QED
    BY <1>1, <1>5, <1>6, <1>7, <1>8, <1>9, <1>10 DEF MesmoMenu, v

\* What the focus changes at once.
Focado(w, item, m) == [w EXCEPT !.active = item, !.activeMenu = m]

LEMMA FocusedItem ==
  ASSUME NEW w \in TipoDoMenu, NEW i \in It \cup {Nada}, NEW m \in Menus
  PROVE  LET v == Focado(w, i, m) IN
         /\ v \in TipoDoMenu /\ v.active = i /\ v.activeMenu = m
         /\ v.abertos = w.abertos /\ v.fila = w.fila /\ v.semTimer = w.semTimer /\ v.logo = w.logo
         /\ v.rato = w.rato /\ v.previousFilter = w.previousFilter /\ v.noFoco = w.noFoco
PROOF
  <1> DEFINE v == Focado(w, i, m)
  <1>1. v = [w EXCEPT !.active = i, !.activeMenu = m]
    BY DEF Focado
  <1> HIDE DEF v
  <1>2. v \in TipoDoMenu
    BY <1>1 DEF TipoDoMenu
  <1>3. v.active = i /\ v.activeMenu = m
    BY <1>1 DEF TipoDoMenu
  <1>4. /\ v.abertos = w.abertos /\ v.fila = w.fila /\ v.semTimer = w.semTimer /\ v.logo = w.logo
        /\ v.rato = w.rato /\ v.previousFilter = w.previousFilter /\ v.noFoco = w.noFoco
    BY <1>1 DEF TipoDoMenu
  <1> QED
    BY <1>2, <1>3, <1>4 DEF v

\* An item gets the focus: by any event, if the menu remembers its delay.
Eventos == {"tecla", "clique", "mouse", "foco"}

LEMMA ItemFocused ==
  ASSUME NEW w \in TipoDoMenu, UmTempo(w), NEW item \in It, NEW evento \in Eventos,
         evento = "foco" => w.fila = <<>>
  PROVE  LET v == focusMenu(w, item, evento) IN
         /\ v \in TipoDoMenu /\ UmTempo(v)
         /\ v.active = item /\ v.activeMenu = MenuDe[item]
         /\ v.logo = w.logo /\ v.rato = w.rato
         /\ Trilha(w) /\ Mostra(w, MenuDe[item]) => Firme(v) /\ Mostra(v, v.activeMenu)
PROOF
  <1> DEFINE b == IF evento = "foco" THEN w ELSE clearTimeout(w)
             w1 == [blurMenu(w, evento = "foco") EXCEPT !.active = item, !.activeMenu = MenuDe[item]]
             w2 == IF evento = "tecla" THEN _close(w1) ELSE Adia(w1, "fecha", Nada)
             w3 == clearTimeout(w2)
             v == focusMenu(w, item, evento)
             m == MenuDe[item]
  <1>0. m \in Menus /\ Nada \notin It /\ item # Nada
    BY MenusOfItems
  <1>1. b \in TipoDoMenu /\ b.fila = <<>> /\ b.semTimer /\ MesmoMenu(b, w)
    <2>1. CASE evento = "foco"
      BY <2>1 DEF UmTempo, MesmoMenu
    <2>2. CASE evento # "foco"
      BY <2>2, TimerCleared
    <2> QED
      BY <2>1, <2>2
  <1>2. w1 = Focado(b, item, m)
    <2>1. blurMenu(w, evento = "foco") = [b EXCEPT !.active = Nada]
      BY Zenon DEF blurMenu
    <2>2. w1 = [[b EXCEPT !.active = Nada] EXCEPT !.active = item, !.activeMenu = m]
      BY <2>1, Zenon
    <2> HIDE DEF b, m, w1
    <2>3. [[b EXCEPT !.active = Nada] EXCEPT !.active = item, !.activeMenu = m]
            = [b EXCEPT !.active = item, !.activeMenu = m]
      BY <1>1 DEF TipoDoMenu
    <2> QED
      BY <2>2, <2>3 DEF Focado
  <1>3. v = IF item \notin Submenus \/ evento # "mouse" THEN w2
            ELSE IF item \in w.abertos THEN w3 ELSE Adia(w3, "abre", item)
    BY Zenon DEF focusMenu
  <1> HIDE DEF v, b, w1
  <1>4. /\ w1 \in TipoDoMenu /\ w1.active = item /\ w1.activeMenu = m /\ w1.abertos = w.abertos
        /\ w1.fila = <<>> /\ w1.semTimer /\ w1.logo = w.logo /\ w1.rato = w.rato
    BY <1>0, <1>1, <1>2, FocusedItem DEF MesmoMenu
  <1>5. Trilha(w1) <=> Trilha(w)
    BY <1>4 DEF Trilha
  <1>6. Mostra(w1, m) <=> Mostra(w, m)
    BY <1>4 DEF Mostra
  <1>7. CASE evento = "tecla"
    <2>1. v = closeMenu(w1, m)
      <3>1. v = _close(w1)
        BY <1>3, <1>7, Zenon
      <3> QED
        BY <1>0, <1>4, <3>1, Zenon DEF _close
    <2>2. /\ v \in TipoDoMenu /\ v.fila = <<>> /\ v.semTimer
          /\ v.active = item /\ v.activeMenu = m /\ v.logo = w.logo /\ v.rato = w.rato
      BY <1>4, <2>1, MenusClosed
    <2>3. Trilha(w) /\ Mostra(w, m) => Trilha(v) /\ Mostra(v, m)
      BY <1>0, <1>4, <1>5, <1>6, <2>1, PathCloses
    <2> QED
      BY <2>2, <2>3 DEF v, UmTempo, Firme, AtivoVisivel, FilaOK
  <1>8. CASE evento # "tecla"
    <2>1. w2 = Adia(w1, "fecha", Nada)
      BY <1>8
    <2> HIDE DEF w2
    <2>2. /\ w2 \in TipoDoMenu /\ UmTempo(w2) /\ MesmoMenu(w2, w1)
          /\ w2.fila # <<>> /\ w2.fila[1].tipo = "fecha"
      BY <1>4, <2>1, Delayed
    <2>3. w3 \in TipoDoMenu /\ w3.fila = <<>> /\ w3.semTimer /\ MesmoMenu(w3, w2)
      BY <2>2, TimerCleared
    <2> DEFINE w4 == Adia(w3, "abre", item)
    <2> HIDE DEF w3
    <2>4. item \in Submenus =>
            /\ w4 \in TipoDoMenu /\ UmTempo(w4) /\ MesmoMenu(w4, w3)
            /\ w4.fila # <<>> /\ w4.fila[1].tipo = "abre" /\ w4.fila[1].alvo = item
      BY <2>3, Delayed DEF Menus
    <2>5. v = w2 \/ v = w3 \/ (v = w4 /\ item \in Submenus)
      BY <1>3
    <2> HIDE DEF w4
    <2>6. v \in TipoDoMenu /\ UmTempo(v) /\ MesmoMenu(v, w1)
      BY <2>2, <2>3, <2>4, <2>5 DEF MesmoMenu, UmTempo
    <2>7. v.fila # <<>> => \/ v.fila[1].tipo = "fecha"
                           \/ v.fila[1].tipo = "abre" /\ v.fila[1].alvo = item /\ item \in Submenus
      BY <2>2, <2>3, <2>4, <2>5
    <2>8. /\ v.active = item /\ v.activeMenu = m /\ v.abertos = w.abertos
          /\ v.logo = w.logo /\ v.rato = w.rato
      BY <1>4, <2>6 DEF MesmoMenu
    <2>9. ASSUME Trilha(w), Mostra(w, m)
          PROVE  Firme(v) /\ Mostra(v, v.activeMenu)
      <3>1. Trilha(v) /\ Mostra(v, m)
        BY <2>8, <2>9 DEF Trilha, Mostra
      <3>2. AtivoVisivel(v)
        BY <2>8, <3>1 DEF AtivoVisivel
      <3>3. FilaOK(v)
        BY <1>0, <2>7, <2>8 DEF FilaOK
      <3> QED
        BY <2>6, <2>8, <3>1, <3>2, <3>3 DEF Firme
    <2> HIDE DEF m
    <2>10. v \in TipoDoMenu /\ UmTempo(v) /\ v.active = item /\ v.activeMenu = m
           /\ v.logo = w.logo /\ v.rato = w.rato
      BY <2>6, <2>8
    <2> QED
      BY <2>9, <2>10 DEF v, m
  <1> QED
    BY <1>7, <1>8

LEMMA FirmStays ==
  ASSUME NEW w, NEW v \in TipoDoMenu, Firme(w), v.active = w.active, v.activeMenu = w.activeMenu,
         v.fila = w.fila, v.semTimer = w.semTimer, v.abertos = w.abertos
  PROVE  Firme(v)
PROOF
  <1>1. UmTempo(v)
    BY DEF Firme, UmTempo
  <1>2. Trilha(v)
    BY DEF Firme, Trilha
  <1>3. AtivoVisivel(v)
    BY DEF Firme, AtivoVisivel, Mostra
  <1>4. FilaOK(v)
    BY DEF Firme, FilaOK, Mostra
  <1> QED
    BY <1>1, <1>2, <1>3, <1>4 DEF Firme

\* All is to close, a moment later.
LEMMA CollapseAsked ==
  ASSUME NEW w, Firme(w), NEW m \in Menus, Mostra(w, m)
  PROVE  Firme(collapseAll(w, m)) /\ MesmoMenu(collapseAll(w, m), w)
PROOF
  <1> DEFINE u == clearTimeout(w)
             v == Adia(u, "colapsa", m)
  <1>1. w \in TipoDoMenu /\ UmTempo(w) /\ Trilha(w) /\ AtivoVisivel(w)
    BY DEF Firme
  <1>2. u \in TipoDoMenu /\ u.fila = <<>> /\ MesmoMenu(u, w)
    BY <1>1, TimerCleared
  <1>3. collapseAll(w, m) = v
    BY Zenon DEF collapseAll
  <1> HIDE DEF u
  <1>4. /\ v \in TipoDoMenu /\ UmTempo(v) /\ MesmoMenu(v, u)
        /\ v.fila # <<>> /\ v.fila[1].tipo = "colapsa" /\ v.fila[1].alvo = m
    BY <1>2, Delayed
  <1> HIDE DEF v
  <1>5. MesmoMenu(v, w)
    BY <1>2, <1>4 DEF MesmoMenu
  <1>6. Trilha(v) /\ AtivoVisivel(v) /\ Mostra(v, m)
    BY <1>1, <1>5 DEF Trilha, AtivoVisivel, Mostra, MesmoMenu
  <1>7. FilaOK(v)
    BY <1>4, <1>6 DEF FilaOK
  <1> QED
    BY <1>3, <1>4, <1>5, <1>6, <1>7 DEF Firme

\* A choice: of the item that is active, or of the one pointed at.
LEMMA ItemChosen ==
  ASSUME NEW w, Firme(w), NEW item \in It, Mostra(w, MenuDe[item])
  PROVE  LET v == select(w, item) IN
         /\ Firme(v) /\ v.active \in It /\ v.activeMenu = w.activeMenu
         /\ v.abertos = w.abertos /\ v.logo = w.logo /\ v.rato = w.rato
PROOF
  <1> DEFINE a == IF w.active = Nada THEN item ELSE w.active
             u == [w EXCEPT !.active = a]
             v == select(w, item)
  <1>0. w \in TipoDoMenu /\ a \in It /\ Raiz \in Menus
    BY MenusOfItems DEF Firme, TipoDoMenu, Menus
  <1>1. v = IF a \in Submenus THEN u ELSE collapseAll(u, Raiz)
    BY Zenon DEF select
  <1>2. Mostra(w, MenuDe[a]) /\ (w.active # Nada => a = w.active)
    BY DEF Firme, AtivoVisivel
  <1> HIDE DEF v, a
  <1>3. /\ u \in TipoDoMenu /\ u.active = a /\ u.activeMenu = w.activeMenu /\ u.abertos = w.abertos
        /\ u.logo = w.logo /\ u.rato = w.rato /\ u.fila = w.fila /\ u.semTimer = w.semTimer
    BY <1>0 DEF TipoDoMenu
  <1> HIDE DEF u
  <1>4. Firme(u)
    <2>1. UmTempo(u)
      BY <1>3 DEF Firme, UmTempo
    <2>2. Trilha(u)
      BY <1>3 DEF Firme, Trilha
    <2>3. AtivoVisivel(u)
      BY <1>2, <1>3 DEF AtivoVisivel, Mostra
    <2>4. FilaOK(u)
      BY <1>2, <1>3 DEF Firme, FilaOK, Mostra
    <2> QED
      BY <1>3, <2>1, <2>2, <2>3, <2>4 DEF Firme
  <1>5. Firme(collapseAll(u, Raiz)) /\ MesmoMenu(collapseAll(u, Raiz), u)
    BY <1>0, <1>4, CollapseAsked DEF Mostra
  <1> QED
    BY <1>0, <1>1, <1>3, <1>4, <1>5 DEF MesmoMenu, v

\* What a submenu that opens will have in focus.
Expandida(v, w, t) ==
  /\ v.logo = w.logo \cup {t} /\ DeExpansao(t) /\ t.alvo \in It /\ Mostra(v, MenuDe[t.alvo])

LEMMA FirstOfMenu ==
  \A m \in Menus : Primeiro(m) \in It /\ MenuDe[Primeiro(m)] = m
PROOF
  <1> SUFFICES ASSUME NEW m \in Menus PROVE Primeiro(m) \in It /\ MenuDe[Primeiro(m)] = m
    OBVIOUS
  <1>1. Min(De(m)) \in De(m) /\ De(m) \in SUBSET Lugares
    BY ItemsOfMenus, EndsOfPlaces
  <1> QED
    BY <1>1, MenusOfItems DEF Primeiro, De

LEMMA ItemExpanded ==
  ASSUME NEW w, Firme(w), NEW evento \in {"tecla", "clique"}
  PROVE  LET v == expand(w, evento) IN
         \/ v = w
         \/ Firme(v) /\ v.rato = w.rato /\ \E t \in TemposBreves : Expandida(v, w, t)
PROOF
  <1> DEFINE s == w.active
             u == _openMenu(w, s)
             t == [tipo |-> evento, alvo |-> Primeiro(s)]
             L == u.logo \cup {t}
             v == expand(w, evento)
  <1> SUFFICES ASSUME s \in Submenus
               PROVE  Firme(v) /\ v.rato = w.rato /\ \E x \in TemposBreves : Expandida(v, w, x)
    BY DEF expand
  <1>0. w \in TipoDoMenu /\ UmTempo(w) /\ Trilha(w) /\ s \in It /\ s # Nada /\ s \in Menus
    BY MenusOfItems DEF Firme, Menus
  <1>1. Mostra(w, MenuDe[s])
    BY <1>0 DEF Firme, AtivoVisivel
  <1>2. /\ u \in TipoDoMenu /\ UmTempo(u) /\ Trilha(u) /\ u.abertos = Acima[s] /\ u.fila = <<>>
        /\ Mostra(u, s) /\ Mostra(u, MenuDe[s]) /\ u.active = s /\ u.logo = w.logo /\ u.rato = w.rato
    BY <1>0, <1>1, PathOpens
  <1>3. t \in TemposBreves /\ t.alvo \in It /\ DeExpansao(t) /\ MenuDe[t.alvo] = s
    BY <1>0, FirstOfMenu DEF TemposBreves, DeExpansao
  <1>4. v = [u EXCEPT !.logo = L]
    BY Zenon DEF expand
  <1> HIDE DEF u, t, v
  <1>5. L \in SUBSET TemposBreves
    BY <1>2, <1>3 DEF TipoDoMenu
  <1> HIDE DEF L
  <1>6. /\ v \in TipoDoMenu /\ v.active = u.active /\ v.activeMenu = u.activeMenu /\ v.abertos = u.abertos
        /\ v.rato = u.rato /\ v.fila = u.fila /\ v.semTimer = u.semTimer
    BY <1>2, <1>4, <1>5 DEF TipoDoMenu
  <1>7. v.logo = L
    BY <1>2, <1>4 DEF TipoDoMenu
  <1>8. Firme(u)
    BY <1>2 DEF Firme, AtivoVisivel, FilaOK
  <1>9. Firme(v)
    BY <1>6, <1>8, FirmStays
  <1>10. Expandida(v, w, t)
    BY <1>2, <1>3, <1>6, <1>7 DEF Expandida, Mostra, L
  <1> QED
    BY <1>2, <1>3, <1>6, <1>9, <1>10

LEMMA MenuCollapsed ==
  ASSUME NEW w, Firme(w)
  PROVE  LET v == collapse(w) IN
         \/ v = w
         \/ Firme(v) /\ Mostra(v, v.activeMenu) /\ v.logo = w.logo /\ v.rato = w.rato
PROOF
  <1> DEFINE v == collapse(w)
             s == MenuDe[w.active]
             u == closeMenu(w, s)
  <1> SUFFICES ASSUME w.active # Nada, s # Raiz
               PROVE  Firme(v) /\ Mostra(v, v.activeMenu) /\ v.logo = w.logo /\ v.rato = w.rato
    BY DEF collapse
  <1>1. w \in TipoDoMenu /\ UmTempo(w) /\ Trilha(w) /\ w.active \in It /\ s \in Menus /\ s \in It
    BY MenusOfItems DEF Firme, TipoDoMenu, Menus
  <1>2. Mostra(w, s)
    BY DEF Firme, AtivoVisivel
  <1>3. u \in TipoDoMenu /\ u.fila = w.fila /\ u.semTimer = w.semTimer /\ u.logo = w.logo /\ u.rato = w.rato
    BY <1>1, MenusClosed
  <1>4. UmTempo(u)
    BY <1>1, <1>3 DEF UmTempo
  <1>5. MenuDe[s] \in Menus /\ MenuDe[s] \in {Raiz} \cup Acima[s] /\ Mostra(w, MenuDe[s])
    <2>1. MenuDe[s] # Raiz => MenuDe[s] \in Acima[s]
      BY <1>1, OneWayUp
    <2> QED
      BY <1>1, <1>2, <2>1, MenusOfItems DEF Mostra, Trilha
  <1>6. Trilha(u) /\ Mostra(u, MenuDe[s])
    BY <1>1, <1>5, PathCloses
  <1>7. v = focusMenu(u, s, "tecla")
    <2>1. _close(w) = u
      BY Zenon DEF _close
    <2> QED
      BY <2>1, Zenon DEF collapse
  <1> HIDE DEF u, v, s
  <1> QED
    BY <1>1, <1>3, <1>4, <1>6, <1>7, ItemFocused DEF Eventos

\* A place among the items of a menu that can be seen, or of the active menu.
LEMMA PlaceFound ==
  ASSUME NEW w, Firme(w), NEW S \in SUBSET Lugares, S # {},
         S \subseteq De(w.activeMenu) \/ (w.active # Nada /\ S \subseteq De(MenuDe[w.active])),
         NEW k, k = Min(S) \/ k = Max(S)
  PROVE  Itens[k] \in It /\ (Mostra(w, w.activeMenu) => Mostra(w, MenuDe[Itens[k]]))
PROOF
  <1>1. k \in S /\ k \in Lugares
    BY EndsOfPlaces
  <1>2. MenuDe[Itens[k]] = w.activeMenu \/ (w.active # Nada /\ MenuDe[Itens[k]] = MenuDe[w.active])
    BY <1>1 DEF De
  <1> QED
    BY <1>1, <1>2, MenusOfItems DEF Firme, AtivoVisivel

LEMMA PlacesAround ==
  ASSUME NEW w, Firme(w)
  PROVE  /\ Depois(w) \in SUBSET Lugares /\ Antecede(w) \in SUBSET Lugares
         /\ Depois(w) # {} \/ Antecede(w) # {} => w.active # Nada
         /\ Depois(w) \subseteq De(MenuDe[w.active]) /\ Antecede(w) \subseteq De(MenuDe[w.active])
         /\ De(w.activeMenu) \in SUBSET Lugares /\ De(w.activeMenu) # {}
PROOF
  <1>1. w.activeMenu \in Menus
    BY DEF Firme, TipoDoMenu
  <1> QED
    BY <1>1, ItemsOfMenus DEF Depois, Antecede, De, Lugares

LEMMA KeyMoves ==
  ASSUME NEW w, Firme(w), NEW passo \in {1, -1}, NEW longe \in BOOLEAN
  PROVE  LET v == _moveMenu(w, passo, longe) IN
         /\ v.logo = w.logo /\ v.rato = w.rato
         /\ Mostra(w, w.activeMenu) => Firme(v) /\ Mostra(v, v.activeMenu)
PROOF
  <1> DEFINE lado == IF passo = 1 THEN Depois(w) ELSE Antecede(w)
             onde == IF lado # {} THEN lado ELSE De(w.activeMenu)
             k == IF (passo = 1) # longe THEN Min(onde) ELSE Max(onde)
  <1>1. /\ onde \in SUBSET Lugares /\ onde # {}
        /\ onde \subseteq De(w.activeMenu) \/ (w.active # Nada /\ onde \subseteq De(MenuDe[w.active]))
    BY PlacesAround
  <1>2. k = Min(onde) \/ k = Max(onde)
    BY Zenon
  <1>3. _moveMenu(w, passo, longe) = focusMenu(w, Itens[k], "tecla")
    BY Zenon DEF _moveMenu
  <1> HIDE DEF onde, k
  <1>4. Itens[k] \in It /\ (Mostra(w, w.activeMenu) => Mostra(w, MenuDe[Itens[k]]))
    BY <1>1, <1>2, PlaceFound
  <1>5. w \in TipoDoMenu /\ UmTempo(w) /\ Trilha(w)
    BY DEF Firme
  <1> QED
    BY <1>3, <1>4, <1>5, ItemFocused DEF Eventos

LEMMA LetterTyped ==
  ASSUME NEW w, Firme(w), NEW letra \in Letras
  PROVE  LET v == Digitado(w, letra) IN
         /\ v.logo = w.logo /\ v.rato = w.rato
         /\ Mostra(w, w.activeMenu) => Firme(v) /\ Mostra(v, v.activeMenu)
PROOF
  <1> DEFINE achados == Achados(w, letra)
             repetida == w.previousFilter = letra /\ Depois(w) # {} /\ Min(Depois(w)) \in achados
             onde == IF repetida THEN Depois(w) ELSE achados
             v == Digitado(w, letra)
  <1>0. w \in TipoDoMenu /\ UmTempo(w) /\ Trilha(w) /\ Nada \in Letras
    BY DEF Firme, Letras
  <1>1. v = IF onde = {} THEN [w EXCEPT !.previousFilter = Nada]
            ELSE [focusMenu(w, Itens[Min(onde)], "tecla") EXCEPT !.previousFilter = letra]
    BY Zenon DEF Digitado
  <1>2. achados \in SUBSET Lugares /\ achados \subseteq De(w.activeMenu)
    BY PlacesAround DEF Achados
  <1>3. /\ onde \in SUBSET Lugares
        /\ onde \subseteq De(w.activeMenu) \/ (w.active # Nada /\ onde \subseteq De(MenuDe[w.active]))
    BY <1>2, PlacesAround
  <1> HIDE DEF onde, v
  <1>4. CASE onde = {}
    <2>1. v = [w EXCEPT !.previousFilter = Nada]
      BY <1>1, <1>4
    <2>2. /\ v \in TipoDoMenu /\ v.active = w.active /\ v.activeMenu = w.activeMenu
          /\ v.abertos = w.abertos /\ v.fila = w.fila /\ v.semTimer = w.semTimer
          /\ v.logo = w.logo /\ v.rato = w.rato
      BY <1>0, <2>1 DEF TipoDoMenu
    <2> QED
      BY <2>2, FirmStays DEF v, Mostra
  <1>5. CASE onde # {}
    <2> DEFINE k == Min(onde)
               u == focusMenu(w, Itens[k], "tecla")
    <2>1. Itens[k] \in It /\ (Mostra(w, w.activeMenu) => Mostra(w, MenuDe[Itens[k]]))
      BY <1>3, <1>5, PlaceFound
    <2>2. v = [u EXCEPT !.previousFilter = letra]
      BY <1>1, <1>5
    <2> HIDE DEF k
    <2>3. /\ u \in TipoDoMenu /\ u.logo = w.logo /\ u.rato = w.rato
          /\ Mostra(w, w.activeMenu) => Firme(u) /\ Mostra(u, u.activeMenu)
      BY <1>0, <2>1, ItemFocused DEF Eventos
    <2> HIDE DEF u
    <2>4. /\ v \in TipoDoMenu /\ v.active = u.active /\ v.activeMenu = u.activeMenu
          /\ v.abertos = u.abertos /\ v.fila = u.fila /\ v.semTimer = u.semTimer
          /\ v.logo = u.logo /\ v.rato = u.rato
      BY <2>2, <2>3 DEF TipoDoMenu
    <2> QED
      BY <2>3, <2>4, FirmStays DEF v, Mostra
  <1> QED
    BY <1>4, <1>5

\* A delay runs out.
Vencido(w) == [w EXCEPT !.fila = Tail(@), !.semTimer = @ \/ Len(w.fila) = 1]

LEMMA DelayIsOver ==
  ASSUME NEW w, Firme(w), w.fila # <<>>
  PROVE  LET u == Vencido(w) IN
         /\ u \in TipoDoMenu /\ u.fila = <<>> /\ u.semTimer /\ u.active = w.active
         /\ u.activeMenu = w.activeMenu /\ u.abertos = w.abertos /\ u.logo = w.logo /\ u.rato = w.rato
PROOF
  <1> DEFINE vazia == Tail(w.fila)
             sim == w.semTimer \/ Len(w.fila) = 1
             u == Vencido(w)
  <1>0. w \in TipoDoMenu
    BY DEF Firme
  <1>1. vazia \in Seq(TemposDaFila) /\ vazia = <<>> /\ sim \in BOOLEAN /\ sim
    <2>1. PICK x \in TemposDaFila : w.fila = <<x>>
      BY DEF Firme, UmTempo
    <2>2. Tail(<<x>>) = <<>> /\ Len(<<x>>) = 1
      OBVIOUS
    <2>3. <<>> \in Seq(TemposDaFila)
      OBVIOUS
    <2> QED
      BY <2>1, <2>2, <2>3
  <1>2. u = [w EXCEPT !.fila = vazia, !.semTimer = sim]
    BY Zenon DEF Vencido
  <1> HIDE DEF vazia, sim, u
  <1>3. u \in TipoDoMenu
    BY <1>0, <1>1, <1>2 DEF TipoDoMenu
  <1>4. u.fila = vazia /\ u.semTimer = sim
    BY <1>0, <1>1, <1>2 DEF TipoDoMenu
  <1>5. /\ u.active = w.active /\ u.activeMenu = w.activeMenu /\ u.abertos = w.abertos
        /\ u.logo = w.logo /\ u.rato = w.rato
    BY <1>0, <1>1, <1>2 DEF TipoDoMenu
  <1> QED
    BY <1>1, <1>3, <1>4, <1>5 DEF u

LEMMA DelayRunsOut ==
  ASSUME NEW w, Firme(w), w.fila # <<>>,
         NEW u \in TipoDoMenu, u.fila = <<>>, u.semTimer, u.active = w.active,
         u.activeMenu = w.activeMenu, u.abertos = w.abertos, u.logo = w.logo, u.rato = w.rato
  PROVE  LET v == Venceu(u, w.fila[1]) IN
         /\ v.logo = w.logo /\ v.rato = w.rato
         /\ Mostra(w, w.activeMenu) => Firme(v) /\ Mostra(v, v.activeMenu)
PROOF
  <1> DEFINE t == w.fila[1]
             v == Venceu(u, t)
             s == IF w.active = Nada THEN Raiz ELSE MenuDe[w.active]
             c == closeMenu(u, s)
  <1>0. w \in TipoDoMenu /\ Trilha(w) /\ AtivoVisivel(w) /\ FilaOK(w)
    BY DEF Firme
  <1>1. w.fila = <<t>> /\ t \in TemposDaFila /\ ~w.semTimer
    BY DEF Firme, UmTempo
  <1>2. t.tipo \in {"fecha", "abre", "colapsa"} /\ t.alvo \in Menus \cup {Nada}
    BY <1>1 DEF TemposDaFila
  <1>3. /\ u \in TipoDoMenu /\ u.fila = <<>> /\ u.semTimer /\ u.active = w.active
        /\ u.activeMenu = w.activeMenu /\ u.abertos = w.abertos /\ u.logo = w.logo /\ u.rato = w.rato
    OBVIOUS
  <1>4. Trilha(u) /\ UmTempo(u) /\ \A m : Mostra(u, m) <=> Mostra(w, m)
    BY <1>0, <1>3 DEF Trilha, UmTempo, Mostra
  <1>5. s \in Menus /\ Mostra(u, s)
    BY <1>0, <1>4, MenusOfItems DEF AtivoVisivel, TipoDoMenu, Menus, Mostra
  <1>6. _close(u) = c
    <2>1. s = IF u.active = Nada THEN Raiz ELSE MenuDe[u.active]
      BY <1>3
    <2> QED
      BY <2>1, Zenon DEF _close
  <1> HIDE DEF c, s, t
  <1>7. /\ c \in TipoDoMenu /\ c.fila = <<>> /\ c.semTimer /\ c.active = w.active
        /\ c.activeMenu = w.activeMenu /\ c.logo = w.logo /\ c.rato = w.rato
        /\ Trilha(c) /\ Mostra(c, s) /\ UmTempo(c)
    <2> DEFINE x == closeMenu(u, s)
    <2>1. /\ x \in TipoDoMenu /\ x.fila = u.fila /\ x.semTimer = u.semTimer /\ x.active = u.active
          /\ x.activeMenu = u.activeMenu /\ x.logo = u.logo /\ x.rato = u.rato
      BY <1>3, MenusClosed
    <2>2. Trilha(x) /\ Mostra(x, s)
      BY <1>3, <1>4, <1>5, PathCloses
    <2> HIDE DEF x
    <2>3. UmTempo(x)
      BY <1>3, <2>1 DEF UmTempo
    <2> QED
      BY <1>3, <2>1, <2>2, <2>3 DEF c, x
  <1>8. t.tipo \in {"fecha", "abre"} => w.active \in It /\ w.activeMenu = MenuDe[w.active] /\ s = MenuDe[w.active]
    BY <1>0, <1>1 DEF FilaOK, TipoDoMenu, s, t
  <1>9. CASE t.tipo = "fecha"
    <2>1. v = c
      BY <1>6, <1>9 DEF Venceu
    <2>2. Firme(c) /\ Mostra(c, c.activeMenu)
      BY <1>7, <1>8, <1>9 DEF Firme, AtivoVisivel, FilaOK
    <2> QED
      BY <1>7, <2>1, <2>2 DEF t
  <1>10. CASE t.tipo = "abre"
    <2>1. t.alvo = w.active /\ t.alvo \in Submenus
      BY <1>0, <1>1, <1>10 DEF FilaOK, t
    <2> DEFINE a == _openMenu(c, t.alvo)
    <2>2. v = a
      BY <1>6, <1>10 DEF Venceu
    <2>3. Mostra(c, MenuDe[t.alvo])
      BY <1>7, <1>8, <1>10, <2>1
    <2>4. /\ a \in TipoDoMenu /\ UmTempo(a) /\ Trilha(a) /\ a.fila = <<>>
          /\ Mostra(a, MenuDe[t.alvo]) /\ a.active = w.active /\ a.activeMenu = w.activeMenu
          /\ a.logo = w.logo /\ a.rato = w.rato
      BY <1>7, <2>1, <2>3, PathOpens
    <2> HIDE DEF a
    <2>5. Firme(a) /\ Mostra(a, a.activeMenu)
      BY <1>8, <1>10, <2>1, <2>4 DEF Firme, AtivoVisivel, FilaOK
    <2> QED
      BY <2>2, <2>4, <2>5 DEF t
  <1>11. CASE t.tipo = "colapsa"
    <2> DEFINE m == t.alvo
               e == closeMenu(u, m)
               f == clearTimeout(e)
               x == Focado(f, Nada, m)
    <2>1. m \in Menus /\ Mostra(u, m)
      BY <1>0, <1>1, <1>4, <1>11 DEF FilaOK, t
    <2>2. /\ e \in TipoDoMenu /\ e.fila = <<>> /\ e.semTimer /\ e.logo = w.logo /\ e.rato = w.rato
          /\ Trilha(e) /\ Mostra(e, m)
      <3>1. e \in TipoDoMenu /\ e.fila = u.fila /\ e.semTimer = u.semTimer /\ e.logo = u.logo /\ e.rato = u.rato
        BY <1>3, MenusClosed
      <3>2. Trilha(e) /\ Mostra(e, m)
        BY <1>3, <1>4, <2>1, PathCloses
      <3> QED
        BY <1>3, <3>1, <3>2
    <2>3. f \in TipoDoMenu /\ f.fila = <<>> /\ f.semTimer /\ MesmoMenu(f, e)
      BY <2>2, TimerCleared DEF UmTempo
    <2>4. v = x
      <3>1. v = [blurMenu(e, FALSE) EXCEPT !.activeMenu = m]
        BY <1>11 DEF Venceu
      <3>2. blurMenu(e, FALSE) = [f EXCEPT !.active = Nada]
        BY Zenon DEF blurMenu
      <3> HIDE DEF f, m, v, e
      <3>3. [[f EXCEPT !.active = Nada] EXCEPT !.activeMenu = m]
              = [f EXCEPT !.active = Nada, !.activeMenu = m]
        BY <2>3 DEF TipoDoMenu
      <3> QED
        BY <3>1, <3>2, <3>3 DEF Focado
    <2> HIDE DEF e, f, m, v
    <2>5. /\ x \in TipoDoMenu /\ x.active = Nada /\ x.activeMenu = m /\ x.abertos = f.abertos
          /\ x.fila = <<>> /\ x.semTimer /\ x.logo = f.logo /\ x.rato = f.rato
      <3>1. Nada \in It \cup {Nada}
        OBVIOUS
      <3>2. /\ x \in TipoDoMenu /\ x.active = Nada /\ x.activeMenu = m /\ x.abertos = f.abertos
            /\ x.fila = f.fila /\ x.semTimer = f.semTimer /\ x.logo = f.logo /\ x.rato = f.rato
        BY <2>1, <2>3, <3>1, FocusedItem
      <3> HIDE DEF x
      <3> QED
        BY <2>3, <3>2
    <2> HIDE DEF x
    <2>6. Trilha(x) /\ Mostra(x, m) /\ x.logo = w.logo /\ x.rato = w.rato
      BY <2>2, <2>3, <2>5 DEF Trilha, Mostra, MesmoMenu
    <2>7. Firme(x) /\ Mostra(x, x.activeMenu)
      BY <2>5, <2>6 DEF Firme, UmTempo, AtivoVisivel, FilaOK
    <2> QED
      BY <2>4, <2>6, <2>7 DEF v, t
  <1> QED
    BY <1>2, <1>9, <1>10, <1>11

Esperados(w) == {t \in w.logo : DeExpansao(t)}

\* Something passes in a moment: the first item of a submenu gets the focus, or
\* the menu, which lost it, is to close.
LEMMA MomentPasses ==
  ASSUME NEW w, MenuOK(w), NEW t \in w.logo, NEW u, Firme(u),
         u.activeMenu = w.activeMenu, u.abertos = w.abertos, u.logo = w.logo \ {t}, u.rato = w.rato
  PROVE  LET v == Venceu(u, t) IN
         /\ v.logo = w.logo \ {t} /\ v.rato = w.rato
         /\ Firme(v) /\ (DeExpansao(t) \/ Mostra(w, w.activeMenu) => Mostra(v, v.activeMenu))
PROOF
  <1> DEFINE v == Venceu(u, t)
  <1>1. Firme(w) /\ t \in TemposBreves
    BY DEF MenuOK, Firme, TipoDoMenu
  <1>2. Firme(u) /\ \A m : Mostra(u, m) <=> Mostra(w, m)
    BY DEF Mostra
  <1>3. CASE DeExpansao(t)
    <2>1. v = focusMenu(u, t.alvo, t.tipo)
      BY <1>3 DEF DeExpansao, Venceu
    <2>2. t.alvo \in It /\ Mostra(u, MenuDe[t.alvo]) /\ t.tipo \in Eventos /\ t.tipo # "foco"
      BY <1>2, <1>3 DEF MenuOK, DeExpansao, Eventos
    <2> DEFINE f == focusMenu(u, t.alvo, t.tipo)
    <2>3. f.logo = u.logo /\ f.rato = u.rato /\ Firme(f) /\ Mostra(f, f.activeMenu)
      BY <1>2, <2>2, ItemFocused DEF Firme
    <2> HIDE DEF f
    <2> QED
      BY <2>1, <2>3 DEF f
  <1>4. CASE ~DeExpansao(t)
    <2>1. t.tipo = "perdeu"
      BY <1>1, <1>4 DEF TemposBreves, DeExpansao
    <2>2. t.alvo = Raiz /\ Mostra(u, Raiz) /\ Raiz \in Menus
      BY <1>1, <2>1 DEF TemposBreves, Mostra, Menus
    <2> DEFINE c == collapseAll(u, Raiz)
    <2>3. v = u \/ v = c
      BY <2>1, <2>2 DEF Venceu
    <2>4. Firme(c) /\ MesmoMenu(c, u)
      BY <1>2, <2>2, CollapseAsked
    <2> HIDE DEF c, v
    <2> QED
      BY <1>2, <1>4, <2>3, <2>4 DEF MesmoMenu, Mostra, v
  <1> QED
    BY <1>3, <1>4

----------------------------------------------------------------------------
(* Steps of the menu *)

RatoVisivel(w) == w.rato # Nada => Mostra(w, MenuDe[w.rato])

\* A step that leaves alone what waits for a moment, and one that adds to it or
\* takes it away.
LEMMA QuietStep ==
  ASSUME NEW w, NEW v, MenuOK(w), Esperados(v) = Esperados(w), RatoVisivel(v), ~(Espera(w) /\ Espera(v)),
         Mostra(w, w.activeMenu) => Firme(v) /\ Mostra(v, v.activeMenu)
  PROVE  MenuOK(v)
PROOF
  <1>1. Espera(w) <=> Espera(v)
    BY DEF Espera, Esperados
  <1>2. ~Espera(v) /\ Mostra(w, w.activeMenu)
    BY <1>1 DEF MenuOK
  <1> QED
    BY <1>2 DEF MenuOK, Espera, RatoVisivel

LEMMA OpeningStep ==
  ASSUME NEW w, NEW v, NEW t, Expandida(v, w, t), RatoVisivel(v), ~(Espera(w) /\ Espera(v)), Firme(v)
  PROVE  MenuOK(v)
PROOF
  <1>1. Espera(v) /\ ~Espera(w)
    BY DEF Espera, Expandida
  <1>2. \A x \in v.logo : DeExpansao(x) => x = t
    BY <1>1 DEF Espera, Expandida
  <1> QED
    BY <1>1, <1>2 DEF MenuOK, Expandida, RatoVisivel

LEMMA MomentStep ==
  ASSUME NEW w, NEW v, MenuOK(w), NEW t \in w.logo, v.logo = w.logo \ {t}, RatoVisivel(v),
         ~(Espera(w) /\ Espera(v)), Firme(v),
         DeExpansao(t) \/ Mostra(w, w.activeMenu) => Mostra(v, v.activeMenu)
  PROVE  MenuOK(v)
PROOF
  <1>1. CASE DeExpansao(t)
    BY <1>1 DEF MenuOK, Espera, RatoVisivel
  <1>2. CASE ~DeExpansao(t)
    <2>1. Esperados(v) = Esperados(w)
      BY <1>2 DEF Esperados
    <2> QED
      BY <2>1, QuietStep
  <1> QED
    BY <1>1, <1>2

\* What a handler changes that no menu depends on.
ComRato(w, i) == [w EXCEPT !.rato = i]
ComFoco(w, b) == [w EXCEPT !.noFoco = b]
ComLogo(w, L) == [w EXCEPT !.logo = L]
ComFiltro(w, c) == [w EXCEPT !.previousFilter = c]

LEMMA OddsAndEnds ==
  ASSUME NEW w, Firme(w)
  PROVE  /\ \A i \in It \cup {Nada} : LET v == ComRato(w, i) IN
              Firme(v) /\ v.rato = i /\ v.logo = w.logo /\ v.abertos = w.abertos
              /\ v.activeMenu = w.activeMenu
         /\ \A b \in BOOLEAN : LET v == ComFoco(w, b) IN
              Firme(v) /\ v.rato = w.rato /\ v.logo = w.logo /\ v.abertos = w.abertos
              /\ v.activeMenu = w.activeMenu
         /\ \A L \in SUBSET TemposBreves : LET v == ComLogo(w, L) IN
              Firme(v) /\ v.rato = w.rato /\ v.logo = L /\ v.abertos = w.abertos
              /\ v.activeMenu = w.activeMenu
         /\ \A c \in Letras : LET v == ComFiltro(w, c) IN
              Firme(v) /\ v.rato = w.rato /\ v.logo = w.logo /\ v.abertos = w.abertos
              /\ v.activeMenu = w.activeMenu
PROOF
  <1>0. w \in TipoDoMenu
    BY DEF Firme
  <1>1. ASSUME NEW i \in It \cup {Nada}
        PROVE  LET v == ComRato(w, i) IN
               Firme(v) /\ v.rato = i /\ v.logo = w.logo /\ v.abertos = w.abertos
               /\ v.activeMenu = w.activeMenu
    <2> DEFINE v == ComRato(w, i)
    <2>1. v \in TipoDoMenu
      BY <1>0 DEF TipoDoMenu, ComRato
    <2>2. /\ v.rato = i /\ v.logo = w.logo /\ v.abertos = w.abertos /\ v.activeMenu = w.activeMenu
          /\ v.active = w.active /\ v.fila = w.fila /\ v.semTimer = w.semTimer
      BY <1>0 DEF TipoDoMenu, ComRato
    <2> HIDE DEF v
    <2> QED
      BY <2>1, <2>2, FirmStays DEF v
  <1>2. ASSUME NEW b \in BOOLEAN
        PROVE  LET v == ComFoco(w, b) IN
               Firme(v) /\ v.rato = w.rato /\ v.logo = w.logo /\ v.abertos = w.abertos
               /\ v.activeMenu = w.activeMenu
    <2> DEFINE v == ComFoco(w, b)
    <2>1. v \in TipoDoMenu
      BY <1>0 DEF TipoDoMenu, ComFoco
    <2>2. /\ v.rato = w.rato /\ v.logo = w.logo /\ v.abertos = w.abertos /\ v.activeMenu = w.activeMenu
          /\ v.active = w.active /\ v.fila = w.fila /\ v.semTimer = w.semTimer
      BY <1>0 DEF TipoDoMenu, ComFoco
    <2> HIDE DEF v
    <2> QED
      BY <2>1, <2>2, FirmStays DEF v
  <1>3. ASSUME NEW L \in SUBSET TemposBreves
        PROVE  LET v == ComLogo(w, L) IN
               Firme(v) /\ v.rato = w.rato /\ v.logo = L /\ v.abertos = w.abertos
               /\ v.activeMenu = w.activeMenu
    <2> DEFINE v == ComLogo(w, L)
    <2>1. v \in TipoDoMenu
      BY <1>0 DEF TipoDoMenu, ComLogo
    <2>2. /\ v.rato = w.rato /\ v.logo = L /\ v.abertos = w.abertos /\ v.activeMenu = w.activeMenu
          /\ v.active = w.active /\ v.fila = w.fila /\ v.semTimer = w.semTimer
      BY <1>0 DEF TipoDoMenu, ComLogo
    <2> HIDE DEF v
    <2> QED
      BY <2>1, <2>2, FirmStays DEF v
  <1>4. ASSUME NEW c \in Letras
        PROVE  LET v == ComFiltro(w, c) IN
               Firme(v) /\ v.rato = w.rato /\ v.logo = w.logo /\ v.abertos = w.abertos
               /\ v.activeMenu = w.activeMenu
    <2> DEFINE v == ComFiltro(w, c)
    <2>1. v \in TipoDoMenu
      BY <1>0 DEF TipoDoMenu, ComFiltro
    <2>2. /\ v.rato = w.rato /\ v.logo = w.logo /\ v.abertos = w.abertos /\ v.activeMenu = w.activeMenu
          /\ v.active = w.active /\ v.fila = w.fila /\ v.semTimer = w.semTimer
      BY <1>0 DEF TipoDoMenu, ComFiltro
    <2> HIDE DEF v
    <2> QED
      BY <2>1, <2>2, FirmStays DEF v
  <1> QED
    BY <1>1, <1>2, <1>3, <1>4

LEMMA FocusDelays ==
  ASSUME NEW w \in TipoDoMenu, NEW item \in It
  PROVE  LET v == focusMenu(w, item, "foco") IN
         v \in TipoDoMenu /\ Len(v.fila) = Len(w.fila) + 1
PROOF
  <1> DEFINE m == MenuDe[item]
             u == Focado(w, item, m)
             t == [tipo |-> "fecha", alvo |-> Nada]
             f == Append(u.fila, t)
             nao == FALSE
             v == focusMenu(w, item, "foco")
  <1>0. m \in Menus
    BY MenusOfItems
  <1>1. u = [[w EXCEPT !.active = Nada] EXCEPT !.active = item, !.activeMenu = m]
    <2> HIDE DEF m
    <2> QED
      BY DEF TipoDoMenu, Focado
  <1>2. v = Adia(u, "fecha", Nada)
    <2>1. blurMenu(w, "foco" = "foco") = [w EXCEPT !.active = Nada]
      BY Zenon DEF blurMenu
    <2>2. "foco" # "tecla" /\ "foco" # "mouse"
      OBVIOUS
    <2> HIDE DEF u
    <2> QED
      BY <1>1, <2>1, <2>2, Zenon DEF focusMenu
  <1>3. u \in TipoDoMenu /\ u.fila = w.fila
    BY <1>0, FocusedItem
  <1> HIDE DEF u
  <1>4. v = [u EXCEPT !.fila = f, !.semTimer = nao]
    BY <1>2, Zenon DEF Adia
  <1>5. nao \in BOOLEAN /\ t \in TemposDaFila
    BY DEF TemposDaFila
  <1> HIDE DEF v, nao, t
  <1>6. f \in Seq(TemposDaFila) /\ Len(f) = Len(w.fila) + 1
    BY <1>3, <1>5 DEF TipoDoMenu
  <1> HIDE DEF f
  <1>7. v \in TipoDoMenu
    BY <1>3, <1>4, <1>5, <1>6 DEF TipoDoMenu
  <1>8. v.fila = f
    BY <1>3, <1>4, <1>5, <1>6 DEF TipoDoMenu
  <1> QED
    BY <1>6, <1>7, <1>8 DEF v

\* What a step comes to.
Tranquilo(v, w) ==
  /\ Esperados(v) = Esperados(w)
  /\ Mostra(w, w.activeMenu) => Firme(v) /\ Mostra(v, v.activeMenu)

AbreAgora(v, w) == Firme(v) /\ \E t \in TemposBreves : Expandida(v, w, t)

PassaAgora(v, w) ==
  \E t \in w.logo : /\ v.logo = w.logo \ {t} /\ Firme(v)
                    /\ DeExpansao(t) \/ Mostra(w, w.activeMenu) => Mostra(v, v.activeMenu)

LEMMA SameIsQuiet ==
  ASSUME NEW w, NEW v, Firme(v), v.logo = w.logo, v.abertos = w.abertos, v.activeMenu = w.activeMenu
  PROVE  Tranquilo(v, w)
  BY DEF Tranquilo, Esperados, Mostra

LEMMA MouseEnters ==
  ASSUME MenuOK(menu), NEW i \in It, mouseenter(i)
  PROVE  Tranquilo(menu', menu)
PROOF
  <1> DEFINE s == Saida(menu, i)
             w == ComRato(s, i)
  <1>1. Firme(s) /\ s.logo = menu.logo /\ s.abertos = menu.abertos /\ s.activeMenu = menu.activeMenu
    <2>1. CASE s = menu
      BY <2>1 DEF MenuOK
    <2>2. CASE s # menu
      <3>1. menu.rato # Nada /\ s = collapseAll(menu, MenuDe[menu.rato])
        BY <2>2, Zenon DEF Saida
      <3>2. menu.rato \in It /\ MenuDe[menu.rato] \in Menus
        BY <3>1, MenusOfItems DEF MenuOK, Firme, TipoDoMenu
      <3> HIDE DEF s
      <3> QED
        BY <3>1, <3>2, CollapseAsked DEF MenuOK, MesmoMenu
    <2> QED
      BY <2>1, <2>2
  <1> HIDE DEF s
  <1>2. Firme(w) /\ w.logo = menu.logo /\ w.abertos = menu.abertos /\ w.activeMenu = menu.activeMenu
    BY <1>1, OddsAndEnds
  <1>3. menu' = w \/ menu' = focusMenu(w, i, "mouse")
    BY Zenon DEF mouseenter, ComRato, s
  <1>4. Mostra(w, MenuDe[i])
    BY <1>2 DEF mouseenter, Visivel, Mostra
  <1> HIDE DEF w
  <1>5. CASE menu' = w
    BY <1>2, <1>5, SameIsQuiet
  <1>6. CASE menu' = focusMenu(w, i, "mouse")
    <2> DEFINE v == focusMenu(w, i, "mouse")
    <2>1. v.logo = w.logo /\ Firme(v) /\ Mostra(v, v.activeMenu)
      BY <1>2, <1>4, ItemFocused DEF Firme, Eventos
    <2> HIDE DEF v
    <2>2. Tranquilo(v, menu)
      BY <1>2, <2>1 DEF Tranquilo, Esperados
    <2> QED
      BY <1>6, <2>2 DEF v
  <1> QED
    BY <1>3, <1>5, <1>6

LEMMA MouseLeaves ==
  ASSUME MenuOK(menu), mouseleave
  PROVE  Tranquilo(menu', menu)
PROOF
  <1> DEFINE c == collapseAll(menu, MenuDe[menu.rato])
  <1>1. menu.rato \in It /\ MenuDe[menu.rato] \in Menus
    BY MenusOfItems DEF MenuOK, Firme, TipoDoMenu, mouseleave
  <1>2. Firme(c) /\ MesmoMenu(c, menu)
    BY <1>1, CollapseAsked, MenusOfItems DEF MenuOK
  <1>3. menu' = ComRato(c, Nada)
    BY Zenon DEF mouseleave, ComRato
  <1> HIDE DEF c
  <1>4. Firme(menu') /\ menu'.logo = menu.logo /\ menu'.abertos = menu.abertos
        /\ menu'.activeMenu = menu.activeMenu
    BY <1>2, <1>3, OddsAndEnds DEF MesmoMenu
  <1> QED
    BY <1>4, SameIsQuiet

LEMMA MenuExpands ==
  ASSUME MenuOK(menu), NEW w, Firme(w), w.logo = menu.logo, w.abertos = menu.abertos,
         w.activeMenu = menu.activeMenu, NEW evento \in {"tecla", "clique"}, menu' = expand(w, evento)
  PROVE  Tranquilo(menu', menu) \/ AbreAgora(menu', menu)
PROOF
  <1> DEFINE v == expand(w, evento)
  <1>1. v = w \/ (Firme(v) /\ \E t \in TemposBreves : Expandida(v, w, t))
    BY ItemExpanded
  <1> HIDE DEF v
  <1>2. v = w => Tranquilo(v, menu)
    BY SameIsQuiet
  <1>3. Firme(v) /\ (\E t \in TemposBreves : Expandida(v, w, t)) => AbreAgora(v, menu)
    BY DEF AbreAgora, Expandida
  <1> QED
    BY <1>1, <1>2, <1>3 DEF v

LEMMA MenuClicked ==
  ASSUME MenuOK(menu), clickMenu
  PROVE  Tranquilo(menu', menu) \/ AbreAgora(menu', menu)
PROOF
  <1> DEFINE i == menu.rato
             s == select(menu, i)
             sim == TRUE
  <1>1. i \in It /\ Firme(menu) /\ Mostra(menu, MenuDe[i])
    BY DEF clickMenu, MenuOK, Firme, TipoDoMenu
  <1>2. Firme(s) /\ s.logo = menu.logo /\ s.abertos = menu.abertos /\ s.activeMenu = menu.activeMenu
    BY <1>1, ItemChosen
  <1>3. menu' = expand(s, "clique") \/ menu' = s \/ menu' = ComFoco(s, sim)
    BY Zenon DEF clickMenu, ComFoco
  <1>4. sim \in BOOLEAN
    OBVIOUS
  <1> HIDE DEF s, sim
  <1>5. CASE menu' = expand(s, "clique")
    BY <1>2, <1>5, MenuExpands
  <1>6. CASE menu' = s
    BY <1>2, <1>6, SameIsQuiet
  <1>7. CASE menu' = ComFoco(s, sim)
    <2>1. Firme(menu') /\ menu'.logo = menu.logo /\ menu'.abertos = menu.abertos
          /\ menu'.activeMenu = menu.activeMenu
      BY <1>2, <1>4, <1>7, OddsAndEnds
    <2> QED
      BY <2>1, SameIsQuiet
  <1> QED
    BY <1>3, <1>5, <1>6, <1>7

LEMMA ClickedElsewhere ==
  ASSUME MenuOK(menu), clickFora
  PROVE  Tranquilo(menu', menu)
PROOF
  <1> DEFINE c == collapseAll(menu, Raiz)
             nao == FALSE
  <1>1. Firme(c) /\ MesmoMenu(c, menu)
    BY CollapseAsked DEF MenuOK, Mostra, Menus
  <1>2. menu' = ComFoco(c, nao) /\ nao \in BOOLEAN
    BY Zenon DEF clickFora, ComFoco
  <1> HIDE DEF c, nao
  <1>3. Firme(menu') /\ menu'.logo = menu.logo /\ menu'.abertos = menu.abertos
        /\ menu'.activeMenu = menu.activeMenu
    BY <1>1, <1>2, OddsAndEnds DEF MesmoMenu
  <1> QED
    BY <1>3, SameIsQuiet

LEMMA MenuGetsFocus ==
  ASSUME MenuOK(menu), ganhaFocoMenu, ~(Len(menu'.fila) > 1)
  PROVE  Tranquilo(menu', menu)
PROOF
  <1> DEFINE i == IF menu.active = Nada THEN Primeiro(Raiz) ELSE menu.active
             v == focusMenu(menu, i, "foco")
             sim == TRUE
  <1>1. i \in It /\ Mostra(menu, MenuDe[i]) /\ menu \in TipoDoMenu /\ Firme(menu)
    <2>1. CASE menu.active = Nada
      BY <2>1, FirstOfMenu DEF MenuOK, Firme, Menus, Mostra
    <2>2. CASE menu.active # Nada
      BY <2>2 DEF MenuOK, Firme, AtivoVisivel, TipoDoMenu
    <2> QED
      BY <2>1, <2>2
  <1>2. menu' = ComFoco(v, sim) /\ sim \in BOOLEAN
    BY Zenon DEF ganhaFocoMenu, ComFoco
  <1> HIDE DEF i, sim
  <1>3. v \in TipoDoMenu /\ Len(v.fila) = Len(menu.fila) + 1
    BY <1>1, FocusDelays
  <1>4. menu'.fila = v.fila
    <2> HIDE DEF v
    <2> QED
      BY <1>2, <1>3 DEF TipoDoMenu, ComFoco
  <1>5. menu.fila = <<>>
    BY <1>1, <1>3, <1>4 DEF Firme, UmTempo
  <1>6. v.logo = menu.logo /\ Firme(v) /\ Mostra(v, v.activeMenu)
    BY <1>1, <1>5, ItemFocused DEF Firme, Eventos
  <1> HIDE DEF v
  <1>7. Firme(menu') /\ menu'.logo = menu.logo /\ Mostra(menu', menu'.activeMenu)
    BY <1>2, <1>6, OddsAndEnds DEF Mostra
  <1> QED
    BY <1>7 DEF Tranquilo, Esperados

LEMMA MenuLosesFocus ==
  ASSUME MenuOK(menu), perdeFocoMenu
  PROVE  Tranquilo(menu', menu)
PROOF
  <1> DEFINE nao == FALSE
             t == [tipo |-> "perdeu", alvo |-> Raiz]
             L == menu.logo \cup {t}
             w == ComFoco(menu, nao)
  <1>1. nao \in BOOLEAN /\ t \in TemposBreves /\ ~DeExpansao(t)
    BY DEF TemposBreves, DeExpansao
  <1>2. Firme(menu) /\ menu \in TipoDoMenu /\ L \in SUBSET TemposBreves
    BY <1>1 DEF MenuOK, Firme, TipoDoMenu
  <1>3. menu' = ComLogo(w, L)
    <2>1. menu' = [menu EXCEPT !.noFoco = nao, !.logo = L]
      BY Zenon DEF perdeFocoMenu
    <2>2. [menu EXCEPT !.noFoco = nao, !.logo = L] = [[menu EXCEPT !.noFoco = nao] EXCEPT !.logo = L]
      <3> HIDE DEF L, nao
      <3> QED
        BY <1>2 DEF TipoDoMenu
    <2> QED
      BY <2>1, <2>2 DEF ComFoco, ComLogo
  <1> HIDE DEF nao, t
  <1>4. Firme(w) /\ w.logo = menu.logo /\ w.abertos = menu.abertos /\ w.activeMenu = menu.activeMenu
    BY <1>1, <1>2, OddsAndEnds
  <1> HIDE DEF w, L
  <1>5. Firme(menu') /\ menu'.logo = L /\ menu'.abertos = menu.abertos /\ menu'.activeMenu = menu.activeMenu
    BY <1>2, <1>3, <1>4, OddsAndEnds
  <1>6. Esperados(menu') = Esperados(menu)
    BY <1>1, <1>5 DEF Esperados, L
  <1> QED
    BY <1>5, <1>6 DEF Tranquilo, Mostra

LEMMA MenuKeyPressed ==
  ASSUME MenuOK(menu), keydownMenu
  PROVE  Tranquilo(menu', menu) \/ AbreAgora(menu', menu)
PROOF
  <1>0. Firme(menu)
    BY DEF MenuOK
  <1>1. ASSUME NEW passo \in {1, -1}, NEW longe \in BOOLEAN, menu' = _moveMenu(menu, passo, longe)
        PROVE  Tranquilo(menu', menu)
    <2> DEFINE v == _moveMenu(menu, passo, longe)
    <2>1. v.logo = menu.logo /\ (Mostra(menu, menu.activeMenu) => Firme(v) /\ Mostra(v, v.activeMenu))
      BY <1>0, KeyMoves
    <2> HIDE DEF v
    <2>2. Tranquilo(v, menu)
      BY <2>1 DEF Tranquilo, Esperados
    <2> QED
      BY <1>1, <2>2 DEF v
  <1>2. CASE menu' = collapse(menu)
    <2> DEFINE v == collapse(menu)
    <2>1. v = menu \/ (Firme(v) /\ Mostra(v, v.activeMenu) /\ v.logo = menu.logo)
      BY <1>0, MenuCollapsed
    <2> HIDE DEF v
    <2>2. Tranquilo(v, menu)
      BY <1>0, <2>1 DEF Tranquilo, Esperados
    <2> QED
      BY <1>2, <2>2 DEF v
  <1>3. CASE menu' = expand(menu, "tecla")
    BY <1>0, <1>3, MenuExpands
  <1>4. CASE menu' = menu
    BY <1>0, <1>4, SameIsQuiet
  <1>5. CASE menu.active # Nada /\ menu' = select(menu, menu.active)
    <2> DEFINE v == select(menu, menu.active)
    <2>1. menu.active \in It /\ Mostra(menu, MenuDe[menu.active])
      BY <1>0, <1>5 DEF Firme, TipoDoMenu, AtivoVisivel
    <2>2. Firme(v) /\ v.logo = menu.logo /\ v.abertos = menu.abertos /\ v.activeMenu = menu.activeMenu
      BY <1>0, <2>1, ItemChosen
    <2> HIDE DEF v
    <2>3. Tranquilo(v, menu)
      BY <2>2, SameIsQuiet
    <2> QED
      BY <1>5, <2>3 DEF v
  <1>6. ASSUME NEW i \in It, menu' = Digitado(menu, LetraDe[i])
        PROVE  Tranquilo(menu', menu)
    <2> DEFINE v == Digitado(menu, LetraDe[i])
    <2>1. v.logo = menu.logo /\ (Mostra(menu, menu.activeMenu) => Firme(v) /\ Mostra(v, v.activeMenu))
      BY <1>0, LetterTyped DEF Letras
    <2> HIDE DEF v
    <2>2. Tranquilo(v, menu)
      BY <2>1 DEF Tranquilo, Esperados
    <2> QED
      BY <1>6, <2>2 DEF v
  <1>7. \/ \E passo \in {1, -1}, longe \in BOOLEAN : menu' = _moveMenu(menu, passo, longe)
        \/ menu' = collapse(menu) \/ menu' = expand(menu, "tecla") \/ menu' = menu
        \/ menu.active # Nada /\ menu' = select(menu, menu.active)
        \/ \E i \in It : menu' = Digitado(menu, LetraDe[i])
    BY Zenon DEF keydownMenu
  <1> QED
    BY <1>1, <1>2, <1>3, <1>4, <1>5, <1>6, <1>7

LEMMA TimePasses ==
  ASSUME MenuOK(menu), timeout
  PROVE  Tranquilo(menu', menu) \/ PassaAgora(menu', menu)
PROOF
  <1>0. Firme(menu)
    BY DEF MenuOK
  <1>1. CASE menu.fila # <<>> /\ menu' = Venceu(Vencido(menu), menu.fila[1])
    <2> DEFINE u == Vencido(menu)
               v == Venceu(u, menu.fila[1])
    <2>1. /\ u \in TipoDoMenu /\ u.fila = <<>> /\ u.semTimer /\ u.active = menu.active
          /\ u.activeMenu = menu.activeMenu /\ u.abertos = menu.abertos /\ u.logo = menu.logo
          /\ u.rato = menu.rato
      BY <1>0, <1>1, DelayIsOver
    <2> HIDE DEF u
    <2>2. v.logo = menu.logo /\ (Mostra(menu, menu.activeMenu) => Firme(v) /\ Mostra(v, v.activeMenu))
      BY <1>0, <1>1, <2>1, DelayRunsOut
    <2> HIDE DEF v
    <2>3. Tranquilo(v, menu)
      BY <2>2 DEF Tranquilo, Esperados
    <2> QED
      BY <1>1, <2>3 DEF u, v
  <1>2. ASSUME NEW t \in menu.logo, menu' = Venceu(ComLogo(menu, menu.logo \ {t}), t)
        PROVE  PassaAgora(menu', menu)
    <2> DEFINE u == ComLogo(menu, menu.logo \ {t})
               v == Venceu(u, t)
    <2>1. menu.logo \ {t} \in SUBSET TemposBreves
      BY <1>0 DEF Firme, TipoDoMenu
    <2>2. Firme(u) /\ u.rato = menu.rato /\ u.logo = menu.logo \ {t} /\ u.abertos = menu.abertos
          /\ u.activeMenu = menu.activeMenu
      BY <1>0, <2>1, OddsAndEnds
    <2> HIDE DEF u
    <2>3. /\ v.logo = menu.logo \ {t} /\ Firme(v)
          /\ DeExpansao(t) \/ Mostra(menu, menu.activeMenu) => Mostra(v, v.activeMenu)
      BY <2>2, MomentPasses
    <2> HIDE DEF v
    <2>4. PassaAgora(v, menu)
      BY <2>3 DEF PassaAgora
    <2> QED
      BY <1>2, <2>4 DEF u, v
  <1>3. \/ menu.fila # <<>> /\ menu' = Venceu(Vencido(menu), menu.fila[1])
        \/ \E t \in menu.logo : menu' = Venceu(ComLogo(menu, menu.logo \ {t}), t)
    BY Zenon DEF timeout, Vencido, ComLogo
  <1> QED
    BY <1>1, <1>2, <1>3

LEMMA FilterForgotten ==
  ASSUME MenuOK(menu), filterTimer
  PROVE  Tranquilo(menu', menu)
PROOF
  <1>1. menu' = ComFiltro(menu, Nada) /\ Nada \in Letras
    BY DEF filterTimer, ComFiltro, Letras
  <1>2. Firme(menu') /\ menu'.logo = menu.logo /\ menu'.abertos = menu.abertos
        /\ menu'.activeMenu = menu.activeMenu
    BY <1>1, OddsAndEnds DEF MenuOK
  <1> QED
    BY <1>2, SameIsQuiet

LEMMA MenuStep ==
  ASSUME MenuInv, MenuNext
  PROVE  MenuInv'
PROOF
  <1>1. menuCruzado' \in BOOLEAN
    BY Zenon DEF MenuNext
  <1>2. ASSUME ~menuCruzado'
        PROVE  MenuOK(menu)' 
    <2>1. /\ ~menuCruzado /\ ~(Expandindo /\ Expandindo') /\ ~(Len(menu'.fila) > 1) /\ ~SobOcultado'
      BY <1>2, Zenon DEF MenuNext
    <2>2. MenuOK(menu)
      BY <2>1 DEF MenuInv
    <2>3. ~(Espera(menu) /\ Espera(menu'))
      BY <2>1 DEF Expandindo, Espera, DeExpansao
    <2>4. RatoVisivel(menu')
      BY <2>1 DEF SobOcultado, Visivel, RatoVisivel, Mostra
    <2>5. Tranquilo(menu', menu) \/ AbreAgora(menu', menu) \/ PassaAgora(menu', menu)
      <3>1. \/ \E i \in It : mouseenter(i)
            \/ mouseleave \/ clickMenu \/ clickFora \/ ganhaFocoMenu \/ perdeFocoMenu \/ keydownMenu
            \/ timeout \/ filterTimer
        BY Zenon DEF MenuNext
      <3> QED
        BY <2>1, <2>2, <3>1, MouseEnters, MouseLeaves, MenuClicked, ClickedElsewhere, MenuGetsFocus,
           MenuLosesFocus, MenuKeyPressed, TimePasses, FilterForgotten, Zenon
    <2>6. MenuOK(menu')
      BY <2>2, <2>3, <2>4, <2>5, QuietStep, OpeningStep, MomentStep DEF Tranquilo, AbreAgora, PassaAgora
    <2> QED
      BY <2>6 DEF MenuOK, Firme, UmTempo, Trilha, AtivoVisivel, FilaOK, Mostra, Espera, DeExpansao
  <1> QED
    BY <1>1, <1>2 DEF MenuInv

LEMMA MenuBegins == MenuInit => MenuInv
PROOF
  <1> SUFFICES ASSUME MenuInit PROVE MenuOK(menu) /\ menuCruzado = FALSE
    BY DEF MenuInv
  <1> DEFINE vazia == <<>>
             nao == FALSE
             sim == TRUE
  <1>1. vazia \in Seq(TemposDaFila) /\ nao \in BOOLEAN /\ sim \in BOOLEAN /\ vazia = <<>> /\ sim /\ ~nao
    OBVIOUS
  <1>2. menu = [active |-> Nada, activeMenu |-> Raiz, previousFilter |-> Nada, fila |-> vazia,
                semTimer |-> sim, abertos |-> {}, logo |-> {}, rato |-> Nada, noFoco |-> nao]
    BY Zenon DEF MenuInit
  <1> HIDE DEF vazia, sim, nao
  <1>3. menu \in TipoDoMenu
    BY <1>1, <1>2 DEF TipoDoMenu, Menus, Letras
  <1>4. /\ menu.active = Nada /\ menu.activeMenu = Raiz /\ menu.fila = vazia /\ menu.semTimer = sim
        /\ menu.abertos = {} /\ menu.logo = {} /\ menu.rato = Nada
    BY <1>2
  <1>5. Firme(menu)
    BY <1>1, <1>3, <1>4 DEF Firme, UmTempo, Trilha, AtivoVisivel, FilaOK
  <1> QED
    BY <1>4, <1>5 DEF MenuOK, Mostra, MenuInit

LEMMA MenuOnThePage ==
  ASSUME [Next]_vars
  PROVE  MenuNext \/ UNCHANGED menuVars
  BY Zenon DEF Next, vars

LEMMA MenuInvariant == Spec => []MenuInv
PROOF
  <1>1. Init => MenuInv
    BY MenuBegins DEF Init
  <1>2. MenuInv /\ [Next]_vars => MenuInv'
    <2> SUFFICES ASSUME MenuInv, [Next]_vars PROVE MenuInv'
      OBVIOUS
    <2>1. CASE MenuNext
      BY <2>1, MenuStep
    <2>2. CASE UNCHANGED menuVars
      <3>1. menu' = menu /\ menuCruzado' = menuCruzado
        BY <2>2 DEF menuVars
      <3> QED
        BY <3>1 DEF MenuInv, MenuOK, Firme, UmTempo, Trilha, AtivoVisivel, FilaOK, Mostra, Espera, DeExpansao
    <2> QED
      BY <2>1, <2>2, MenuOnThePage
  <1> QED
    BY <1>1, <1>2, PTL DEF Spec

\* The submenus shown are one path, and the active item can be seen (MenuCoerente):
\* of any menus, however deep.
THEOREM MenuIsCoherent == Spec => []MenuCoerente
PROOF
  <1>1. MenuInv => MenuCoerente
    <2> SUFFICES ASSUME MenuOK(menu), ~menuCruzado PROVE MenuCoerente
      BY DEF MenuInv, MenuCoerente
    <2>1. Trilha(menu) /\ AtivoVisivel(menu)
      BY DEF MenuOK, Firme
    <2> QED
      BY <2>1 DEF MenuCoerente, Trilha, AtivoVisivel, Mostra, Visivel
  <1> QED
    BY <1>1, MenuInvariant, PTL

----------------------------------------------------------------------------
(* Tooltips *)

LEMMA WayOut ==
  /\ Dentro[Ninguem] = {}
  /\ \A e \in Elementos :
       /\ Pai[e] \in Elementos \cup {Ninguem} /\ e # Ninguem
       /\ Dentro[e] = {e} \cup Dentro[Pai[e]] /\ e \notin Dentro[Pai[e]]
  /\ \A e \in Elementos \cup {Ninguem} : Dentro[e] \in SUBSET Elementos
  /\ \A e \in Elementos \cup {Ninguem} : \A x \in Dentro[e] : Dentro[x] \subseteq Dentro[e]
PROOF
  <1> DEFINE Lugar == Elementos \cup {Ninguem}
  <1>0. Ninguem \notin Elementos /\ Pai \in [Elementos -> Lugar] /\ \A e \in Elementos : e \notin Dentro[Pai[e]]
    BY ConstantesDaDica
  <1>1. \A e \in Lugar : Dentro[e] = {x \in Elementos : \A S \in SUBSET Lugar : e \in S /\ ParaCima(S) => x \in S}
    BY DEF Dentro
  <1> HIDE DEF Lugar
  <1>2. ASSUME NEW e \in Lugar, NEW S \in SUBSET Lugar, e \in S, ParaCima(S)
        PROVE  Dentro[e] \subseteq S
    BY <1>1, <1>2
  <1>3. Elementos \subseteq Lugar /\ Ninguem \in Lugar /\ Lugar = Elementos \cup {Ninguem}
    BY DEF Lugar
  <1>4. Dentro[Ninguem] = {}
    <2>1. ParaCima({Ninguem}) /\ {Ninguem} \in SUBSET Lugar
      BY <1>3 DEF ParaCima
    <2>2. Dentro[Ninguem] \subseteq {Ninguem}
      BY <1>2, <1>3, <2>1
    <2>3. Ninguem \notin Dentro[Ninguem]
      BY <1>0, <1>1, <1>3
    <2> QED
      BY <2>2, <2>3
  <1>5. ASSUME NEW e \in Lugar
        PROVE  Dentro[e] \in SUBSET Elementos
    BY <1>1
  <1>6. ASSUME NEW e \in Lugar
        PROVE  ParaCima(Dentro[e] \cup {Ninguem})
    <2> SUFFICES ASSUME NEW x \in Dentro[e] PROVE Pai[x] \in Dentro[e] \cup {Ninguem}
      BY DEF ParaCima
    <2>1. x \in Elementos /\ Pai[x] \in Lugar
      BY <1>0, <1>5
    <2>2. ASSUME NEW S \in SUBSET Lugar, e \in S, ParaCima(S)
          PROVE  Pai[x] \in S
      BY <1>0, <1>2, <2>1, <2>2 DEF ParaCima
    <2> QED
      BY <1>1, <1>3, <2>1, <2>2
  <1>7. ASSUME NEW e \in Elementos
        PROVE  e \in Dentro[e]
    BY <1>1, <1>3
  <1>8. ASSUME NEW e \in Lugar, NEW x \in Dentro[e]
        PROVE  Dentro[x] \subseteq Dentro[e]
    <2>1. x \in Lugar /\ Dentro[e] \cup {Ninguem} \in SUBSET Lugar
      BY <1>3, <1>5
    <2>2. Dentro[x] \subseteq Dentro[e] \cup {Ninguem}
      BY <1>2, <1>6, <2>1
    <2> QED
      BY <1>0, <1>5, <2>1, <2>2
  <1>9. ASSUME NEW e \in Elementos
        PROVE  Dentro[e] = {e} \cup Dentro[Pai[e]]
    <2> DEFINE C == {e} \cup Dentro[Pai[e]] \cup {Ninguem}
    <2>1. Pai[e] \in Lugar
      BY <1>0
    <2>2. C \in SUBSET Lugar /\ e \in C
      BY <1>3, <1>5, <2>1
    <2>3. Pai[e] \in Dentro[Pai[e]] \cup {Ninguem}
      BY <1>3, <1>7, <2>1
    <2>4. ParaCima(C)
      BY <1>6, <2>1, <2>3 DEF ParaCima
    <2> HIDE DEF C
    <2>5. Dentro[e] \subseteq C
      BY <1>2, <1>3, <2>2, <2>4
    <2>6. Dentro[e] \subseteq {e} \cup Dentro[Pai[e]]
      BY <1>0, <1>3, <1>5, <2>5 DEF C
    <2>7. Dentro[Pai[e]] \subseteq Dentro[e]
      <3>1. Pai[e] \in Dentro[e] \cup {Ninguem}
        BY <1>0, <1>3, <1>6, <1>7 DEF ParaCima
      <3> QED
        BY <1>3, <1>4, <1>8, <3>1
    <2> QED
      BY <1>7, <2>6, <2>7
  <1> QED
    BY <1>0, <1>3, <1>4, <1>5, <1>8, <1>9

\* Of elements around one some is the closest: else the way up would go past all of
\* them.
LEMMA SomeIsClosest ==
  ASSUME NEW onde \in Elementos \cup {Ninguem}, NEW E \in SUBSET Dentro[onde], E # {}
  PROVE  MaisPerto(E) \in E /\ E \subseteq Dentro[MaisPerto(E)]
PROOF
  <1>1. \E e \in E : E \subseteq Dentro[e]
    <2> SUFFICES ASSUME \A e \in E : ~(E \subseteq Dentro[e]) PROVE FALSE
      OBVIOUS
    <2> DEFINE S == {x \in Elementos \cup {Ninguem} : E \subseteq Dentro[x]}
    <2>1. S \in SUBSET (Elementos \cup {Ninguem}) /\ onde \in S
      OBVIOUS
    <2>2. ASSUME NEW x \in S \ {Ninguem}
          PROVE  Pai[x] \in S
      <3>1. x \in Elementos /\ E \subseteq Dentro[x] /\ x \notin E
        BY <2>2
      <3>2. Dentro[x] = {x} \cup Dentro[Pai[x]] /\ Pai[x] \in Elementos \cup {Ninguem}
        BY <3>1, WayOut
      <3> QED
        BY <3>1, <3>2
    <2>3. ParaCima(S)
      BY <2>2 DEF ParaCima
    <2> HIDE DEF S
    <2>4. Dentro[onde] \subseteq S
      BY <2>1, <2>3 DEF Dentro
    <2> QED
      BY <2>4 DEF S
  <1> QED
    BY <1>1 DEF MaisPerto

Titulos == {"texto", "vazio", "sem"}
QueFecham == {"keyup", "mouseleave", "focusout"}

TipoDaDica ==
  [title : [Elementos -> Titulos], guardado : [Elementos -> Titulos],
   aberta : SUBSET Elementos, tooltip : SUBSET Elementos, parents : SUBSET Elementos,
   eventos : [Elementos -> SUBSET QueFecham], disabled : BOOLEAN,
   disabledTitles : SUBSET Elementos, rato : Elementos \cup {Ninguem}, foco : Elementos \cup {Ninguem}]

\* What is shown has its title kept.
Mostradas(w) ==
  /\ w.tooltip \subseteq w.aberta
  /\ \A e \in w.tooltip : w.guardado[e] = "texto"
  /\ w.disabled => w.tooltip = {}

\* Those whose title was taken for an element inside, and with them all around them.
Abafadas(w) ==
  /\ w.parents \cap w.tooltip = {}
  /\ \A e \in w.parents : w.title[e] # "texto" /\ Dentro[Pai[e]] \subseteq w.parents

\* A title that is away is kept by one of three.
TemTitulo(w, e) ==
  w.title[e] = "texto" \/ e \in w.parents \/ e \in w.tooltip \/ (e \in w.disabledTitles /\ w.guardado[e] = "texto")

Titulados(w) ==
  /\ \A e \in Elementos : TemTitulo(w, e)
  /\ \A e \in w.parents \cap w.disabledTitles : w.guardado[e] # "texto"
  /\ w.disabled \/ w.disabledTitles = {}

Cobre(w) == w \in TipoDaDica /\ Mostradas(w) /\ Abafadas(w) /\ Titulados(w)

\* The mouse or the focus is inside an element that shows one, which closes once it leaves.
Presa(w, e) ==
  \/ "mouseleave" \in w.eventos[e] /\ e \in Dentro[w.rato]
  \/ "focusout" \in w.eventos[e] /\ e \in Dentro[w.foco]

DicaOK(w, desvio) ==
  /\ Cobre(w)
  /\ \A e \in w.tooltip : Presa(w, e)
  /\ desvio \in BOOLEAN /\ (desvio \/ w.parents = {} \/ w.tooltip # {})

\* What closing leaves, one field at a time.
Fechou(v, w, E, tipo) ==
  /\ v \in TipoDaDica
  /\ v.tooltip = w.tooltip \ E /\ v.aberta = w.aberta \ E
  /\ v.parents = IF tipo = "mouseleave" /\ E \cap w.tooltip # {} THEN {} ELSE w.parents
  /\ v.guardado = w.guardado /\ v.disabled = w.disabled /\ v.disabledTitles = w.disabledTitles
  /\ v.rato = w.rato /\ v.foco = w.foco
  /\ \A x \in Elementos :
       /\ v.eventos[x] = IF x \in E \cap w.tooltip THEN {} ELSE w.eventos[x]
       /\ v.title[x] = IF \/ x \in E \cap w.tooltip /\ w.guardado[x] = "texto"
                          \/ x \in w.parents /\ tipo = "mouseleave" /\ E \cap w.tooltip # {}
                       THEN "texto" ELSE w.title[x]

LEMMA ClosedFields ==
  ASSUME NEW w \in TipoDaDica, NEW E \in SUBSET Elementos, NEW tipo
  PROVE  Fechou(closeDica(w, E, tipo), w, E, tipo)
PROOF
  <1> DEFINE abertas == E \cap w.tooltip
             delas == {e \in abertas : w.guardado[e] = "texto"}
             deles == IF tipo = "mouseleave" /\ abertas # {} THEN w.parents ELSE {}
             T == [x \in Elementos |-> IF x \in delas \cup deles THEN "texto" ELSE w.title[x]]
             V == [x \in Elementos |-> IF x \in abertas THEN {} ELSE w.eventos[x]]
             ficam == w.parents \ deles
             mostram == w.tooltip \ E
             restam == w.aberta \ E
             v == closeDica(w, E, tipo)
  <1>1. v = [w EXCEPT !.title = T, !.parents = ficam, !.tooltip = mostram, !.aberta = restam, !.eventos = V]
    BY Zenon DEF closeDica
  <1>2. /\ T \in [Elementos -> Titulos] /\ V \in [Elementos -> SUBSET QueFecham]
        /\ ficam \in SUBSET Elementos /\ mostram \in SUBSET Elementos /\ restam \in SUBSET Elementos
    BY DEF TipoDaDica, Titulos
  <1>3. \A x \in Elementos : T[x] = IF x \in delas \cup deles THEN "texto" ELSE w.title[x]
    OBVIOUS
  <1>4. \A x \in Elementos : V[x] = IF x \in abertas THEN {} ELSE w.eventos[x]
    OBVIOUS
  <1> HIDE DEF T, V, ficam, mostram, restam
  <1>5. v \in TipoDaDica
    BY <1>1, <1>2 DEF TipoDaDica
  <1>6. /\ v.title = T /\ v.parents = ficam /\ v.tooltip = mostram
        /\ v.aberta = restam /\ v.eventos = V
        /\ v.guardado = w.guardado /\ v.disabled = w.disabled /\ v.disabledTitles = w.disabledTitles
        /\ v.rato = w.rato /\ v.foco = w.foco
    BY <1>1 DEF TipoDaDica
  <1> HIDE DEF v
  <1>7. v.parents = IF tipo = "mouseleave" /\ E \cap w.tooltip # {} THEN {} ELSE w.parents
    <2>1. w.parents \ w.parents = {} /\ w.parents \ {} = w.parents
      OBVIOUS
    <2> QED
      BY <1>6, <2>1 DEF ficam
  <1>8. Fechou(v, w, E, tipo)
    BY <1>3, <1>4, <1>5, <1>6, <1>7 DEF Fechou, mostram, restam
  <1> QED
    BY <1>8 DEF v

\* Closing gives back what it should.
LEMMA ClosingKeeps ==
  ASSUME NEW w, Cobre(w), NEW E \in SUBSET Elementos, NEW tipo
  PROVE  Cobre(closeDica(w, E, tipo))
PROOF
  <1> DEFINE v == closeDica(w, E, tipo)
  <1>0. w \in TipoDaDica
    BY DEF Cobre
  <1>1. Fechou(v, w, E, tipo)
    BY <1>0, ClosedFields
  <1> HIDE DEF v
  <1> USE DEF Fechou
  <1>2. w.parents \in SUBSET Elementos /\ w.tooltip \in SUBSET Elementos
    BY <1>0 DEF TipoDaDica
  <1>3. Mostradas(v)
    BY <1>1 DEF Cobre, Mostradas
  <1>4. Abafadas(v)
    <2>1. CASE v.parents = {}
      BY <2>1 DEF Abafadas
    <2>2. CASE v.parents = w.parents /\ ~(tipo = "mouseleave" /\ E \cap w.tooltip # {})
      BY <1>1, <1>2, <2>2 DEF Cobre, Abafadas
    <2> QED
      BY <1>1, <2>1, <2>2
  <1>5. Titulados(v)
    <2>1. ASSUME NEW e \in Elementos
          PROVE  TemTitulo(v, e)
      BY <1>1, <2>1 DEF Cobre, Titulados, TemTitulo, Mostradas
    <2> QED
      BY <1>1, <2>1 DEF Cobre, Titulados
  <1> QED
    BY <1>1, <1>3, <1>4, <1>5 DEF Cobre, v

\* What taking the titles of some elements leaves.
Abafou(v, w, com) ==
  /\ v \in TipoDaDica
  /\ v.tooltip = w.tooltip /\ v.aberta = w.aberta /\ v.parents = w.parents \cup com
  /\ v.guardado = w.guardado /\ v.disabled = w.disabled /\ v.disabledTitles = w.disabledTitles
  /\ v.rato = w.rato /\ v.foco = w.foco /\ v.eventos = w.eventos
  /\ \A x \in Elementos : v.title[x] = IF x \in com THEN "vazio" ELSE w.title[x]

LEMMA SilencedFields ==
  ASSUME NEW w \in TipoDaDica, NEW P \in SUBSET Elementos
  PROVE  LET w1 == closeDica(w, P \cap w.aberta, "blur") IN
         Abafou(abafa(w, P), w1, {p \in P : w1.title[p] = "texto"})
PROOF
  <1> DEFINE w1 == closeDica(w, P \cap w.aberta, "blur")
             com == {p \in P : w1.title[p] = "texto"}
             T == [x \in Elementos |-> IF x \in com THEN "vazio" ELSE w1.title[x]]
             v == abafa(w, P)
  <1>1. w1 \in TipoDaDica
    BY ClosedFields DEF Fechou
  <1>2. v = [w1 EXCEPT !.parents = w1.parents \cup com, !.title = T]
    BY Zenon DEF abafa
  <1> HIDE DEF w1
  <1>3. T \in [Elementos -> Titulos] /\ com \in SUBSET Elementos
    BY <1>1 DEF TipoDaDica, Titulos
  <1>4. \A x \in Elementos : T[x] = IF x \in com THEN "vazio" ELSE w1.title[x]
    OBVIOUS
  <1> HIDE DEF T, com
  <1>5. v \in TipoDaDica
    BY <1>1, <1>2, <1>3 DEF TipoDaDica
  <1>6. /\ v.tooltip = w1.tooltip /\ v.aberta = w1.aberta /\ v.parents = w1.parents \cup com
        /\ v.guardado = w1.guardado /\ v.disabled = w1.disabled /\ v.disabledTitles = w1.disabledTitles
        /\ v.rato = w1.rato /\ v.foco = w1.foco /\ v.eventos = w1.eventos /\ v.title = T
    BY <1>1, <1>2 DEF TipoDaDica
  <1> HIDE DEF v
  <1>7. Abafou(v, w1, com)
    BY <1>4, <1>5, <1>6 DEF Abafou
  <1> QED
    BY <1>7 DEF v, w1, com

\* Silencing all the elements around one leaves each of them silenced.
LEMMA SilencingKeeps ==
  ASSUME NEW w, Cobre(w), ~w.disabled, NEW e \in Elementos
  PROVE  LET v == abafa(w, Dentro[Pai[e]]) IN
         /\ Cobre(v) /\ Dentro[Pai[e]] \subseteq v.parents
         /\ v.rato = w.rato /\ v.foco = w.foco /\ ~v.disabled
         /\ v.guardado[e] = w.guardado[e] /\ v.title[e] = w.title[e] /\ v.aberta \subseteq w.aberta
         /\ e \in w.aberta => e \in v.aberta
         /\ v.tooltip = w.tooltip \ Dentro[Pai[e]]
         /\ \A x \in v.tooltip : v.eventos[x] = w.eventos[x]
         /\ v.parents \subseteq w.parents \cup Dentro[Pai[e]] /\ w.parents \subseteq v.parents
PROOF
  <1> DEFINE P == Dentro[Pai[e]]
             E == P \cap w.aberta
             w1 == closeDica(w, E, "blur")
             com == {p \in P : w1.title[p] = "texto"}
             v == abafa(w, P)
  <1>0. w \in TipoDaDica /\ P \in SUBSET Elementos /\ e \notin P /\ Mostradas(w) /\ Abafadas(w) /\ Titulados(w)
    BY WayOut DEF Cobre
  <1>1. E \in SUBSET Elementos
    BY <1>0
  <1>2. Fechou(w1, w, E, "blur") /\ Abafou(v, w1, com) /\ Cobre(w1)
    BY <1>0, <1>1, ClosedFields, SilencedFields, ClosingKeeps, Zenon
  <1>3. ASSUME NEW x \in P
        PROVE  /\ Dentro[Pai[x]] \subseteq P
    BY <1>0, <1>3, WayOut
  <1>4. w1.tooltip = w.tooltip \ P
    BY <1>0, <1>2 DEF Fechou, Mostradas
  <1>5. /\ w1.parents = w.parents /\ w1.aberta = w.aberta \ E /\ ~w1.disabled /\ w1.disabledTitles = {}
        /\ w1.guardado = w.guardado /\ w1.title[e] = w.title[e] /\ w1.rato = w.rato /\ w1.foco = w.foco
        /\ \A x \in w1.tooltip : w1.eventos[x] = w.eventos[x]
    <2>1. e \notin E
      BY <1>0
    <2> HIDE DEF E, w1
    <2>2. w.tooltip \in SUBSET Elementos
      BY <1>0 DEF TipoDaDica
    <2> QED
      BY <1>0, <1>2, <2>1, <2>2 DEF Fechou, Titulados
  <1>6. com \in SUBSET P /\ \A x \in P : x \in com <=> w1.title[x] = "texto"
    OBVIOUS
  <1> HIDE DEF w1, com, v, E
  <1>7. P \subseteq v.parents
    <2> SUFFICES ASSUME NEW x \in P PROVE x \in v.parents
      OBVIOUS
    <2>1. TemTitulo(w1, x)
      BY <1>0, <1>2 DEF Cobre, Titulados
    <2> QED
      BY <1>2, <1>4, <1>5, <1>6, <2>1 DEF TemTitulo, Abafou
  <1>8. v.parents = w.parents \cup com
    BY <1>2, <1>5 DEF Abafou
  <1>9. Mostradas(v)
    BY <1>2 DEF Cobre, Mostradas, Abafou
  <1>10. Abafadas(v)
    <2>1. v.parents \cap v.tooltip = {}
      BY <1>0, <1>2, <1>4, <1>6, <1>8 DEF Abafadas, Abafou
    <2>2. ASSUME NEW x \in v.parents
          PROVE  v.title[x] # "texto" /\ Dentro[Pai[x]] \subseteq v.parents
      <3>1. x \in Elementos
        BY <1>2, <2>2 DEF Abafou, TipoDaDica
      <3>2. CASE x \in com
        <4>1. v.title[x] = "vazio"
          BY <1>2, <3>1, <3>2 DEF Abafou
        <4>2. Dentro[Pai[x]] \subseteq P
          BY <1>3, <1>6, <3>2
        <4> QED
          BY <1>7, <4>1, <4>2
      <3>3. CASE x \notin com /\ x \in w.parents
        <4>1. v.title[x] = w1.title[x] /\ x \in w1.parents
          BY <1>2, <1>5, <3>1, <3>3 DEF Abafou
        <4> QED
          BY <1>2, <1>5, <1>8, <4>1 DEF Cobre, Abafadas
      <3> QED
        BY <1>8, <2>2, <3>2, <3>3
    <2> QED
      BY <2>1, <2>2 DEF Abafadas
  <1>11. Titulados(v)
    <2>1. ASSUME NEW x \in Elementos
          PROVE  TemTitulo(v, x)
      <3>1. TemTitulo(w1, x)
        BY <1>2 DEF Cobre, Titulados
      <3> QED
        BY <1>2, <1>5, <3>1 DEF TemTitulo, Abafou
    <2>2. v.disabledTitles = {}
      BY <1>2, <1>5 DEF Abafou
    <2> QED
      BY <2>1, <2>2 DEF Titulados
  <1>12. v.title[e] = w.title[e]
    BY <1>0, <1>2, <1>5, <1>6 DEF Abafou
  <1>13. Cobre(v)
    BY <1>2, <1>9, <1>10, <1>11 DEF Cobre, Abafou
  <1>14. /\ v.rato = w.rato /\ v.foco = w.foco /\ ~v.disabled /\ v.guardado = w.guardado
         /\ v.aberta = w.aberta \ E /\ v.tooltip = w.tooltip \ P
         /\ \A x \in v.tooltip : v.eventos[x] = w.eventos[x]
    BY <1>2, <1>4, <1>5 DEF Abafou
  <1>15. e \notin E
    BY <1>0 DEF E
  <1> QED
    BY <1>6, <1>7, <1>8, <1>12, <1>13, <1>14, <1>15 DEF v

\* An element is marked as open and its title is kept.
Marca(w, e) ==
  [w EXCEPT !.aberta = @ \cup {e}, !.guardado[e] = IF w.title[e] = "texto" THEN "texto" ELSE @]

LEMMA MarkingKeeps ==
  ASSUME NEW w, Cobre(w), ~w.disabled, NEW e \in Elementos, e \notin w.tooltip
  PROVE  LET v == Marca(w, e) IN
         /\ Cobre(v) /\ ~v.disabled
         /\ v.title = w.title /\ v.tooltip = w.tooltip /\ v.parents = w.parents
         /\ v.rato = w.rato /\ v.foco = w.foco /\ v.eventos = w.eventos
         /\ e \in v.aberta /\ (v.title[e] = "texto" => v.guardado[e] = "texto")
PROOF
  <1> DEFINE A == w.aberta \cup {e}
             g == IF w.title[e] = "texto" THEN "texto" ELSE w.guardado[e]
             G == [w.guardado EXCEPT ![e] = g]
             v == Marca(w, e)
  <1>0. w \in TipoDaDica
    BY DEF Cobre
  <1>1. v = [w EXCEPT !.aberta = A, !.guardado = G]
    BY Zenon DEF Marca
  <1>2. A \in SUBSET Elementos /\ g \in Titulos /\ G \in [Elementos -> Titulos]
    BY <1>0 DEF TipoDaDica, Titulos
  <1>3. G[e] = g /\ \A x \in Elementos \ {e} : G[x] = w.guardado[x]
    BY <1>0 DEF TipoDaDica
  <1>4. e \in A /\ w.aberta \subseteq A /\ (w.title[e] = "texto" => g = "texto")
    OBVIOUS
  <1> HIDE DEF A, G, g
  <1>5. v \in TipoDaDica
    BY <1>0, <1>1, <1>2 DEF TipoDaDica
  <1>6. /\ v.title = w.title /\ v.tooltip = w.tooltip /\ v.parents = w.parents
        /\ v.rato = w.rato /\ v.foco = w.foco /\ v.eventos = w.eventos
        /\ v.disabled = w.disabled /\ v.disabledTitles = w.disabledTitles
        /\ v.aberta = A /\ v.guardado = G
    BY <1>0, <1>1 DEF TipoDaDica
  <1> HIDE DEF v
  <1>7. w.tooltip \in SUBSET Elementos
    BY <1>0 DEF TipoDaDica
  <1>8. Mostradas(v)
    BY <1>3, <1>4, <1>6, <1>7 DEF Cobre, Mostradas
  <1>9. Abafadas(v)
    BY <1>6 DEF Cobre, Abafadas
  <1>10. Titulados(v)
    BY <1>6 DEF Cobre, Titulados, TemTitulo
  <1>11. Cobre(v)
    BY <1>5, <1>8, <1>9, <1>10 DEF Cobre
  <1> QED
    BY <1>3, <1>4, <1>6, <1>11 DEF v

QueFecha(tipo) == IF tipo = "mouseover" THEN "mouseleave" ELSE "focusout"

\* The tooltip is shown, if there is a title, and what closes it is listened to.
LEMMA ShowingKeeps ==
  ASSUME NEW w, Cobre(w), ~w.disabled, NEW e \in Elementos, e \notin w.tooltip, e \in w.aberta,
         w.title[e] = "texto" => w.guardado[e] = "texto", NEW tipo
  PROVE  LET v == _openDica(_registerCloseHandlers(w, e, tipo), e, tipo) IN
         /\ Cobre(v) /\ v.rato = w.rato /\ v.foco = w.foco /\ v.parents = w.parents /\ v.disabled = w.disabled
         /\ v.tooltip = IF w.title[e] = "texto" THEN w.tooltip \cup {e} ELSE w.tooltip
         /\ QueFecha(tipo) \in v.eventos[e]
         /\ \A x \in Elementos : w.eventos[x] \subseteq v.eventos[x]
PROOF
  <1> DEFINE q == w.eventos[e] \cup {"keyup", QueFecha(tipo)}
             Q == [w.eventos EXCEPT ![e] = q]
             t == IF tipo = "mouseover" THEN "vazio" ELSE "sem"
             T == [w.title EXCEPT ![e] = t]
             M == w.tooltip \cup {e}
             w1 == _registerCloseHandlers(w, e, tipo)
             v == _openDica(w1, e, tipo)
  <1>0. w \in TipoDaDica
    BY DEF Cobre
  <1>1. w1 = [w EXCEPT !.eventos = Q]
    BY Zenon DEF _registerCloseHandlers, QueFecha
  <1>2. Q \in [Elementos -> SUBSET QueFecham]
    <2>1. q \in SUBSET QueFecham
      BY <1>0 DEF TipoDaDica, QueFecham, QueFecha
    <2> HIDE DEF q
    <2> QED
      BY <1>0, <2>1 DEF TipoDaDica
  <1>3. T \in [Elementos -> Titulos] /\ T[e] = t /\ t # "texto" /\ \A x \in Elementos \ {e} : T[x] = w.title[x]
    BY <1>0 DEF TipoDaDica, Titulos
  <1>4. M \in SUBSET Elementos /\ \A x : x \in M <=> x = e \/ x \in w.tooltip
    BY <1>0 DEF TipoDaDica
  <1>5. QueFecha(tipo) \in Q[e] /\ \A x \in Elementos : w.eventos[x] \subseteq Q[x]
    <2>1. Q[e] = q /\ \A x \in Elementos \ {e} : Q[x] = w.eventos[x]
      BY <1>0 DEF TipoDaDica
    <2> HIDE DEF Q
    <2> QED
      BY <2>1
  <1> HIDE DEF Q, T, t, M
  <1>6. /\ w1 \in TipoDaDica /\ w1.title = w.title /\ w1.tooltip = w.tooltip /\ w1.parents = w.parents
        /\ w1.rato = w.rato /\ w1.foco = w.foco /\ w1.eventos = Q /\ w1.guardado = w.guardado
        /\ w1.disabled = w.disabled /\ w1.disabledTitles = w.disabledTitles /\ w1.aberta = w.aberta
    <2>1. w1 \in TipoDaDica
      BY <1>0, <1>1, <1>2 DEF TipoDaDica
    <2> QED
      BY <1>0, <1>1, <2>1 DEF TipoDaDica
  <1> HIDE DEF w1
  <1>7. CASE w.title[e] # "texto"
    <2>1. v = w1
      BY <1>6, <1>7 DEF _openDica
    <2>2. Cobre(w1)
      BY <1>6 DEF Cobre, Mostradas, Abafadas, Titulados, TemTitulo
    <2> QED
      BY <1>5, <1>6, <1>7, <2>1, <2>2 DEF w1
  <1>8. CASE w.title[e] = "texto"
    <2>1. v = [w1 EXCEPT !.tooltip = M, !.title = T]
      <3>1. v = [w1 EXCEPT !.tooltip = w1.tooltip \cup {e}, !.title = [w1.title EXCEPT ![e] = t]]
        BY <1>6, <1>8, Zenon DEF _openDica, t
      <3> QED
        BY <1>6, <3>1, Zenon DEF M, T
    <2>2. v \in TipoDaDica
      BY <1>3, <1>4, <1>6, <2>1 DEF TipoDaDica
    <2>3. /\ v.title = T /\ v.tooltip = M /\ v.parents = w.parents
          /\ v.rato = w.rato /\ v.foco = w.foco /\ v.eventos = Q /\ v.guardado = w.guardado
          /\ v.disabled = w.disabled /\ v.disabledTitles = w.disabledTitles /\ v.aberta = w.aberta
      BY <1>6, <2>1 DEF TipoDaDica
    <2> HIDE DEF v
    <2>4. Mostradas(v)
      BY <1>4, <1>8, <2>3 DEF Cobre, Mostradas
    <2>5. Abafadas(v)
      <3>1. e \notin w.parents /\ w.parents \in SUBSET Elementos
        BY <1>0, <1>8 DEF Cobre, Abafadas, TipoDaDica
      <3> QED
        BY <1>3, <1>4, <2>3, <3>1 DEF Cobre, Abafadas
    <2>6. Titulados(v)
      BY <1>3, <1>4, <2>3 DEF Cobre, Titulados, TemTitulo
    <2>7. Cobre(v)
      BY <2>2, <2>4, <2>5, <2>6 DEF Cobre
    <2> QED
      BY <1>5, <1>8, <2>3, <2>7 DEF v, w1, M
  <1> QED
    BY <1>7, <1>8

\* What an opening may do to the tooltips and to the titles that are away.
Abriu(v, w, onde, tipo) ==
  /\ Cobre(v) /\ v.rato = w.rato /\ v.foco = w.foco
  /\ \A x \in v.tooltip : \/ x \in w.tooltip /\ w.eventos[x] \subseteq v.eventos[x]
                          \/ x \in Dentro[onde] /\ QueFecha(tipo) \in v.eventos[x]
  /\ tipo # "mouseover" => v.parents = w.parents /\ w.tooltip \subseteq v.tooltip
  /\ w.parents = {} \/ w.tooltip # {} => v.parents = {} \/ v.tooltip # {}

\* The closest element either shows its own tooltip then, or was silenced itself, and
\* then so were those around it, and nothing changes for them.
LEMMA OpeningKeeps ==
  ASSUME NEW w, Cobre(w), NEW onde \in Elementos \cup {Ninguem}, NEW tipo
  PROVE  Abriu(openDica(w, onde, tipo), w, onde, tipo)
PROOF
  <1> DEFINE com == {e \in Dentro[onde] : w.title[e] # "sem"}
             e == MaisPerto(com)
             w1 == Marca(w, e)
             P == Dentro[Pai[e]]
             w2 == IF tipo = "mouseover" THEN abafa(w1, P) ELSE w1
             u == _openDica(_registerCloseHandlers(w2, e, tipo), e, tipo)
             v == openDica(w, onde, tipo)
  <1>0. w \in TipoDaDica /\ w.tooltip \in SUBSET Elementos
    BY DEF Cobre, TipoDaDica
  <1>1. CASE w.disabled \/ com = {} \/ e \in w.tooltip
    <2>1. v = w
      BY <1>1, Zenon DEF openDica
    <2> QED
      BY <1>0, <2>1 DEF Abriu
  <1>2. CASE ~w.disabled /\ com # {} /\ e \notin w.tooltip
    <2>1. v = u
      BY <1>2, Zenon DEF openDica, Marca
    <2>2. e \in Dentro[onde] /\ e \in Elementos
      <3>1. com \in SUBSET Dentro[onde] /\ Dentro[onde] \in SUBSET Elementos
        BY WayOut
      <3> HIDE DEF com
      <3>2. e \in com
        BY <1>2, <3>1, SomeIsClosest
      <3> QED
        BY <3>1, <3>2
    <2> HIDE DEF com, e
    <2>3. /\ Cobre(w1) /\ ~w1.disabled
          /\ w1.title = w.title /\ w1.tooltip = w.tooltip /\ w1.parents = w.parents
          /\ w1.rato = w.rato /\ w1.foco = w.foco /\ w1.eventos = w.eventos
          /\ e \in w1.aberta /\ (w1.title[e] = "texto" => w1.guardado[e] = "texto")
      BY <1>2, <2>2, MarkingKeeps
    <2> HIDE DEF w1
    <2>4. /\ Cobre(w2) /\ ~w2.disabled /\ w2.rato = w.rato /\ w2.foco = w.foco
          /\ e \in w2.aberta /\ w2.title[e] = w.title[e] /\ (w2.title[e] = "texto" => w2.guardado[e] = "texto")
          /\ w2.tooltip \subseteq w.tooltip
          /\ \A x \in w2.tooltip : w2.eventos[x] = w.eventos[x]
          /\ tipo # "mouseover" => w2.parents = w.parents /\ w2.tooltip = w.tooltip
          /\ w2.tooltip = IF tipo = "mouseover" THEN w.tooltip \ P ELSE w.tooltip
          /\ w2.parents \subseteq w.parents \cup P
      <3>1. CASE tipo = "mouseover"
        <4> DEFINE v2 == abafa(w1, P)
        <4>1. /\ Cobre(v2) /\ v2.rato = w1.rato /\ v2.foco = w1.foco /\ ~v2.disabled
              /\ v2.guardado[e] = w1.guardado[e] /\ v2.title[e] = w1.title[e]
              /\ e \in v2.aberta
              /\ v2.tooltip = w1.tooltip \ P
              /\ \A x \in v2.tooltip : v2.eventos[x] = w1.eventos[x]
              /\ v2.parents \subseteq w1.parents \cup P
          BY <2>2, <2>3, SilencingKeeps
        <4>2. w2 = v2
          BY <3>1
        <4> HIDE DEF v2, w2
        <4> QED
          BY <2>3, <3>1, <4>1, <4>2
      <3>2. CASE tipo # "mouseover"
        <4>1. w2 = w1
          BY <3>2
        <4> HIDE DEF w2
        <4> QED
          BY <2>3, <3>2, <4>1
      <3> QED
        BY <3>1, <3>2
    <2> HIDE DEF w2
    <2>5. e \notin w2.tooltip
      BY <1>2, <2>4
    <2>6. /\ Cobre(u) /\ u.rato = w2.rato /\ u.foco = w2.foco /\ u.parents = w2.parents
          /\ u.tooltip = IF w2.title[e] = "texto" THEN w2.tooltip \cup {e} ELSE w2.tooltip
          /\ QueFecha(tipo) \in u.eventos[e]
          /\ \A x \in Elementos : w2.eventos[x] \subseteq u.eventos[x]
      BY <2>2, <2>4, <2>5, ShowingKeeps
    <2> HIDE DEF u
    <2>7. \A x \in u.tooltip : \/ x \in w.tooltip /\ w.eventos[x] \subseteq u.eventos[x]
                               \/ x \in Dentro[onde] /\ QueFecha(tipo) \in u.eventos[x]
      BY <1>0, <2>2, <2>4, <2>6
    <2>8. tipo # "mouseover" => u.parents = w.parents /\ w.tooltip \subseteq u.tooltip
      BY <2>4, <2>6
    <2>9. w.parents = {} \/ w.tooltip # {} => u.parents = {} \/ u.tooltip # {}
      <3>1. CASE w.title[e] = "texto"
        BY <2>4, <2>6, <3>1
      <3>2. CASE w.title[e] # "texto"
        <4>1. TemTitulo(w, e) /\ w.disabledTitles = {}
          BY <1>2, <2>2 DEF Cobre, Titulados
        <4>2. e \in w.parents
          BY <1>2, <3>2, <4>1 DEF TemTitulo
        <4>3. P \subseteq w.parents /\ w.parents \cap w.tooltip = {}
          BY <4>2 DEF Cobre, Abafadas
        <4>4. w2.tooltip = w.tooltip
          BY <2>4, <4>3
        <4> QED
          BY <2>4, <2>6, <4>2, <4>4
      <3> QED
        BY <3>1, <3>2
    <2>10. Abriu(u, w, onde, tipo)
      BY <2>4, <2>6, <2>7, <2>8, <2>9 DEF Abriu
    <2> QED
      BY <2>1, <2>10
  <1> QED
    BY <1>1, <1>2

\* The mouse or the focus is elsewhere.
LEMMA ElsewhereIsTheSame ==
  ASSUME NEW w, Cobre(w), NEW e \in Elementos \cup {Ninguem}
  PROVE  /\ Cobre([w EXCEPT !.rato = e]) /\ Cobre([w EXCEPT !.foco = e])
         /\ LET v == [w EXCEPT !.rato = e] IN
            /\ v.tooltip = w.tooltip /\ v.parents = w.parents /\ v.eventos = w.eventos
            /\ v.rato = e /\ v.foco = w.foco
         /\ LET v == [w EXCEPT !.foco = e] IN
            /\ v.tooltip = w.tooltip /\ v.parents = w.parents /\ v.eventos = w.eventos
            /\ v.rato = w.rato /\ v.foco = e
PROOF
  <1>0. w \in TipoDaDica
    BY DEF Cobre
  <1>1. [w EXCEPT !.rato = e] \in TipoDaDica /\ [w EXCEPT !.foco = e] \in TipoDaDica
    BY <1>0 DEF TipoDaDica
  <1> QED
    BY <1>0, <1>1 DEF TipoDaDica, Cobre, Mostradas, Abafadas, Titulados, TemTitulo

\* The mouse leaves some elements and enters one: what it is still inside stays.
LEMMA MouseMoves ==
  ASSUME DicaOK(dica, dicaDesvio), NEW e \in Elementos \cup {Ninguem}, mouse(e),
         dicaDesvio' = (dicaDesvio /\ dica'.parents # {})
  PROVE  DicaOK(dica', dicaDesvio')
PROOF
  <1> DEFINE w == dica
             S == Dentro[w.rato] \ Dentro[e]
             E == {x \in S : "mouseleave" \in w.eventos[x]}
             w1 == closeDica(w, E, "mouseleave")
             w2 == [w1 EXCEPT !.rato = e]
             v == dica'
  <1>0. w \in TipoDaDica /\ w.rato \in Elementos \cup {Ninguem} /\ w.foco \in Elementos \cup {Ninguem}
    BY DEF DicaOK, Cobre, TipoDaDica
  <1>1. E \in SUBSET Elementos
    BY <1>0, WayOut
  <1>2. v = openDica(w2, e, "mouseover")
    BY Zenon DEF mouse, Borbulha
  <1>3. Cobre(w1) /\ Fechou(w1, w, E, "mouseleave")
    BY <1>0, <1>1, ClosingKeeps, ClosedFields DEF DicaOK
  <1>4. \A x : x \in E <=> x \in S /\ "mouseleave" \in w.eventos[x]
    OBVIOUS
  <1> HIDE DEF E, w1
  <1>5. /\ Cobre(w2) /\ w2.tooltip = w1.tooltip /\ w2.parents = w1.parents /\ w2.eventos = w1.eventos
        /\ w2.rato = e /\ w2.foco = w1.foco
    BY <1>3, ElsewhereIsTheSame
  <1> HIDE DEF w2
  <1>6. Abriu(v, w2, e, "mouseover")
    BY <1>2, <1>5, OpeningKeeps
  <1>7. v.rato = e /\ v.foco = w.foco /\ w2.tooltip = w.tooltip \ E
    BY <1>3, <1>5, <1>6 DEF Abriu, Fechou
  <1>8. ASSUME NEW x \in v.tooltip
        PROVE  Presa(v, x)
    <2>1. CASE x \in w2.tooltip /\ w2.eventos[x] \subseteq v.eventos[x]
      <3>1. x \in w.tooltip /\ x \notin E /\ x \in Elementos
        BY <1>0, <1>7, <2>1 DEF TipoDaDica
      <3>2. w2.eventos[x] = w.eventos[x]
        BY <1>3, <1>5, <3>1 DEF Fechou
      <3>3. Presa(w, x)
        BY <3>1 DEF DicaOK
      <3> QED
        BY <1>4, <1>7, <2>1, <3>1, <3>2, <3>3 DEF Presa
    <2>2. CASE x \in Dentro[e] /\ QueFecha("mouseover") \in v.eventos[x]
      BY <1>7, <2>2 DEF Presa, QueFecha
    <2> QED
      BY <1>6, <2>1, <2>2 DEF Abriu
  <1>9. dicaDesvio \/ w2.parents = {} \/ w2.tooltip # {}
    <2>1. CASE E \cap w.tooltip # {}
      BY <1>3, <1>5, <2>1 DEF Fechou
    <2>2. CASE E \cap w.tooltip = {}
      BY <1>3, <1>5, <1>7, <2>2 DEF Fechou, DicaOK
    <2> QED
      BY <2>1, <2>2
  <1>10. dicaDesvio' \in BOOLEAN /\ (dicaDesvio' \/ v.parents = {} \/ v.tooltip # {})
    BY <1>6, <1>9 DEF Abriu, DicaOK
  <1> QED
    BY <1>6, <1>8, <1>10 DEF DicaOK, Abriu

\* What closes when the focus moves, at Escape or when all are disabled gives back no
\* title but its own: the titles around it are away until the mouse leaves a tooltip.
LEMMA OthersClose ==
  ASSUME DicaOK(dica, dicaDesvio), NEW v, Cobre(v), \A x \in v.tooltip : Presa(v, x),
         v.parents = dica.parents
  PROVE  DicaOK(v, dicaDesvio \/ (dica.parents # {} /\ ~(dica.tooltip \subseteq v.tooltip)))
  BY DEF DicaOK

LEMMA FocusMoves ==
  ASSUME DicaOK(dica, dicaDesvio), NEW e \in Elementos \cup {Ninguem}, focusDica(e)
  PROVE  DicaOK(dica', dicaDesvio \/ (dica.parents # {} /\ ~(dica.tooltip \subseteq dica'.tooltip)))
PROOF
  <1> DEFINE w == dica
             S == Dentro[w.foco]
             E == {x \in S : "focusout" \in w.eventos[x]}
             w1 == closeDica(w, E, "focusout")
             w2 == [w1 EXCEPT !.foco = e]
             v == dica'
  <1>0. w \in TipoDaDica /\ w.rato \in Elementos \cup {Ninguem} /\ w.foco \in Elementos \cup {Ninguem}
    BY DEF DicaOK, Cobre, TipoDaDica
  <1>1. E \in SUBSET Elementos
    BY <1>0, WayOut
  <1>2. v = openDica(w2, e, "focusin")
    BY Zenon DEF focusDica, Borbulha
  <1>3. Cobre(w1) /\ Fechou(w1, w, E, "focusout")
    BY <1>0, <1>1, ClosingKeeps, ClosedFields DEF DicaOK
  <1>4. \A x : x \in E <=> x \in S /\ "focusout" \in w.eventos[x]
    OBVIOUS
  <1> HIDE DEF E, w1
  <1>5. /\ Cobre(w2) /\ w2.tooltip = w1.tooltip /\ w2.parents = w1.parents /\ w2.eventos = w1.eventos
        /\ w2.foco = e /\ w2.rato = w1.rato
    BY <1>3, ElsewhereIsTheSame
  <1> HIDE DEF w2
  <1>6. Abriu(v, w2, e, "focusin")
    BY <1>2, <1>5, OpeningKeeps
  <1>7. v.foco = e /\ v.rato = w.rato /\ w2.tooltip = w.tooltip \ E /\ w2.parents = w.parents
    BY <1>3, <1>5, <1>6 DEF Abriu, Fechou
  <1>8. ASSUME NEW x \in v.tooltip
        PROVE  Presa(v, x)
    <2>1. CASE x \in w2.tooltip /\ w2.eventos[x] \subseteq v.eventos[x]
      <3>1. x \in w.tooltip /\ x \notin E /\ x \in Elementos
        BY <1>0, <1>7, <2>1 DEF TipoDaDica
      <3>2. w2.eventos[x] = w.eventos[x]
        BY <1>3, <1>5, <3>1 DEF Fechou
      <3>3. Presa(w, x)
        BY <3>1 DEF DicaOK
      <3> QED
        BY <1>4, <1>7, <2>1, <3>1, <3>2, <3>3 DEF Presa
    <2>2. CASE x \in Dentro[e] /\ QueFecha("focusin") \in v.eventos[x]
      BY <1>7, <2>2 DEF Presa, QueFecha
    <2> QED
      BY <1>6, <2>1, <2>2 DEF Abriu
  <1>9. Cobre(v) /\ v.parents = dica.parents
    BY <1>6, <1>7 DEF Abriu
  <1> HIDE DEF v
  <1>10. DicaOK(v, dicaDesvio \/ (dica.parents # {} /\ ~(dica.tooltip \subseteq v.tooltip)))
    BY <1>8, <1>9, OthersClose
  <1> QED
    BY <1>10 DEF v

LEMMA EscapeCloses ==
  ASSUME DicaOK(dica, dicaDesvio), escape
  PROVE  DicaOK(dica', dicaDesvio \/ (dica.parents # {} /\ ~(dica.tooltip \subseteq dica'.tooltip)))
PROOF
  <1> DEFINE w == dica
             E == {x \in Dentro[w.foco] : "keyup" \in w.eventos[x]}
             v == dica'
  <1>0. w \in TipoDaDica /\ w.foco \in Elementos \cup {Ninguem} /\ w.tooltip \in SUBSET Elementos
    BY DEF DicaOK, Cobre, TipoDaDica
  <1>1. E \in SUBSET Elementos
    BY <1>0, WayOut
  <1>2. v = closeDica(w, E, "keyup")
    BY Zenon DEF escape, Borbulha
  <1> HIDE DEF E
  <1>3. Cobre(v) /\ Fechou(v, w, E, "keyup")
    BY <1>0, <1>1, <1>2, ClosingKeeps, ClosedFields DEF DicaOK
  <1>4. v.parents = dica.parents /\ \A x \in v.tooltip : Presa(v, x)
    BY <1>0, <1>3 DEF Fechou, DicaOK, Presa
  <1> HIDE DEF v
  <1>5. DicaOK(v, dicaDesvio \/ (dica.parents # {} /\ ~(dica.tooltip \subseteq v.tooltip)))
    BY <1>3, <1>4, OthersClose
  <1> QED
    BY <1>5 DEF v

LEMMA AllDisabled ==
  ASSUME DicaOK(dica, dicaDesvio), _disable
  PROVE  DicaOK(dica', dicaDesvio \/ (dica.parents # {} /\ ~(dica.tooltip \subseteq dica'.tooltip)))
PROOF
  <1> DEFINE w == closeDica(dica, dica.tooltip, "blur")
             com == {e \in Elementos : w.title[e] # "sem"}
             sim == TRUE
             G == [e \in Elementos |-> IF e \in com THEN w.title[e] ELSE w.guardado[e]]
             T == [e \in Elementos |-> "sem"]
             v == dica'
  <1>0. dica \in TipoDaDica /\ dica.tooltip \in SUBSET Elementos
    BY DEF DicaOK, Cobre, TipoDaDica
  <1>1. v = [w EXCEPT !.disabled = sim, !.disabledTitles = com, !.guardado = G, !.title = T]
    BY Zenon DEF _disable
  <1>2. ~dica.disabled
    BY DEF _disable
  <1>3. Cobre(w) /\ Fechou(w, dica, dica.tooltip, "blur")
    BY <1>0, ClosingKeeps, ClosedFields DEF DicaOK
  <1>4. w \in TipoDaDica /\ w.tooltip = {} /\ w.parents = dica.parents /\ w.disabledTitles = {}
    BY <1>2, <1>3 DEF Fechou, Cobre, Titulados
  <1> HIDE DEF w
  <1>5. com \in SUBSET Elementos /\ \A e \in Elementos : e \in com <=> w.title[e] # "sem"
    OBVIOUS
  <1>6. G \in [Elementos -> Titulos] /\ T \in [Elementos -> Titulos] /\ sim \in BOOLEAN /\ sim
    BY <1>4 DEF TipoDaDica, Titulos
  <1>7. \A e \in Elementos : (e \in com => G[e] = w.title[e]) /\ T[e] = "sem"
    OBVIOUS
  <1> HIDE DEF com, sim, G, T
  <1>8. v \in TipoDaDica
    BY <1>1, <1>4, <1>5, <1>6 DEF TipoDaDica
  <1>9. /\ v.tooltip = w.tooltip /\ v.parents = w.parents /\ v.aberta = w.aberta
        /\ v.disabledTitles = com /\ v.guardado = G /\ v.title = T
    BY <1>1, <1>4 DEF TipoDaDica
  <1>10. v.disabled
    BY <1>1, <1>4, <1>6 DEF TipoDaDica
  <1> HIDE DEF v
  <1>11. Mostradas(v)
    BY <1>4, <1>9 DEF Mostradas
  <1>12. Abafadas(v)
    <2>1. w.parents \in SUBSET Elementos
      BY <1>4 DEF TipoDaDica
    <2> QED
      BY <1>3, <1>4, <1>7, <1>9, <2>1 DEF Cobre, Abafadas
  <1>13. Titulados(v)
    <2>1. ASSUME NEW e \in Elementos
          PROVE  TemTitulo(v, e)
      <3>1. TemTitulo(w, e)
        BY <1>3 DEF Cobre, Titulados
      <3>2. w.title[e] = "texto" => e \in com /\ G[e] = "texto"
        BY <1>5, <1>7
      <3> QED
        BY <1>4, <1>9, <3>1, <3>2 DEF TemTitulo
    <2>2. ASSUME NEW e \in v.parents \cap v.disabledTitles
          PROVE  v.guardado[e] # "texto"
      BY <1>3, <1>5, <1>7, <1>9, <2>2 DEF Cobre, Abafadas
    <2> QED
      BY <1>10, <2>1, <2>2 DEF Titulados
  <1>14. Cobre(v) /\ v.parents = dica.parents /\ \A x \in v.tooltip : Presa(v, x)
    BY <1>4, <1>8, <1>9, <1>11, <1>12, <1>13 DEF Cobre
  <1>15. DicaOK(v, dicaDesvio \/ (dica.parents # {} /\ ~(dica.tooltip \subseteq v.tooltip)))
    BY <1>14, OthersClose
  <1> QED
    BY <1>15 DEF v

LEMMA AllEnabled ==
  ASSUME DicaOK(dica, dicaDesvio), _enable
  PROVE  DicaOK(dica', dicaDesvio)
PROOF
  <1> DEFINE w == dica
             T == [e \in Elementos |-> IF e \in w.disabledTitles /\ w.guardado[e] = "texto"
                                       THEN "texto" ELSE w.title[e]]
             nao == FALSE
             vazio == {}
             v == dica'
  <1>0. w \in TipoDaDica /\ Cobre(w) /\ w.parents \in SUBSET Elementos
    BY DEF DicaOK, Cobre, TipoDaDica
  <1>1. v = [w EXCEPT !.disabled = nao, !.disabledTitles = vazio, !.title = T]
    BY Zenon DEF _enable
  <1>2. w.disabled /\ w.tooltip = {}
    BY <1>0 DEF _enable, Cobre, Mostradas
  <1>3. /\ T \in [Elementos -> Titulos] /\ nao \in BOOLEAN /\ ~nao /\ vazio \in SUBSET Elementos
        /\ \A e : e \notin vazio
    BY <1>0 DEF TipoDaDica, Titulos
  <1>4. \A e \in Elementos : T[e] = IF e \in w.disabledTitles /\ w.guardado[e] = "texto" THEN "texto" ELSE w.title[e]
    OBVIOUS
  <1> HIDE DEF T, nao, vazio
  <1>5. v \in TipoDaDica
    BY <1>0, <1>1, <1>3 DEF TipoDaDica
  <1>6. /\ v.tooltip = w.tooltip /\ v.parents = w.parents /\ v.aberta = w.aberta /\ v.guardado = w.guardado
        /\ v.disabledTitles = vazio /\ v.title = T
    BY <1>0, <1>1 DEF TipoDaDica
  <1> HIDE DEF v
  <1>7. Mostradas(v)
    BY <1>2, <1>6 DEF Mostradas
  <1>8. Abafadas(v)
    <2>1. ASSUME NEW e \in v.parents
          PROVE  v.title[e] # "texto"
      BY <1>0, <1>4, <1>6, <2>1 DEF Cobre, Abafadas, Titulados
    <2> QED
      BY <1>0, <1>2, <1>6, <2>1 DEF Cobre, Abafadas
  <1>9. Titulados(v)
    <2>1. ASSUME NEW e \in Elementos
          PROVE  TemTitulo(v, e)
      <3>1. TemTitulo(w, e)
        BY <1>0 DEF Cobre, Titulados
      <3> QED
        BY <1>2, <1>4, <1>6, <3>1 DEF TemTitulo
    <2>2. v.disabledTitles = {}
      BY <1>3, <1>6
    <2> QED
      BY <2>1, <2>2 DEF Titulados
  <1>10. Cobre(v)
    BY <1>5, <1>7, <1>8, <1>9 DEF Cobre
  <1>11. DicaOK(v, dicaDesvio)
    BY <1>2, <1>6, <1>10 DEF DicaOK
  <1> QED
    BY <1>11 DEF v

LEMMA TooltipsOnThePage ==
  [Next]_vars => DicaNext \/ UNCHANGED <<dica, dicaDesvio>>
  BY DEF Next, vars, dicaVars

LEMMA TooltipsInvariant == Spec => []DicaOK(dica, dicaDesvio)
PROOF
  <1>1. Init => DicaOK(dica, dicaDesvio)
    <2> SUFFICES ASSUME DicaInit PROVE DicaOK(dica, dicaDesvio)
      BY DEF Init
    <2> DEFINE w == dica
               T == [e \in Elementos |-> "texto"]
               G == [e \in Elementos |-> "sem"]
               V == [e \in Elementos |-> {}]
               vazio == {}
    <2>1. /\ T \in [Elementos -> Titulos] /\ G \in [Elementos -> Titulos]
          /\ V \in [Elementos -> SUBSET QueFecham] /\ vazio \in SUBSET Elementos
          /\ \A e : e \notin vazio
          /\ \A e \in Elementos : T[e] = "texto"
      BY DEF Titulos
    <2>2. w = [title |-> T, guardado |-> G, aberta |-> vazio, tooltip |-> vazio, parents |-> vazio,
               eventos |-> V, disabled |-> FALSE, disabledTitles |-> vazio, rato |-> Ninguem, foco |-> Ninguem]
      BY Zenon DEF DicaInit
    <2> HIDE DEF T, G, V, vazio
    <2>3. w \in TipoDaDica
      BY <2>1, <2>2 DEF TipoDaDica
    <2>4. w.tooltip = vazio /\ w.parents = vazio /\ w.aberta = vazio /\ w.disabledTitles = vazio /\ w.title = T
      BY <2>2
    <2> HIDE DEF w
    <2>5. w.tooltip = {} /\ w.parents = {} /\ w.disabledTitles = {}
      BY <2>1, <2>4
    <2>6. Cobre(w)
      BY <2>1, <2>3, <2>4, <2>5 DEF Cobre, Mostradas, Abafadas, Titulados, TemTitulo
    <2> QED
      BY <2>5, <2>6 DEF DicaOK, DicaInit, w
  <1>2. DicaOK(dica, dicaDesvio) /\ [Next]_vars => DicaOK(dica, dicaDesvio)'
    <2> SUFFICES ASSUME DicaOK(dica, dicaDesvio), [Next]_vars
                 PROVE  DicaOK(dica', dicaDesvio')
      BY DEF DicaOK, Cobre, TipoDaDica, Mostradas, Abafadas, Titulados, TemTitulo, Presa
    <2>1. ASSUME NEW e \in Elementos \cup {Ninguem}, mouse(e),
                 dicaDesvio' = (dicaDesvio /\ dica'.parents # {})
          PROVE  DicaOK(dica', dicaDesvio')
      BY <2>1, MouseMoves
    <2>2. ASSUME escape \/ _disable \/ \E e \in Elementos \cup {Ninguem} : focusDica(e),
                 dicaDesvio' = (dicaDesvio \/ (dica.parents # {} /\ ~(dica.tooltip \subseteq dica'.tooltip)))
          PROVE  DicaOK(dica', dicaDesvio')
      BY <2>2, EscapeCloses, AllDisabled, FocusMoves
    <2>3. ASSUME _enable, dicaDesvio' = dicaDesvio
          PROVE  DicaOK(dica', dicaDesvio')
      BY <2>3, AllEnabled
    <2>4. CASE UNCHANGED <<dica, dicaDesvio>>
      BY <2>4
    <2> QED
      BY <2>1, <2>2, <2>3, <2>4, TooltipsOnThePage DEF DicaNext
  <1> QED
    BY <1>1, <1>2, PTL DEF Spec

\* Once mouse and focus are gone every element has its title again (TituloVolta),
\* however many are inside each other and whichever were open at a time.
THEOREM TitlesComeBack == Spec => []TituloVolta
PROOF
  <1>1. DicaOK(dica, dicaDesvio) => TituloVolta
    <2> SUFFICES ASSUME DicaOK(dica, dicaDesvio), dica.rato = Ninguem, dica.foco = Ninguem,
                        ~dica.disabled, ~dicaDesvio, NEW e \in Elementos
                 PROVE  dica.title[e] = "texto"
      BY DEF TituloVolta
    <2>1. dica.tooltip = {}
      BY WayOut DEF DicaOK, Presa
    <2>2. dica.parents = {} /\ dica.disabledTitles = {} /\ TemTitulo(dica, e)
      BY <2>1 DEF DicaOK, Cobre, Titulados
    <2> QED
      BY <2>1, <2>2 DEF TemTitulo
  <1> QED
    BY <1>1, TooltipsInvariant, PTL

----------------------------------------------------------------------------
(* The price field *)

Ponto == "."
Virgula == ","
Erre == "R"
Cifrao == "$"
Espaco == " "
Cento == "%"
Sinais == {Erre, Cifrao, Espaco, Cento, Ponto, Virgula}
Caracteres == Digitos \cup Sinais
Textos == Seq(Caracteres)

LEMMA LettersOfDigits ==
  /\ \A d \in 0..9 : Letra[d + 1] \in Digitos /\ Valor(Letra[d + 1]) = d
  /\ \A c \in Digitos : Valor(c) \in 0..9
PROOF
  <1>1. /\ Letra[1] = "0" /\ Letra[2] = "1" /\ Letra[3] = "2" /\ Letra[4] = "3" /\ Letra[5] = "4"
        /\ Letra[6] = "5" /\ Letra[7] = "6" /\ Letra[8] = "7" /\ Letra[9] = "8" /\ Letra[10] = "9"
    BY DEF Letra
  <1>4. \A d \in 0..9 : Letra[d + 1] \in Digitos
    BY DEF Digitos
  <1>5. \A d, e \in 0..9 : Letra[d + 1] = Letra[e + 1] => d = e
    <2> SUFFICES ASSUME NEW d \in 0..9, NEW e \in 0..9, Letra[d + 1] = Letra[e + 1] PROVE d = e
      OBVIOUS
    <2> QED
      BY <1>1
  <1>6. ASSUME NEW d \in 0..9 PROVE Valor(Letra[d + 1]) = d
    BY <1>5 DEF Valor
  <1>7. ASSUME NEW i \in 1..10 PROVE Valor(Letra[i]) \in 0..9
    <2>1. i - 1 \in 0..9 /\ (i - 1) + 1 = i
      OBVIOUS
    <2> QED
      BY <1>6, <2>1
  <1>8. \A c \in Digitos : Valor(c) \in 0..9
    BY <1>7 DEF Digitos
  <1> QED
    BY <1>4, <1>6, <1>8

LEMMA SignsAreNoDigits ==
  /\ Erre \notin Digitos /\ Cifrao \notin Digitos /\ Espaco \notin Digitos /\ Cento \notin Digitos
  /\ Ponto \notin Digitos /\ Virgula \notin Digitos
  /\ Ponto # Virgula /\ Cento \notin {Ponto, Virgula} /\ Erre \notin {Ponto, Virgula}
PROOF
  <1>1. /\ Letra[1] = "0" /\ Letra[2] = "1" /\ Letra[3] = "2" /\ Letra[4] = "3" /\ Letra[5] = "4"
        /\ Letra[6] = "5" /\ Letra[7] = "6" /\ Letra[8] = "7" /\ Letra[9] = "8" /\ Letra[10] = "9"
    BY DEF Letra
  <1>2. Digitos = {"0", "1", "2", "3", "4", "5", "6", "7", "8", "9"}
    <2>1. 1..10 = {1, 2, 3, 4, 5, 6, 7, 8, 9, 10}
      OBVIOUS
    <2>2. Digitos = {Letra[i] : i \in {1, 2, 3, 4, 5, 6, 7, 8, 9, 10}}
      BY <2>1 DEF Digitos
    <2> QED
      BY <1>1, <2>2
  <1>3. Erre \notin Digitos /\ Cifrao \notin Digitos /\ Espaco \notin Digitos /\ Cento \notin Digitos
    BY Zenon, <1>2 DEF Erre, Cifrao, Espaco, Cento
  <1>4. Ponto \notin Digitos /\ Virgula \notin Digitos
    BY Zenon, <1>2 DEF Ponto, Virgula
  <1>5. Ponto # Virgula /\ Cento \notin {Ponto, Virgula} /\ Erre \notin {Ponto, Virgula}
    BY Zenon DEF Ponto, Virgula, Cento, Erre
  <1> QED
    BY Zenon, <1>3, <1>4, <1>5

LEMMA TextIsRead ==
  ASSUME NEW v \in Textos
  PROVE  /\ NumeroAte(v)[0] = 0
         /\ \A i \in 1..Len(v) :
              NumeroAte(v)[i] = IF v[i] \in Digitos THEN 10 * NumeroAte(v)[i - 1] + Valor(v[i]) ELSE NumeroAte(v)[i - 1]
PROOF
  <1>0. Len(v) \in Nat
    BY DEF Textos
  <1> DEFINE Avanco(g, i) == IF v[i] \in Digitos THEN 10 * g[i - 1] + Valor(v[i]) ELSE g[i - 1]
             Conta(g, k) == \A i \in 1..k : g[i] = Avanco(g, i)
             Certa(g, k) == g \in [0..k -> Nat] /\ g[0] = 0 /\ Conta(g, k)
             Erradas == {k \in 0..Len(v) : ~\E g \in [0..k -> Nat] : Certa(g, k)}
  <1>1. Erradas = {}
    <2> SUFFICES ASSUME Erradas # {} PROVE FALSE
      OBVIOUS
    <2>1. PICK k \in Erradas : \A j \in Erradas : ~(<<j, k>> \in OpToRel(<, Nat))
      <3>1. Erradas \subseteq Nat
        OBVIOUS
      <3> HIDE DEF Erradas
      <3> QED
        BY <3>1, NatLessThanWellFounded, WFMin
    <2>2. k \in 0..Len(v) /\ ~\E g \in [0..k -> Nat] : Certa(g, k)
      OBVIOUS
    <2>3. k # 0
      <3> SUFFICES ASSUME k = 0 PROVE FALSE
        OBVIOUS
      <3> DEFINE g == [i \in 0..0 |-> 0]
      <3>1. g \in [0..0 -> Nat] /\ g[0] = 0
        OBVIOUS
      <3>2. Certa(g, 0)
        BY <3>1
      <3> QED
        BY <2>2, <3>1, <3>2
    <2>4. k - 1 \in Nat /\ k - 1 < k /\ k \in Nat
      BY <1>0, <2>2, <2>3
    <2>5. <<k - 1, k>> \in OpToRel(<, Nat)
      BY <2>4 DEF OpToRel
    <2>6. k - 1 \notin Erradas
      BY <2>1, <2>5
    <2>7. PICK g \in [0..(k - 1) -> Nat] : Certa(g, k - 1)
      BY <1>0, <2>2, <2>4, <2>6
    <2> DEFINE h == [i \in 0..k |-> IF i < k THEN g[i] ELSE Avanco(g, k)]
    <2>8. g[k - 1] \in Nat /\ Avanco(g, k) \in Nat
      <3>1. g[k - 1] \in Nat
        BY <2>4, <2>7
      <3>2. CASE v[k] \in Digitos
        <4>1. Valor(v[k]) \in 0..9
          BY <3>2, LettersOfDigits
        <4>2. 10 * g[k - 1] + Valor(v[k]) \in Nat
          BY <3>1, <4>1
        <4>3. Avanco(g, k) = 10 * g[k - 1] + Valor(v[k])
          BY <3>2
        <4> QED
          BY <3>1, <4>2, <4>3
      <3>3. CASE v[k] \notin Digitos
        BY <3>1, <3>3
      <3> QED
        BY <3>2, <3>3
    <2>9. h \in [0..k -> Nat] /\ h[0] = 0
      BY <2>4, <2>7, <2>8
    <2>10. \A i \in 1..k : h[i] = Avanco(h, i)
      <3> SUFFICES ASSUME NEW i \in 1..k PROVE h[i] = Avanco(h, i)
        OBVIOUS
      <3>1. i - 1 \in 0..k /\ h[i - 1] = g[i - 1]
        BY <2>4
      <3>2. h[i] = Avanco(g, i)
        <4>1. CASE i < k
          <5>1. i \in 1..k - 1 /\ h[i] = g[i]
            BY <2>4, <4>1
          <5> QED
            BY <2>7, <5>1
        <4>2. CASE i = k
          BY <2>4, <4>2
        <4> QED
          BY <2>4, <4>1, <4>2
      <3>3. Avanco(h, i) = Avanco(g, i)
        BY <3>1
      <3> QED
        BY <3>2, <3>3
    <2> QED
      BY <2>2, <2>9, <2>10
  <1>2. PICK g \in [0..Len(v) -> Nat] : Certa(g, Len(v))
    <2>1. Len(v) \in 0..Len(v) /\ Len(v) \notin Erradas
      BY <1>0, <1>1
    <2> QED
      BY <2>1
  <1> DEFINE Lendo(f) == [i \in 0..Len(v) |-> IF i = 0 THEN 0
                            ELSE IF v[i] \in Digitos THEN 10 * f[i - 1] + Valor(v[i]) ELSE f[i - 1]]
  <1>3. g = Lendo(g)
    <2>1. ASSUME NEW i \in 0..Len(v) PROVE g[i] = Lendo(g)[i]
      <3>1. CASE i = 0
        BY <1>2, <3>1
      <3>2. CASE i # 0
        <4>1. i \in 1..Len(v)
          BY <1>0, <3>2
        <4> QED
          BY <1>2, <3>2, <4>1
      <3> QED
        BY <3>1, <3>2
    <2> QED
      BY <1>2, <2>1
  <1>4. NumeroAte(v) = Lendo(NumeroAte(v))
    <2>1. NumeroAte(v) = CHOOSE f : f = Lendo(f)
      BY Zenon DEF NumeroAte
    <2> HIDE DEF Lendo
    <2> QED
      BY <1>3, <2>1
  <1>5. \A i \in 0..Len(v) : NumeroAte(v)[i] = Lendo(NumeroAte(v))[i]
    BY <1>4
  <1> QED
    BY <1>0, <1>5

\* The digit of n at the place p.
Cifra(n, p) == Letra[((n \div p) % 10) + 1]

Potencias == {1, 10, 100, 1000, 10000, 100000}

LEMMA PowersOfTen ==
  10^0 = 1 /\ 10^1 = 10 /\ 10^2 = 100 /\ 10^3 = 1000 /\ 10^4 = 10000 /\ 10^5 = 100000
  OBVIOUS

LEMMA PlacesArePowers ==
  \A j \in {0, 1, 2, 3, 4, 5} : 10^j \in Potencias
PROOF
  <1>1. \A p \in {1, 10, 100, 1000, 10000, 100000} : p \in Potencias
    BY DEF Potencias
  <1>2. 10^0 \in Potencias /\ 10^1 \in Potencias /\ 10^2 \in Potencias
        /\ 10^3 \in Potencias /\ 10^4 \in Potencias /\ 10^5 \in Potencias
    BY <1>1, PowersOfTen
  <1> QED
    BY Zenon, <1>2

LEMMA DigitAtPlace ==
  ASSUME NEW n \in Nat, NEW p \in Potencias
  PROVE  /\ Cifra(n, p) \in Digitos /\ Cifra(n, p) \in Caracteres
         /\ Valor(Cifra(n, p)) = (n \div p) % 10 /\ (n \div p) % 10 \in 0..9
PROOF
  <1>1. (n \div p) % 10 \in 0..9
    BY DEF Potencias
  <1> QED
    BY <1>1, LettersOfDigits DEF Cifra, Caracteres

LEMMA PlacesAreText ==
  ASSUME NEW n \in Nat, NEW k \in {1, 2, 3, 6}
  PROVE  /\ Casas(n, k) \in Textos /\ Len(Casas(n, k)) = k
         /\ \A i \in 1..k : 10^(k - i) \in Potencias /\ Casas(n, k)[i] = Cifra(n, 10^(k - i))
PROOF
  <1>1. ASSUME NEW i \in 1..k PROVE 10^(k - i) \in Potencias
    <2>1. k - i \in {0, 1, 2, 3, 4, 5}
      OBVIOUS
    <2> QED
      BY Zenon, <2>1, PlacesArePowers
  <1>2. Casas(n, k) = [i \in 1..k |-> Cifra(n, 10^(k - i))]
    BY DEF Casas, Cifra
  <1>3. \A i \in 1..k : Cifra(n, 10^(k - i)) \in Caracteres
    BY <1>1, DigitAtPlace
  <1> DEFINE c == [i \in 1..k |-> Cifra(n, 10^(k - i))]
  <1>4. k \in Nat /\ c \in [1..k -> Caracteres] /\ \A i \in 1..k : c[i] = Cifra(n, 10^(k - i))
    BY <1>3
  <1>5. Casas(n, k) = c
    BY <1>2
  <1> HIDE DEF c
  <1>6. c \in Seq(Caracteres) /\ Len(c) = k
    BY <1>4
  <1> QED
    BY <1>1, <1>4, <1>5, <1>6 DEF Textos

\* The digits of n up to the place p.
Parte(n, p) == n \div p

LEMMA LastDigit ==
  ASSUME NEW r \in Nat
  PROVE  10 * (r \div 10) + (r % 10) = r
  OBVIOUS

LEMMA PartsOfNumber ==
  ASSUME NEW n \in Nat
  PROVE  /\ Parte(n, 1) = n /\ \A p \in Potencias : Parte(n, p) \in Nat /\ Parte(n, 10 * p) = Parte(n, p) \div 10
         /\ \A p \in Potencias : n < 10 * p => Parte(n, 10 * p) = 0
         /\ Parte(n, 100) = n \div 100 /\ Parte(n, 10) = n \div 10
PROOF
  <1>1. Parte(n, 1) = n
    BY DEF Parte
  <1>2. ASSUME NEW p \in Potencias PROVE n \div p \in Nat /\ n \div (10 * p) = (n \div p) \div 10
    BY DEF Potencias
  <1>3. ASSUME NEW p \in Potencias, n < 10 * p PROVE n \div (10 * p) = 0
    BY <1>3 DEF Potencias
  <1> QED
    BY Zenon, <1>1, <1>2, <1>3 DEF Parte

LEMMA DigitIsRead ==
  ASSUME NEW w \in Textos, NEW i \in 1..Len(w), NEW n \in Nat, NEW p \in Potencias, w[i] = Cifra(n, p),
         NumeroAte(w)[i - 1] = Parte(n, 10 * p)
  PROVE  NumeroAte(w)[i] = Parte(n, p)
PROOF
  <1>1. w[i] \in Digitos /\ Valor(w[i]) = Parte(n, p) % 10
    BY Zenon, DigitAtPlace DEF Parte
  <1>2. NumeroAte(w)[i] = 10 * NumeroAte(w)[i - 1] + Valor(w[i])
    BY Zenon, <1>1, TextIsRead
  <1>3. Parte(n, p) \in Nat /\ Parte(n, 10 * p) = Parte(n, p) \div 10
    BY Zenon, PartsOfNumber
  <1>4. NumeroAte(w)[i] = 10 * (Parte(n, p) \div 10) + (Parte(n, p) % 10)
    BY Zenon, <1>1, <1>2, <1>3
  <1> QED
    BY Zenon, <1>3, <1>4, LastDigit

LEMMA SignIsSkipped ==
  ASSUME NEW w \in Textos, NEW i \in 1..Len(w), w[i] \notin Digitos
  PROVE  NumeroAte(w)[i] = NumeroAte(w)[i - 1]
  BY TextIsRead

\* What stands before the comma, after o characters: one, two, three digits, or four
\* with a point.
Reais(v, o, r, m) ==
  \/ m = 1 /\ r < 10 /\ v[o + 1] = Cifra(r, 1)
  \/ m = 2 /\ r < 100 /\ v[o + 1] = Cifra(r, 10) /\ v[o + 2] = Cifra(r, 1)
  \/ m = 3 /\ r < 1000 /\ v[o + 1] = Cifra(r, 100) /\ v[o + 2] = Cifra(r, 10) /\ v[o + 3] = Cifra(r, 1)
  \/ /\ m = 5 /\ r < 10000 /\ v[o + 1] = Cifra(r, 1000) /\ v[o + 2] = Ponto
     /\ v[o + 3] = Cifra(r, 100) /\ v[o + 4] = Cifra(r, 10) /\ v[o + 5] = Cifra(r, 1)

LEMMA RealsAreRead ==
  ASSUME NEW w \in Textos, NEW r \in Nat, NEW m \in 1..Len(w), Reais(w, 0, r, m)
  PROVE  NumeroAte(w)[m] = r
PROOF
  <1>0. Len(w) \in Nat /\ NumeroAte(w)[0] = 0 /\ Parte(r, 1) = r
    BY TextIsRead, PartsOfNumber DEF Textos
  <1>1. \A p \in {1, 10, 100, 1000} : p \in Potencias
    BY DEF Potencias
  <1>2. /\ r < 10 => Parte(r, 10) = 0
        /\ r < 100 => Parte(r, 100) = 0
        /\ r < 1000 => Parte(r, 1000) = 0
        /\ r < 10000 => Parte(r, 10000) = 0
    <2>1. \A p \in Potencias : r < 10 * p => Parte(r, 10 * p) = 0
      BY Zenon, PartsOfNumber
    <2> QED
      BY <1>1, <2>1
  <1>3. ASSUME NEW i \in 1..Len(w), NEW p \in {1, 10, 100, 1000}, w[i] = Cifra(r, p),
               NumeroAte(w)[i - 1] = Parte(r, 10 * p)
        PROVE  NumeroAte(w)[i] = Parte(r, p)
    BY <1>1, <1>3, DigitIsRead
  <1>4. CASE m = 1 /\ r < 10 /\ w[1] = Cifra(r, 1)
    BY <1>0, <1>2, <1>3, <1>4
  <1>5. CASE m = 2 /\ r < 100 /\ w[1] = Cifra(r, 10) /\ w[2] = Cifra(r, 1)
    <2>1. NumeroAte(w)[1] = Parte(r, 10)
      BY <1>0, <1>2, <1>3, <1>5
    <2> QED
      BY <1>0, <1>3, <1>5, <2>1
  <1>6. CASE m = 3 /\ r < 1000 /\ w[1] = Cifra(r, 100) /\ w[2] = Cifra(r, 10) /\ w[3] = Cifra(r, 1)
    <2>1. NumeroAte(w)[1] = Parte(r, 100)
      BY <1>0, <1>2, <1>3, <1>6
    <2>2. NumeroAte(w)[2] = Parte(r, 10)
      BY <1>0, <1>3, <1>6, <2>1
    <2> QED
      BY <1>0, <1>3, <1>6, <2>2
  <1>7. CASE /\ m = 5 /\ r < 10000 /\ w[1] = Cifra(r, 1000) /\ w[2] = Ponto
             /\ w[3] = Cifra(r, 100) /\ w[4] = Cifra(r, 10) /\ w[5] = Cifra(r, 1)
    <2>1. NumeroAte(w)[1] = Parte(r, 1000)
      BY <1>0, <1>2, <1>3, <1>7
    <2>2. NumeroAte(w)[2] = Parte(r, 1000)
      <3>1. w[2] \notin Digitos /\ 2 \in 1..Len(w)
        <4>1. w[2] = Ponto /\ 2 \in 1..Len(w)
          BY <1>0, <1>7
        <4> QED
          BY <4>1, SignsAreNoDigits
      <3>2. NumeroAte(w)[2] = NumeroAte(w)[2 - 1]
        BY <3>1, SignIsSkipped
      <3> QED
        BY <2>1, <3>2
    <2>3. NumeroAte(w)[3] = Parte(r, 100)
      BY <1>0, <1>3, <1>7, <2>2
    <2>4. NumeroAte(w)[4] = Parte(r, 10)
      BY <1>0, <1>3, <1>7, <2>3
    <2> QED
      BY <1>0, <1>3, <1>7, <2>4
  <1> QED
    BY <1>4, <1>5, <1>6, <1>7 DEF Reais

LEMMA CentsAreRead ==
  ASSUME NEW w \in Textos, NEW n \in Nat, NEW m \in {1, 2, 3, 5}, Reais(w, 0, Parte(n, 100), m),
         m + 2 <= Len(w), w[m + 1] = Virgula, w[m + 2] = Cifra(n, 10)
  PROVE  /\ NumeroAte(w)[m] = Parte(n, 100) /\ NumeroAte(w)[m + 2] = Parte(n, 10)
         /\ m + 3 <= Len(w) /\ w[m + 3] = Cifra(n, 1) => NumeroAte(w)[m + 3] = n
PROOF
  <1>0. Len(w) \in Nat /\ Parte(n, 1) = n /\ \A p \in {1, 10, 100} : p \in Potencias /\ Parte(n, p) \in Nat
    <2>1. Len(w) \in Nat /\ \A p \in {1, 10, 100} : p \in Potencias
      BY DEF Textos, Potencias
    <2> QED
      BY <2>1, PartsOfNumber
  <1>1. NumeroAte(w)[m] = Parte(n, 100)
    <2>1. m \in 1..Len(w)
      BY <1>0
    <2> QED
      BY <1>0, <2>1, RealsAreRead
  <1>2. NumeroAte(w)[m + 1] = Parte(n, 100)
    <2>1. m + 1 \in 1..Len(w) /\ (m + 1) - 1 = m
      BY <1>0
    <2>2. w[m + 1] \notin Digitos
      BY SignsAreNoDigits
    <2>3. NumeroAte(w)[m + 1] = NumeroAte(w)[(m + 1) - 1]
      BY <2>1, <2>2, SignIsSkipped
    <2> QED
      BY <1>1, <2>1, <2>3
  <1>3. NumeroAte(w)[m + 2] = Parte(n, 10)
    <2>1. m + 2 \in 1..Len(w) /\ (m + 2) - 1 = m + 1 /\ 10 * 10 = 100
      BY <1>0
    <2>2. NumeroAte(w)[(m + 2) - 1] = Parte(n, 10 * 10) /\ 10 \in Potencias
      BY <1>0, <1>2, <2>1
    <2> QED
      BY <2>1, <2>2, DigitIsRead
  <1>4. ASSUME m + 3 <= Len(w), w[m + 3] = Cifra(n, 1) PROVE NumeroAte(w)[m + 3] = n
    <2>1. m + 3 \in 1..Len(w) /\ (m + 3) - 1 = m + 2 /\ 10 * 1 = 10
      BY <1>0, <1>4
    <2>2. NumeroAte(w)[(m + 3) - 1] = Parte(n, 10 * 1) /\ 1 \in Potencias
      BY <1>0, <1>3, <2>1
    <2>3. NumeroAte(w)[m + 3] = Parte(n, 1)
      BY <1>4, <2>1, <2>2, DigitIsRead
    <2> QED
      BY <1>0, <2>3
  <1> QED
    BY <1>1, <1>3, <1>4

\* The text begins with the symbol.
ComSimbolo(v) == v[1] = Erre /\ v[2] = Cifrao /\ v[3] = Espaco

LEMMA SymbolIsText ==
  Simbolo \in Textos /\ Len(Simbolo) = 3 /\ ComSimbolo(Simbolo)
PROOF
  <1>1. Erre \in Caracteres /\ Cifrao \in Caracteres /\ Espaco \in Caracteres
    BY DEF Caracteres, Sinais
  <1>2. Simbolo = <<Erre, Cifrao, Espaco>>
    BY Zenon DEF Simbolo, Erre, Cifrao, Espaco
  <1> QED
    BY <1>1, <1>2 DEF Textos, ComSimbolo

LEMMA PieceOfText ==
  ASSUME NEW v \in Textos, NEW a \in 1..Len(v) + 1, NEW b \in 0..Len(v)
  PROVE  /\ SubSeq(v, a, b) \in Textos /\ Len(SubSeq(v, a, b)) = IF a <= b THEN b - a + 1 ELSE 0
         /\ \A i \in 1..b - a + 1 : SubSeq(v, a, b)[i] = v[a + i - 1]
PROOF
  <1>1. a \in Int /\ b \in Int /\ Len(v) \in Nat /\ \A i \in a..b : v[i] \in Caracteres
    BY DEF Textos
  <1> QED
    BY <1>1, SubSeqProperties DEF Textos

\* u is v and then w.
Junta(u, v, w) ==
  /\ u \in Textos /\ Len(u) = Len(v) + Len(w)
  /\ \A i \in 1..Len(v) : u[i] = v[i]
  /\ \A i \in 1..Len(w) : u[Len(v) + i] = w[i]

LEMMA TextsJoin ==
  ASSUME NEW v \in Textos, NEW w \in Textos
  PROVE  Junta(v \o w, v, w)
PROOF
  <1>1. Len(v) \in Nat /\ Len(w) \in Nat /\ v \in Seq(Caracteres) /\ w \in Seq(Caracteres)
    BY DEF Textos
  <1>2. /\ v \o w \in Seq(Caracteres) /\ Len(v \o w) = Len(v) + Len(w)
        /\ \A i \in 1..Len(v) + Len(w) : (v \o w)[i] = IF i <= Len(v) THEN v[i] ELSE w[i - Len(v)]
    BY <1>1, ConcatProperties
  <1>3. ASSUME NEW i \in 1..Len(v) PROVE (v \o w)[i] = v[i]
    BY <1>1, <1>2
  <1>4. ASSUME NEW i \in 1..Len(w) PROVE (v \o w)[Len(v) + i] = w[i]
    <2>1. Len(v) + i \in 1..Len(v) + Len(w) /\ ~(Len(v) + i <= Len(v)) /\ (Len(v) + i) - Len(v) = i
      BY <1>1
    <2> QED
      BY <1>2, <2>1
  <1> QED
    BY <1>2, <1>3, <1>4 DEF Textos, Junta

LEMMA SymbolAt ==
  ASSUME NEW v \in Textos, NEW i \in 1..Len(v) - 2
  PROVE  SubSeq(v, i, i + 2) = Simbolo <=> v[i] = Erre /\ v[i + 1] = Cifrao /\ v[i + 2] = Espaco
PROOF
  <1> DEFINE p == SubSeq(v, i, i + 2)
  <1>1. Len(v) \in Nat /\ i \in 1..Len(v) + 1 /\ i + 2 \in 0..Len(v) /\ i \in Nat
    BY DEF Textos
  <1>2. p \in Textos /\ Len(p) = 3 /\ \A j \in 1..3 : p[j] = v[i + j - 1]
    <2>1. (i + 2) - i + 1 = 3 /\ i <= i + 2
      BY <1>1
    <2> QED
      BY <1>1, <2>1, PieceOfText
  <1>3. p[1] = v[i] /\ p[2] = v[i + 1] /\ p[3] = v[i + 2]
    <2>1. i + 1 - 1 = i /\ i + 2 - 1 = i + 1 /\ i + 3 - 1 = i + 2
      BY <1>1
    <2> QED
      BY <1>2, <2>1
  <1> HIDE DEF p
  <1>4. ASSUME p[1] = Erre, p[2] = Cifrao, p[3] = Espaco PROVE p = Simbolo
    <2>1. \A j \in 1..3 : p[j] = Simbolo[j]
      <3>1. p[1] = Simbolo[1] /\ p[2] = Simbolo[2] /\ p[3] = Simbolo[3]
        BY <1>4, SymbolIsText DEF ComSimbolo
      <3>2. \A j \in 1..3 : j = 1 \/ j = 2 \/ j = 3
        OBVIOUS
      <3> QED
        BY <3>1, <3>2
    <2> QED
      BY <1>2, <2>1, SymbolIsText, SeqEqual DEF Textos
  <1>5. p = Simbolo => p[1] = Erre /\ p[2] = Cifrao /\ p[3] = Espaco
    BY SymbolIsText DEF ComSimbolo
  <1> QED
    BY <1>3, <1>4, <1>5 DEF p

LEMMA SymbolIsTaken ==
  ASSUME NEW v \in Textos, Len(v) >= 3, ComSimbolo(v)
  PROVE  /\ SemSimbolo(v) \in Textos /\ Len(SemSimbolo(v)) = Len(v) - 3
         /\ \A i \in 1..Len(v) - 3 : SemSimbolo(v)[i] = v[i + 3]
PROOF
  <1>0. Len(v) \in Nat
    BY DEF Textos
  <1> DEFINE onde == {i \in 1..Len(v) - 2 : SubSeq(v, i, i + 2) = Simbolo}
             k == CHOOSE i \in onde : \A j \in onde : i <= j
  <1>1. 1 \in onde
    <2>1. 1 \in 1..Len(v) - 2 /\ v[1] = Erre /\ v[1 + 1] = Cifrao /\ v[1 + 2] = Espaco
      BY <1>0 DEF ComSimbolo
    <2>2. SubSeq(v, 1, 1 + 2) = Simbolo
      BY <2>1, SymbolAt
    <2> QED
      BY <2>1, <2>2
  <1>2. k = 1
    <2>1. \A j \in onde : 1 <= j /\ j \in Int
      BY <1>0
    <2> HIDE DEF onde
    <2>2. k \in onde /\ \A j \in onde : k <= j
      BY <1>1, <2>1
    <2> HIDE DEF k
    <2>3. k <= 1 /\ 1 <= k /\ k \in Int
      BY <1>1, <2>1, <2>2
    <2> QED
      BY <2>3
  <1>3. SemSimbolo(v) = SubSeq(v, 1, k - 1) \o SubSeq(v, k + 2 + 1, Len(v))
    <2>1. onde # {}
      BY <1>1
    <2> QED
      BY Zenon, <2>1 DEF SemSimbolo, Corta
  <1> HIDE DEF k, onde
  <1>4. SemSimbolo(v) = SubSeq(v, 1, 0) \o SubSeq(v, 4, Len(v))
    BY <1>2, <1>3
  <1> DEFINE a == SubSeq(v, 1, 0)  b == SubSeq(v, 4, Len(v))
  <1>5. a \in Textos /\ Len(a) = 0
    <2>1. 1 \in 1..Len(v) + 1 /\ 0 \in 0..Len(v) /\ ~(1 <= 0)
      BY <1>0
    <2> QED
      BY <2>1, PieceOfText
  <1>6. b \in Textos /\ Len(b) = Len(v) - 3 /\ \A i \in 1..Len(v) - 3 : b[i] = v[i + 3]
    <2>1. 4 \in 1..Len(v) + 1 /\ Len(v) \in 0..Len(v) /\ Len(v) - 4 + 1 = Len(v) - 3
      BY <1>0
    <2>2. b \in Textos /\ Len(b) = (IF 4 <= Len(v) THEN Len(v) - 4 + 1 ELSE 0)
          /\ \A i \in 1..Len(v) - 4 + 1 : b[i] = v[4 + i - 1]
      BY <2>1, PieceOfText
    <2> HIDE DEF b
    <2>3. Len(b) = Len(v) - 3
      <3>1. CASE 4 <= Len(v)
        BY <1>0, <2>2, <3>1
      <3>2. CASE Len(v) = 3
        BY <2>2, <3>2
      <3>3. 4 <= Len(v) \/ Len(v) = 3
        <4> DEFINE n == Len(v)
        <4>1. n \in Nat /\ n >= 3
          BY <1>0
        <4> HIDE DEF n
        <4>2. 4 <= n \/ n = 3
          BY <4>1
        <4> QED
          BY Zenon, <4>2 DEF n
      <3> QED
        BY Zenon, <3>1, <3>2, <3>3
    <2>4. ASSUME NEW i \in 1..Len(v) - 3 PROVE b[i] = v[i + 3]
      <3>1. 4 + i - 1 = i + 3 /\ i \in 1..Len(v) - 4 + 1
        BY <1>0
      <3> QED
        BY <2>2, <3>1
    <2> QED
      BY <2>2, <2>3, <2>4
  <1>7. SemSimbolo(v) = a \o b
    BY <1>4
  <1> HIDE DEF a, b
  <1>8. Junta(SemSimbolo(v), a, b)
    BY Zenon, <1>5, <1>6, <1>7, TextsJoin
  <1> QED
    BY <1>0, <1>5, <1>6, <1>8 DEF Junta

LEMMA NoSymbolToTake ==
  ASSUME NEW v \in Textos, \A i \in 1..Len(v) : v[i] # Erre
  PROVE  SemSimbolo(v) = v
PROOF
  <1>0. Len(v) \in Nat
    BY DEF Textos
  <1> DEFINE onde == {i \in 1..Len(v) - 2 : SubSeq(v, i, i + 2) = Simbolo}
  <1>1. onde = {}
    <2> SUFFICES ASSUME NEW i \in 1..Len(v) - 2, SubSeq(v, i, i + 2) = Simbolo PROVE FALSE
      OBVIOUS
    <2>1. v[i] = Erre /\ i \in 1..Len(v)
      BY <1>0, SymbolAt
    <2> QED
      BY <2>1
  <1> QED
    BY Zenon, <1>1 DEF SemSimbolo

LEMMA SignIsText ==
  ASSUME NEW c \in Caracteres
  PROVE  <<c>> \in Textos /\ Len(<<c>>) = 1 /\ <<c>>[1] = c
  BY DEF Textos

LEMMA PlacesWritten ==
  ASSUME NEW n \in Nat
  PROVE  /\ Casas(n, 1) \in Textos /\ Len(Casas(n, 1)) = 1 /\ Casas(n, 1)[1] = Cifra(n, 1)
         /\ Casas(n, 2) \in Textos /\ Len(Casas(n, 2)) = 2
         /\ Casas(n, 2)[1] = Cifra(n, 10) /\ Casas(n, 2)[2] = Cifra(n, 1)
         /\ Casas(n, 3) \in Textos /\ Len(Casas(n, 3)) = 3 /\ Casas(n, 3)[1] = Cifra(n, 100)
         /\ Casas(n, 3)[2] = Cifra(n, 10) /\ Casas(n, 3)[3] = Cifra(n, 1)
PROOF
  <1>1. \A k \in {1, 2, 3} : /\ Casas(n, k) \in Textos /\ Len(Casas(n, k)) = k
                             /\ \A i \in 1..k : Casas(n, k)[i] = Cifra(n, 10^(k - i))
    BY PlacesAreText
  <1>2. 10^(1 - 1) = 1 /\ 10^(2 - 1) = 10 /\ 10^(2 - 2) = 1
        /\ 10^(3 - 1) = 100 /\ 10^(3 - 2) = 10 /\ 10^(3 - 3) = 1
    OBVIOUS
  <1>3. Casas(n, 1) \in Textos /\ Len(Casas(n, 1)) = 1 /\ Casas(n, 1)[1] = Cifra(n, 1)
    BY <1>1, <1>2
  <1>4. /\ Casas(n, 2) \in Textos /\ Len(Casas(n, 2)) = 2
        /\ Casas(n, 2)[1] = Cifra(n, 10) /\ Casas(n, 2)[2] = Cifra(n, 1)
    BY <1>1, <1>2
  <1>5. /\ Casas(n, 3) \in Textos /\ Len(Casas(n, 3)) = 3 /\ Casas(n, 3)[1] = Cifra(n, 100)
        /\ Casas(n, 3)[2] = Cifra(n, 10) /\ Casas(n, 3)[3] = Cifra(n, 1)
    BY <1>1, <1>2
  <1> QED
    BY Zenon, <1>3, <1>4, <1>5

\* Numbers the field has room for; big numerals are named.
Reais4(r) == r < 10000
Mil == 1000

LEMMA RealsAreWritten ==
  ASSUME NEW r \in Nat, Reais4(r)
  PROVE  \E m \in {1, 2, 3, 5} :
           Inteiro(r) \in Textos /\ Len(Inteiro(r)) = m /\ Reais(Inteiro(r), 0, r, m)
PROOF
  <1>1. CASE r < Mil
    <2> DEFINE Serve(k) == r % Mil < 10^k /\ (k = 1 \/ r % Mil >= 10^(k - 1))
    <2>1. r % Mil = r
      BY <1>1 DEF Mil
    <2>2. Serve(1) \/ Serve(2) \/ Serve(3)
      <3>1. 10^1 = 10 /\ 10^2 = 100 /\ 10^3 = 1000 /\ 10^(2 - 1) = 10 /\ 10^(3 - 1) = 100
        OBVIOUS
      <3>2. r < 10 \/ (r < 100 /\ r >= 10) \/ (r < 1000 /\ r >= 100)
        BY <1>1 DEF Mil
      <3> QED
        BY <2>1, <3>1, <3>2
    <2>3. ASSUME NEW k \in {1, 2, 3}, Serve(k) PROVE r < 10^k
      BY <2>1, <2>3
    <2>4. Inteiro(r) = Casas(r, CHOOSE k \in 1..3 : Serve(k))
      BY Zenon, <1>1 DEF Inteiro, Mil
    <2> HIDE DEF Serve
    <2>5. \E k \in {1, 2, 3} : Serve(k) /\ Inteiro(r) = Casas(r, k)
      <3>1. \E k \in 1..3 : Serve(k)
        BY <2>2
      <3>2. PICK k \in 1..3 : k = CHOOSE j \in 1..3 : Serve(j)
        BY <3>1
      <3>3. Serve(k)
        BY Zenon, <3>1, <3>2
      <3>4. k \in {1, 2, 3}
        OBVIOUS
      <3> QED
        BY Zenon, <2>4, <3>2, <3>3, <3>4
    <2>6. PICK k \in {1, 2, 3} : r < 10^k /\ Inteiro(r) = Casas(r, k)
      BY Zenon, <2>3, <2>5
    <2>7. CASE k = 1
      <3>1. r < 10 /\ Inteiro(r) = Casas(r, 1)
        BY <2>6, <2>7, PowersOfTen
      <3> QED
        BY <3>1, PlacesWritten DEF Reais
    <2>8. CASE k = 2
      <3>1. r < 100 /\ Inteiro(r) = Casas(r, 2)
        BY <2>6, <2>8, PowersOfTen
      <3> QED
        BY <3>1, PlacesWritten DEF Reais
    <2>9. CASE k = 3
      <3>1. r < 1000 /\ Inteiro(r) = Casas(r, 3)
        BY <2>6, <2>9, PowersOfTen
      <3> QED
        BY <3>1, PlacesWritten DEF Reais
    <2> QED
      BY <2>7, <2>8, <2>9
  <1>2. CASE ~(r < Mil)
    <2> DEFINE a == Casas(r \div Mil, 1)  b == <<Ponto>>  c == Casas(r, 3)
    <2>1. Inteiro(r) = (a \o b) \o c
      BY Zenon, <1>2 DEF Inteiro, Ponto, Mil
    <2>2. a \in Textos /\ Len(a) = 1 /\ a[1] = Cifra(r, Mil)
      <3>1. r \div Mil \in Nat /\ (r \div Mil) \div 1 = r \div Mil
        BY DEF Mil
      <3> DEFINE q == r \div Mil
      <3>2. q \in Nat /\ q \div 1 = q /\ Cifra(r, Mil) = Letra[(q % 10) + 1]
        BY Zenon, <3>1 DEF Cifra
      <3> HIDE DEF q
      <3>3. Cifra(q, 1) = Letra[(q % 10) + 1]
        BY <3>2 DEF Cifra
      <3>4. Casas(q, 1) \in Textos /\ Len(Casas(q, 1)) = 1 /\ Casas(q, 1)[1] = Cifra(q, 1)
        BY Zenon, <3>2, PlacesWritten
      <3> QED
        BY Zenon, <3>2, <3>3, <3>4 DEF q
    <2>3. b \in Textos /\ Len(b) = 1 /\ b[1] = Ponto
      <3>1. Ponto \in Caracteres
        BY DEF Caracteres, Sinais
      <3> QED
        BY <3>1, SignIsText
    <2>4. c \in Textos /\ Len(c) = 3 /\ c[1] = Cifra(r, 100) /\ c[2] = Cifra(r, 10) /\ c[3] = Cifra(r, 1)
      BY Zenon, PlacesWritten
    <2> HIDE DEF a, b, c
    <2> DEFINE d == a \o b
    <2>5. Junta(d, a, b)
      BY Zenon, <2>2, <2>3, TextsJoin
    <2>6. Inteiro(r) = d \o c
      BY Zenon, <2>1
    <2> HIDE DEF d
    <2>7. d \in Textos /\ Len(d) = 2 /\ d[1] = Cifra(r, Mil) /\ d[2] = Ponto
      BY <2>2, <2>3, <2>5 DEF Junta
    <2> DEFINE e == Inteiro(r)
    <2>8. Junta(e, d, c)
      BY Zenon, <2>4, <2>6, <2>7, TextsJoin
    <2> HIDE DEF e
    <2>9. e \in Textos /\ Len(e) = 5 /\ e[1] = d[1] /\ e[2] = d[2] /\ e[3] = c[1] /\ e[4] = c[2] /\ e[5] = c[3]
      BY <2>4, <2>7, <2>8 DEF Junta
    <2>10. Reais(e, 0, r, 5)
      BY <2>4, <2>7, <2>9 DEF Reais, Reais4, Mil
    <2>11. e \in Textos /\ Len(e) = 5 /\ 5 \in {1, 2, 3, 5}
      BY <2>9
    <2> QED
      BY Zenon, <2>10, <2>11 DEF e
  <1> QED
    BY <1>1, <1>2

LEMMA PrefixIsSymbol ==
  ASSUME NEW v \in Textos
  PROVE  IsPrefix(Simbolo, v) <=> Len(v) >= 3 /\ ComSimbolo(v)
PROOF
  <1>1. Len(v) \in Nat /\ Len(Simbolo) = 3 /\ Simbolo \in Textos
    BY SymbolIsText DEF Textos
  <1>2. SubSeq(Simbolo, 1, 3) = Simbolo
    BY <1>1, SubSeqFull DEF Textos
  <1>3. IsPrefix(Simbolo, v) <=> 3 <= Len(v) /\ Simbolo = SubSeq(v, 1, 3)
    BY Zenon, <1>1, <1>2 DEF IsPrefix
  <1>4. ASSUME 3 <= Len(v) PROVE SubSeq(v, 1, 3) = Simbolo <=> ComSimbolo(v)
    <2>1. 1 \in 1..Len(v) - 2 /\ 1 + 2 = 3 /\ 1 + 1 = 2
      BY <1>1, <1>4
    <2>2. SubSeq(v, 1, 1 + 2) = Simbolo <=> v[1] = Erre /\ v[1 + 1] = Cifrao /\ v[1 + 2] = Espaco
      BY Zenon, <2>1, SymbolAt
    <2> QED
      BY <2>2 DEF ComSimbolo
  <1> QED
    BY <1>1, <1>3, <1>4

Cabe(n) == n < 1000000

\* A text that begins like the mask of n, with m characters before the comma: up
\* to the last digit, and with it.
Comeca(v, n, m) ==
  /\ v \in Textos /\ n \in Nat /\ Cabe(n) /\ m \in {1, 2, 3, 5} /\ m + 5 <= Len(v)
  /\ ComSimbolo(v) /\ Reais(v, 3, Parte(n, 100), m)
  /\ v[m + 4] = Virgula /\ v[m + 5] = Cifra(n, 10)

Escrito(v, n, m) == Comeca(v, n, m) /\ m + 6 <= Len(v) /\ v[m + 6] = Cifra(n, 1)

LEMMA RealsBegin ==
  ASSUME NEW v, NEW o \in {0, 3}, NEW r \in Nat, NEW m, Reais(v, o, r, m)
  PROVE  v[o + 1] \in Digitos
PROOF
  <1>1. \A p \in {1, 10, 100, 1000} : Cifra(r, p) \in Digitos
    <2>1. \A p \in {1, 10, 100, 1000} : p \in Potencias
      BY DEF Potencias
    <2> QED
      BY <2>1, DigitAtPlace
  <1> QED
    BY <1>1 DEF Reais

LEMMA RealsMove ==
  ASSUME NEW v, NEW a \in {0, 3}, NEW w, NEW b \in {0, 3}, NEW r, NEW m \in {1, 2, 3, 5}, Reais(v, a, r, m),
         \A i \in 1..m : w[b + i] = v[a + i]
  PROVE  Reais(w, b, r, m)
  BY DEF Reais

LEMMA MaskIsWritten ==
  ASSUME NEW n \in Nat, Cabe(n), NEW v, Numero(SemSimbolo(v)) = n
  PROVE  \E m \in {1, 2, 3, 5} : Escrito(maskValue(v), n, m) /\ Len(maskValue(v)) = m + 6
PROOF
  <1> DEFINE r == Parte(n, 100)
  <1>1. r \in Nat /\ Reais4(r) /\ n \div 100 = r
    <2>1. n < 1000000 => n \div 100 < 10000
      OBVIOUS
    <2>2. n \div 100 \in Nat
      OBVIOUS
    <2>3. n \div 100 < 10000
      BY <2>1 DEF Cabe
    <2> QED
      BY <2>2, <2>3 DEF Parte, Reais4
  <1> DEFINE a == Inteiro(r)  b == <<Virgula>>  c == Casas(n, 2)
  <1>2. maskValue(v) = setSymbol((a \o b) \o c)
    BY Zenon, <1>1 DEF maskValue, Virgula
  <1> HIDE DEF r
  <1>3. PICK m \in {1, 2, 3, 5} : a \in Textos /\ Len(a) = m /\ Reais(a, 0, r, m)
    BY Zenon, <1>1, RealsAreWritten
  <1>4. b \in Textos /\ Len(b) = 1 /\ b[1] = Virgula
    <2>1. Virgula \in Caracteres
      BY DEF Caracteres, Sinais
    <2> QED
      BY <2>1, SignIsText
  <1>5. c \in Textos /\ Len(c) = 2 /\ c[1] = Cifra(n, 10) /\ c[2] = Cifra(n, 1)
    BY Zenon, PlacesWritten
  <1> DEFINE d == a \o b
  <1>6. Junta(d, a, b)
    BY Zenon, <1>3, <1>4, TextsJoin
  <1>7. maskValue(v) = setSymbol(d \o c)
    BY Zenon, <1>2
  <1> HIDE DEF a, b, c, d
  <1> DEFINE e == d \o c
  <1>8. d \in Textos
    BY <1>6 DEF Junta
  <1>9. Junta(e, d, c) /\ maskValue(v) = setSymbol(e)
    BY Zenon, <1>5, <1>7, <1>8, TextsJoin
  <1> HIDE DEF e
  <1>10. /\ e \in Textos /\ Len(e) = m + 3 /\ \A i \in 1..m : e[i] = a[i]
         /\ e[m + 1] = Virgula /\ e[m + 2] = Cifra(n, 10) /\ e[m + 3] = Cifra(n, 1)
    <2>1. /\ Len(d) = m + 1 /\ d[m + 1] = b[1] /\ \A i \in 1..m : d[i] = a[i]
      BY <1>3, <1>4, <1>6 DEF Junta
    <2>2. /\ e \in Textos /\ Len(e) = m + 3 /\ \A i \in 1..m + 1 : e[i] = d[i]
          /\ \A i \in 1..2 : e[m + 1 + i] = c[i]
      BY <1>5, <1>9, <2>1 DEF Junta
    <2>3. \A i \in 1..m : e[i] = a[i]
      BY <2>1, <2>2
    <2>4. e[m + 1] = Virgula
      BY <1>4, <2>1, <2>2
    <2>5. e[m + 2] = c[1] /\ e[m + 3] = c[2]
      <3>1. m + 1 + 1 = m + 2 /\ m + 1 + 2 = m + 3
        OBVIOUS
      <3> QED
        BY <2>2, <3>1
    <2> QED
      BY <1>5, <2>2, <2>3, <2>4, <2>5
  <1>11. Reais(e, 0, r, m)
    BY <1>3, <1>10, RealsMove
  <1>12. ~IsPrefix(Simbolo, e)
    <2>1. e[1] \in Digitos
      BY <1>1, <1>11, RealsBegin
    <2> QED
      BY <1>10, <2>1, PrefixIsSymbol, SignsAreNoDigits DEF ComSimbolo
  <1> DEFINE t == Simbolo \o e
  <1>13. maskValue(v) = t /\ Junta(t, Simbolo, e)
    BY Zenon, <1>9, <1>10, <1>12, TextsJoin, SymbolIsText DEF setSymbol
  <1> HIDE DEF t
  <1>14. t \in Textos /\ Len(t) = m + 6 /\ ComSimbolo(t) /\ \A i \in 1..m + 3 : t[3 + i] = e[i]
    BY <1>10, <1>13, SymbolIsText DEF Junta, ComSimbolo
  <1>15. Reais(t, 3, r, m)
    <2>1. \A i \in 1..m : t[3 + i] = e[0 + i]
      BY <1>14
    <2> QED
      BY <1>11, <2>1, RealsMove
  <1>16. t[m + 4] = Virgula /\ t[m + 5] = Cifra(n, 10) /\ t[m + 6] = Cifra(n, 1)
    <2>1. t[3 + (m + 1)] = e[m + 1] /\ t[3 + (m + 2)] = e[m + 2] /\ t[3 + (m + 3)] = e[m + 3]
      BY <1>14
    <2>2. 3 + (m + 1) = m + 4 /\ 3 + (m + 2) = m + 5 /\ 3 + (m + 3) = m + 6
      OBVIOUS
    <2> QED
      BY <1>10, <2>1, <2>2
  <1>17. Escrito(t, n, m)
    BY <1>14, <1>15, <1>16 DEF Escrito, Comeca, r
  <1> QED
    BY Zenon, <1>13, <1>14, <1>17

LEMMA BeginningIsRead ==
  ASSUME NEW v, NEW n, NEW m, Comeca(v, n, m)
  PROVE  /\ SemSimbolo(v) \in Textos /\ Len(SemSimbolo(v)) = Len(v) - 3
         /\ \A i \in 1..Len(v) - 3 : SemSimbolo(v)[i] = v[i + 3]
         /\ NumeroAte(SemSimbolo(v))[m] = Parte(n, 100) /\ NumeroAte(SemSimbolo(v))[m + 2] = Parte(n, 10)
         /\ Escrito(v, n, m) => NumeroAte(SemSimbolo(v))[m + 3] = n
PROOF
  <1> DEFINE w == SemSimbolo(v)
  <1>1. v \in Textos /\ Len(v) \in Nat /\ n \in Nat /\ m \in {1, 2, 3, 5} /\ m + 5 <= Len(v)
    BY DEF Comeca, Textos
  <1>2. Len(v) >= 3 /\ ComSimbolo(v)
    BY <1>1 DEF Comeca
  <1>3. w \in Textos /\ Len(w) = Len(v) - 3 /\ \A i \in 1..Len(v) - 3 : w[i] = v[i + 3]
    BY <1>1, <1>2, SymbolIsTaken
  <1> HIDE DEF w
  <1>4. Reais(w, 0, Parte(n, 100), m)
    <2>1. \A i \in 1..m : w[0 + i] = v[3 + i]
      <3> SUFFICES ASSUME NEW i \in 1..m PROVE w[0 + i] = v[3 + i]
        OBVIOUS
      <3>1. i \in 1..Len(v) - 3 /\ 0 + i = i /\ i + 3 = 3 + i
        BY <1>1
      <3> QED
        BY <1>3, <3>1
    <2>2. Reais(v, 3, Parte(n, 100), m)
      BY DEF Comeca
    <2> QED
      BY <1>1, <2>1, <2>2, RealsMove
  <1>5. m + 2 <= Len(w) /\ w[m + 1] = Virgula /\ w[m + 2] = Cifra(n, 10)
    <2>1. /\ m + 1 \in 1..Len(v) - 3 /\ (m + 1) + 3 = m + 4
          /\ m + 2 \in 1..Len(v) - 3 /\ (m + 2) + 3 = m + 5
      BY <1>1
    <2>2. w[m + 1] = v[m + 4] /\ w[m + 2] = v[m + 5]
      BY <1>3, <2>1
    <2>3. m + 2 <= Len(w)
      BY <1>1, <1>3
    <2> QED
      BY <2>2, <2>3 DEF Comeca
  <1>6. /\ NumeroAte(w)[m] = Parte(n, 100) /\ NumeroAte(w)[m + 2] = Parte(n, 10)
        /\ m + 3 <= Len(w) /\ w[m + 3] = Cifra(n, 1) => NumeroAte(w)[m + 3] = n
    BY <1>1, <1>3, <1>4, <1>5, CentsAreRead
  <1>7. ASSUME Escrito(v, n, m) PROVE NumeroAte(w)[m + 3] = n
    <2>1. m + 6 <= Len(v) /\ v[m + 6] = Cifra(n, 1)
      BY <1>7 DEF Escrito
    <2>2. m + 3 \in 1..Len(v) - 3 /\ (m + 3) + 3 = m + 6 /\ m + 3 <= Len(w)
      BY <1>1, <1>3, <2>1
    <2>3. w[m + 3] = Cifra(n, 1)
      BY <1>3, <2>1, <2>2
    <2> QED
      BY <1>6, <2>2, <2>3
  <1> QED
    BY Zenon, <1>3, <1>6, <1>7 DEF w

\* What follows the mask: nothing, the character of an arrow key, a digit, or both.
LEMMA BeginningAlone ==
  ASSUME NEW v, NEW n, NEW m, Comeca(v, n, m), Len(v) = m + 5
  PROVE  Numero(SemSimbolo(v)) = Parte(n, 10)
PROOF
  <1>1. m \in {1, 2, 3, 5} /\ Len(SemSimbolo(v)) = Len(v) - 3
    BY BeginningIsRead DEF Comeca
  <1>2. Len(SemSimbolo(v)) = m + 2
    BY <1>1
  <1>3. NumeroAte(SemSimbolo(v))[m + 2] = Parte(n, 10)
    BY BeginningIsRead
  <1> QED
    BY Zenon, <1>2, <1>3 DEF Numero

LEMMA MaskAlone ==
  ASSUME NEW v, NEW n, NEW m, Escrito(v, n, m), Len(v) = m + 6 \/ (Len(v) = m + 7 /\ v[m + 7] = Cento)
  PROVE  Numero(SemSimbolo(v)) = n
PROOF
  <1> DEFINE w == SemSimbolo(v)
  <1>1. Comeca(v, n, m) /\ m \in {1, 2, 3, 5}
    BY DEF Escrito, Comeca
  <1>2. /\ w \in Textos /\ Len(w) = Len(v) - 3 /\ \A i \in 1..Len(v) - 3 : w[i] = v[i + 3]
        /\ NumeroAte(w)[m + 3] = n
    BY <1>1, BeginningIsRead
  <1> HIDE DEF w
  <1>3. CASE Len(v) = m + 6
    <2>1. Len(w) = m + 3
      BY <1>1, <1>2, <1>3
    <2> QED
      BY Zenon, <1>2, <2>1 DEF Numero, w
  <1>4. CASE Len(v) = m + 7 /\ v[m + 7] = Cento
    <2>1. Len(w) = m + 4 /\ m + 4 \in 1..Len(w) /\ m + 4 \in 1..Len(v) - 3 /\ (m + 4) + 3 = m + 7
          /\ (m + 4) - 1 = m + 3
      BY <1>1, <1>2, <1>4
    <2>2. w[m + 4] \notin Digitos
      BY <1>2, <1>4, <2>1, SignsAreNoDigits
    <2>3. NumeroAte(w)[m + 4] = NumeroAte(w)[(m + 4) - 1]
      BY <1>2, <2>1, <2>2, SignIsSkipped
    <2> QED
      BY Zenon, <1>2, <2>1, <2>3 DEF Numero, w
  <1> QED
    BY <1>3, <1>4

LEMMA DigitAfter ==
  ASSUME NEW v, NEW n, NEW m, Escrito(v, n, m), NEW d \in 0..9,
         \/ Len(v) = m + 7 /\ v[m + 7] = Letra[d + 1]
         \/ Len(v) = m + 8 /\ v[m + 7] = Cento /\ v[m + 8] = Letra[d + 1]
  PROVE  Numero(SemSimbolo(v)) = 10 * n + d
PROOF
  <1> DEFINE w == SemSimbolo(v)
  <1>1. Comeca(v, n, m) /\ m \in {1, 2, 3, 5} /\ n \in Nat
    BY DEF Escrito, Comeca
  <1>2. /\ w \in Textos /\ Len(w) = Len(v) - 3 /\ \A i \in 1..Len(v) - 3 : w[i] = v[i + 3]
        /\ NumeroAte(w)[m + 3] = n
    BY <1>1, BeginningIsRead
  <1> HIDE DEF w
  <1>3. Letra[d + 1] \in Digitos /\ Valor(Letra[d + 1]) = d
    BY LettersOfDigits
  <1>4. ASSUME NEW i \in 1..Len(w), w[i] = Letra[d + 1], NumeroAte(w)[i - 1] = n PROVE NumeroAte(w)[i] = 10 * n + d
    BY <1>2, <1>3, <1>4, TextIsRead
  <1>5. CASE Len(v) = m + 7 /\ v[m + 7] = Letra[d + 1]
    <2>1. Len(w) = m + 4 /\ m + 4 \in 1..Len(w) /\ m + 4 \in 1..Len(v) - 3 /\ (m + 4) + 3 = m + 7
          /\ (m + 4) - 1 = m + 3
      BY <1>1, <1>2, <1>5
    <2>2. w[m + 4] = Letra[d + 1] /\ NumeroAte(w)[(m + 4) - 1] = n
      BY <1>2, <1>5, <2>1
    <2>3. NumeroAte(w)[m + 4] = 10 * n + d
      BY <1>4, <2>1, <2>2
    <2> QED
      BY Zenon, <2>1, <2>3 DEF Numero, w
  <1>6. CASE Len(v) = m + 8 /\ v[m + 7] = Cento /\ v[m + 8] = Letra[d + 1]
    <2>1. /\ Len(w) = m + 5 /\ m + 4 \in 1..Len(w) /\ m + 5 \in 1..Len(w)
          /\ m + 4 \in 1..Len(v) - 3 /\ m + 5 \in 1..Len(v) - 3
          /\ (m + 4) + 3 = m + 7 /\ (m + 5) + 3 = m + 8 /\ (m + 4) - 1 = m + 3 /\ (m + 5) - 1 = m + 4
      BY <1>1, <1>2, <1>6
    <2>2. w[m + 4] \notin Digitos /\ w[m + 5] = Letra[d + 1]
      BY <1>2, <1>6, <2>1, SignsAreNoDigits
    <2>3. NumeroAte(w)[m + 4] = NumeroAte(w)[(m + 4) - 1]
      BY <1>2, <2>1, <2>2, SignIsSkipped
    <2>4. NumeroAte(w)[(m + 5) - 1] = n
      BY <1>2, <2>1, <2>3
    <2>5. NumeroAte(w)[m + 5] = 10 * n + d
      BY <1>4, <2>1, <2>2, <2>4
    <2> QED
      BY Zenon, <2>1, <2>5 DEF Numero, w
  <1> QED
    BY <1>5, <1>6

\* u is v from the place a to the place b.
Pedaco(u, v, a, b) ==
  /\ u \in Textos /\ Len(u) = (IF a <= b THEN b - a + 1 ELSE 0)
  /\ \A i \in 1..b - a + 1 : u[i] = v[a + i - 1]

LEMMA PieceIsCut ==
  ASSUME NEW v \in Textos, NEW a \in 1..Len(v) + 1, NEW b \in 0..Len(v)
  PROVE  Pedaco(SubSeq(v, a, b), v, a, b)
  BY PieceOfText DEF Pedaco

LEMMA NumberOfPlaces ==
  ASSUME NEW w \in Textos, NEW n \in Nat, Len(w) = 4,
         w[1] = Cifra(n, 10), w[2] = Cifra(n, 1), w[3] = Letra[1], w[4] = Letra[1]
  PROVE  Numero(w) = 100 * (n % 100)
PROOF
  <1>1. \A p \in {1, 10} : p \in Potencias
    BY DEF Potencias
  <1>2. /\ w[1] \in Digitos /\ Valor(w[1]) = (n \div 10) % 10
        /\ w[2] \in Digitos /\ Valor(w[2]) = (n \div 1) % 10
    BY <1>1, DigitAtPlace
  <1>3. w[3] \in Digitos /\ Valor(w[3]) = 0 /\ w[4] \in Digitos /\ Valor(w[4]) = 0
    <2>1. 0 \in 0..9 /\ 0 + 1 = 1
      OBVIOUS
    <2>2. Letra[0 + 1] \in Digitos /\ Valor(Letra[0 + 1]) = 0
      BY <2>1, LettersOfDigits
    <2> QED
      BY <2>2
  <1>4. /\ NumeroAte(w)[0] = 0
        /\ \A i \in 1..4 : w[i] \in Digitos => NumeroAte(w)[i] = 10 * NumeroAte(w)[i - 1] + Valor(w[i])
    BY TextIsRead
  <1> DEFINE a == (n \div 10) % 10  b == (n \div 1) % 10
  <1>5. a \in Nat /\ b \in Nat /\ 10 * a + b = n % 100
    OBVIOUS
  <1>6. Valor(w[1]) = a /\ Valor(w[2]) = b
    BY <1>2
  <1> HIDE DEF a, b
  <1>7. NumeroAte(w)[1] = a
    <2>1. NumeroAte(w)[1] = 10 * NumeroAte(w)[1 - 1] + Valor(w[1])
      BY <1>2, <1>4
    <2> QED
      BY <1>4, <1>5, <1>6, <2>1
  <1>8. NumeroAte(w)[2] = 10 * a + b
    <2>1. NumeroAte(w)[2] = 10 * NumeroAte(w)[2 - 1] + Valor(w[2])
      BY <1>2, <1>4
    <2> QED
      BY <1>5, <1>6, <1>7, <2>1
  <1>9. NumeroAte(w)[3] = 10 * (10 * a + b)
    <2>1. NumeroAte(w)[3] = 10 * NumeroAte(w)[3 - 1] + Valor(w[3])
      BY <1>3, <1>4
    <2> QED
      BY <1>3, <1>5, <1>8, <2>1
  <1>10. NumeroAte(w)[4] = 100 * (10 * a + b)
    <2>1. NumeroAte(w)[4] = 10 * NumeroAte(w)[4 - 1] + Valor(w[4])
      BY <1>3, <1>4
    <2> QED
      BY <1>3, <1>5, <1>9, <2>1
  <1> QED
    BY Zenon, <1>5, <1>10 DEF Numero

LEMMA LeastOf ==
  ASSUME NEW S, NEW x \in S, S \subseteq Int, \A y \in S : x <= y
  PROVE  (CHOOSE i \in S : \A j \in S : i <= j) = x
PROOF
  <1> DEFINE c == CHOOSE i \in S : \A j \in S : i <= j
  <1>1. c \in S /\ \A j \in S : c <= j
    BY Zenon
  <1> HIDE DEF c
  <1>2. c <= x /\ x <= c /\ c \in Int /\ x \in Int
    BY <1>1
  <1>3. c = x
    BY <1>2
  <1> QED
    BY Zenon, <1>3 DEF c

\* The characters of the mask behind the symbol belong to a number, the digit at its
\* end for one.
LEMMA NumeralOfMask ==
  ASSUME NEW v, NEW n, NEW m, Escrito(v, n, m), Len(v) = m + 6 \/ (Len(v) = m + 7 /\ v[m + 7] = Cento)
  PROVE  /\ Numeral(v) \in Textos /\ Len(Numeral(v)) = m + 3
         /\ \A i \in 1..m + 3 : Numeral(v)[i] = v[i + 3]
PROOF
  <1> DEFINE resto == SubSeq(v, 4, Len(v))
             fora == {i \in 1..Len(resto) : resto[i] \notin Digitos \cup {Ponto, Virgula}}
             k == IF fora = {} THEN Len(resto) ELSE (CHOOSE i \in fora : \A j \in fora : i <= j) - 1
  <1>1. Numeral(v) = SubSeq(resto, 1, k)
    BY Zenon DEF Numeral, Ponto, Virgula
  <1>2. v \in Textos /\ Len(v) \in Nat /\ n \in Nat /\ m \in {1, 2, 3, 5} /\ m + 6 <= Len(v)
    BY DEF Escrito, Comeca, Textos
  <1>3. Pedaco(resto, v, 4, Len(v))
    <2>1. 4 \in 1..Len(v) + 1 /\ Len(v) \in 0..Len(v)
      BY <1>2
    <2> QED
      BY Zenon, <1>2, <2>1, PieceIsCut
  <1> HIDE DEF resto
  <1>4. resto \in Textos /\ Len(resto) = Len(v) - 3 /\ \A i \in 1..Len(v) - 3 : resto[i] = v[i + 3]
    <2>1. 4 <= Len(v) /\ Len(v) - 4 + 1 = Len(v) - 3
      BY <1>2
    <2>2. resto \in Textos /\ Len(resto) = Len(v) - 4 + 1 /\ \A i \in 1..Len(v) - 4 + 1 : resto[i] = v[4 + i - 1]
      BY <1>3, <2>1 DEF Pedaco
    <2>3. ASSUME NEW i \in 1..Len(v) - 3 PROVE resto[i] = v[i + 3]
      <3>1. i \in 1..Len(v) - 4 + 1 /\ 4 + i - 1 = i + 3
        BY <1>2
      <3> QED
        BY <2>2, <3>1
    <2> QED
      BY <2>1, <2>2, <2>3
  <1>5. \A i \in 1..m + 3 : resto[i] \in Digitos \cup {Ponto, Virgula}
    <2>1. \A p \in {1, 10, 100, 1000} : \A x \in Nat : Cifra(x, p) \in Digitos
      <3>1. \A p \in {1, 10, 100, 1000} : p \in Potencias
        BY DEF Potencias
      <3>2. \A p \in Potencias : \A x \in Nat : Cifra(x, p) \in Digitos
        BY Zenon, DigitAtPlace
      <3> QED
        BY <3>1, <3>2
    <2>2. Reais(v, 3, Parte(n, 100), m) /\ Parte(n, 100) \in Nat
      <3>1. 100 \in Potencias
        BY DEF Potencias
      <3> QED
        BY <1>2, <3>1, PartsOfNumber DEF Escrito, Comeca
    <2>3. \A i \in 1..m : v[3 + i] \in Digitos \cup {Ponto, Virgula}
      BY <2>1, <2>2 DEF Reais
    <2>4. v[m + 4] = Virgula /\ v[m + 5] \in Digitos /\ v[m + 6] \in Digitos
      BY <1>2, <2>1 DEF Escrito, Comeca
    <2>5. ASSUME NEW i \in 1..m + 3 PROVE v[i + 3] \in Digitos \cup {Ponto, Virgula}
      <3>1. CASE i <= m
        <4>1. i \in 1..m /\ i + 3 = 3 + i
          BY <3>1
        <4> QED
          BY <2>3, <4>1
      <3>2. CASE i \in {m + 1, m + 2, m + 3}
        <4>1. i + 3 = m + 4 \/ i + 3 = m + 5 \/ i + 3 = m + 6
          BY <1>2, <3>2
        <4> QED
          BY <2>4, <4>1
      <3>3. i <= m \/ i \in {m + 1, m + 2, m + 3}
        BY <1>2
      <3> QED
        BY <3>1, <3>2, <3>3
    <2>6. \A i \in 1..m + 3 : i \in 1..Len(v) - 3
      BY <1>2
    <2> QED
      BY <1>4, <2>5, <2>6
  <1>6. k = m + 3
    <2>1. CASE Len(v) = m + 6
      <3>1. Len(resto) = m + 3
        BY <1>2, <1>4, <2>1
      <3>2. fora = {}
        BY <1>5, <3>1
      <3> QED
        BY Zenon, <3>1, <3>2
    <2>2. CASE Len(v) = m + 7 /\ v[m + 7] = Cento
      <3>1. Len(resto) = m + 4 /\ m + 4 \in 1..Len(v) - 3 /\ (m + 4) + 3 = m + 7
        BY <1>2, <1>4, <2>2
      <3>2. resto[m + 4] = Cento
        BY <1>4, <2>2, <3>1
      <3>3. m + 4 \in fora
        BY <1>2, <3>1, <3>2, SignsAreNoDigits
      <3>4. \A i \in fora : m + 4 <= i /\ i \in Int
        BY <1>2, <1>5, <3>1
      <3> HIDE DEF fora
      <3>5. (CHOOSE i \in fora : \A j \in fora : i <= j) = m + 4
        BY <3>3, <3>4, LeastOf
      <3>6. k = (m + 4) - 1
        BY Zenon, <3>3, <3>5
      <3> HIDE DEF k
      <3> QED
        BY <1>2, <3>6
    <2> QED
      BY Zenon, <2>1, <2>2
  <1> HIDE DEF k
  <1>7. Pedaco(Numeral(v), resto, 1, m + 3)
    <2>1. 1 \in 1..Len(resto) + 1 /\ m + 3 \in 0..Len(resto)
      BY <1>2, <1>4
    <2> QED
      BY Zenon, <1>1, <1>4, <1>6, <2>1, PieceIsCut
  <1>8. ASSUME NEW i \in 1..m + 3 PROVE Numeral(v)[i] = v[i + 3]
    <2>1. i \in 1..(m + 3) - 1 + 1 /\ 1 + i - 1 = i /\ i \in 1..Len(v) - 3
      BY <1>2
    <2>2. Numeral(v)[i] = resto[1 + i - 1]
      BY <1>7, <2>1 DEF Pedaco
    <2> QED
      BY <1>4, <2>1, <2>2
  <1>9. Numeral(v) \in Textos /\ Len(Numeral(v)) = m + 3
    BY <1>2, <1>7 DEF Pedaco
  <1> QED
    BY <1>8, <1>9

DezMil == 10000

LEMMA ServerReads ==
  ASSUME NEW v, NEW n, NEW m, Escrito(v, n, m), Len(v) = m + 6 \/ (Len(v) = m + 7 /\ v[m + 7] = Cento)
  PROVE  setAsText(v) = 100 * n
PROOF
  <1> DEFINE numero == Numeral(v)
             virgulas == {i \in 1..Len(numero) : numero[i] = Virgula}
             v1 == IF virgulas = {} THEN Len(numero) + 1 ELSE CHOOSE i \in virgulas : \A j \in virgulas : i <= j
             cauda == SubSeq(numero, v1 + 1, Len(numero))
             zeros == <<"0", "0", "0", "0">>
             decimais == SubSeq(cauda \o zeros, 1, 4)
             inteiros == SubSeq(numero, 1, v1 - 1)
  <1>1. setAsText(v) = IF ~IsPrefix(Simbolo, v) \/ ToSet(numero) \cap Digitos = {} THEN -1
                       ELSE DezMil * Numero(inteiros) + Numero(decimais)
    BY Zenon DEF setAsText, Virgula, DezMil
  <1>2. v \in Textos /\ Len(v) \in Nat /\ n \in Nat /\ m \in {1, 2, 3, 5} /\ m + 6 <= Len(v) /\ ComSimbolo(v)
    BY DEF Escrito, Comeca, Textos
  <1>3. numero \in Textos /\ Len(numero) = m + 3 /\ \A i \in 1..m + 3 : numero[i] = v[i + 3]
    BY NumeralOfMask
  <1> HIDE DEF numero
  <1>4. Parte(n, 100) \in Nat /\ Reais(numero, 0, Parte(n, 100), m)
    <2>1. 100 \in Potencias /\ 0 \in {0, 3} /\ 3 \in {0, 3}
      BY DEF Potencias
    <2>2. \A i \in 1..m : numero[0 + i] = v[3 + i]
      <3> SUFFICES ASSUME NEW i \in 1..m PROVE numero[0 + i] = v[3 + i]
        OBVIOUS
      <3>1. i \in 1..m + 3 /\ 0 + i = i /\ i + 3 = 3 + i
        BY <1>2
      <3> QED
        BY <1>3, <3>1
    <2>3. Reais(v, 3, Parte(n, 100), m)
      BY Zenon DEF Escrito, Comeca
    <2>4. Parte(n, 100) \in Nat
      BY Zenon, <1>2, <2>1, PartsOfNumber
    <2> QED
      BY Zenon, <1>2, <2>1, <2>2, <2>3, <2>4, RealsMove
  <1>5. numero[m + 1] = Virgula /\ numero[m + 2] = Cifra(n, 10) /\ numero[m + 3] = Cifra(n, 1)
    <2>1. /\ m + 1 \in 1..m + 3 /\ m + 2 \in 1..m + 3 /\ m + 3 \in 1..m + 3
          /\ (m + 1) + 3 = m + 4 /\ (m + 2) + 3 = m + 5 /\ (m + 3) + 3 = m + 6
      BY <1>2
    <2>2. numero[m + 1] = v[m + 4] /\ numero[m + 2] = v[m + 5] /\ numero[m + 3] = v[m + 6]
      BY <1>3, <2>1
    <2> QED
      BY Zenon, <2>2 DEF Escrito, Comeca
  <1>6. numero[1] \in Digitos
    BY <1>4, RealsBegin
  <1>7. v1 = m + 1
    <2>1. m + 1 \in virgulas
      BY <1>2, <1>3, <1>5
    <2>2. \A i \in virgulas : m + 1 <= i /\ i \in Int
      <3> SUFFICES ASSUME NEW i \in 1..m + 3, numero[i] = Virgula, ~(m + 1 <= i) PROVE FALSE
        BY <1>3
      <3>1. i \in 1..m
        BY <1>2
      <3>2. numero[i] \in Digitos \cup {Ponto}
        <4>1. \A p \in {1, 10, 100, 1000} : Cifra(Parte(n, 100), p) \in Digitos
          <5>1. \A p \in {1, 10, 100, 1000} : p \in Potencias
            BY DEF Potencias
          <5>2. \A p \in Potencias : Cifra(Parte(n, 100), p) \in Digitos
            BY Zenon, <1>4, DigitAtPlace
          <5> QED
            BY <5>1, <5>2
        <4>2. \A j \in 1..m : numero[0 + j] \in Digitos \cup {Ponto}
          BY <1>4, <4>1 DEF Reais
        <4> QED
          BY <3>1, <4>2
      <3> QED
        BY <3>2, SignsAreNoDigits
    <2> HIDE DEF virgulas
    <2>3. (CHOOSE i \in virgulas : \A j \in virgulas : i <= j) = m + 1
      BY <2>1, <2>2, LeastOf
    <2> QED
      BY Zenon, <2>1, <2>3
  <1> HIDE DEF v1
  <1>8. Numero(inteiros) = Parte(n, 100)
    <2>1. 1 \in 1..Len(numero) + 1 /\ m \in 0..Len(numero) /\ v1 - 1 = m
      BY <1>2, <1>3, <1>7
    <2>2. Pedaco(inteiros, numero, 1, m)
      BY Zenon, <1>3, <2>1, PieceIsCut
    <2> HIDE DEF inteiros
    <2>3. inteiros \in Textos /\ Len(inteiros) = m /\ \A i \in 1..m : inteiros[0 + i] = numero[0 + i]
      <3>1. Len(inteiros) = m /\ inteiros \in Textos
        BY <1>2, <2>2 DEF Pedaco
      <3>2. ASSUME NEW i \in 1..m PROVE inteiros[0 + i] = numero[0 + i]
        <4>1. i \in 1..m - 1 + 1 /\ 1 + i - 1 = i /\ 0 + i = i
          BY <1>2
        <4>2. inteiros[i] = numero[1 + i - 1]
          BY <2>2, <4>1 DEF Pedaco
        <4> QED
          BY <4>1, <4>2
      <3> QED
        BY <3>1, <3>2
    <2>4. Reais(inteiros, 0, Parte(n, 100), m) /\ m \in 1..Len(inteiros)
      BY <1>2, <1>4, <2>3, RealsMove
    <2>5. NumeroAte(inteiros)[m] = Parte(n, 100)
      BY <1>4, <2>3, <2>4, RealsAreRead
    <2> QED
      BY Zenon, <2>3, <2>5 DEF Numero
  <1>9. Pedaco(cauda, numero, m + 2, m + 3)
    <2>1. m + 2 \in 1..Len(numero) + 1 /\ m + 3 \in 0..Len(numero) /\ v1 + 1 = m + 2
      BY <1>2, <1>3, <1>7
    <2> QED
      BY Zenon, <1>3, <2>1, PieceIsCut
  <1>10. zeros \in Textos /\ Len(zeros) = 4 /\ zeros[1] = Letra[1] /\ zeros[2] = Letra[1]
    <2>1. Letra[1] \in Caracteres
      <3>1. 0 \in 0..9 /\ 0 + 1 = 1
        OBVIOUS
      <3>2. Letra[0 + 1] \in Digitos
        BY <3>1, LettersOfDigits
      <3> QED
        BY <3>2 DEF Caracteres
    <2>2. "0" = Letra[1]
      BY DEF Letra
    <2> QED
      BY <2>1, <2>2 DEF Textos
  <1> HIDE DEF cauda, zeros
  <1>11. cauda \in Textos /\ Len(cauda) = 2 /\ cauda[1] = Cifra(n, 10) /\ cauda[2] = Cifra(n, 1)
    <2>1. /\ m + 2 <= m + 3 /\ (m + 3) - (m + 2) + 1 = 2 /\ m + 2 + 1 - 1 = m + 2 /\ m + 2 + 2 - 1 = m + 3
      BY <1>2
    <2>2. cauda \in Textos /\ Len(cauda) = 2 /\ \A i \in 1..2 : cauda[i] = numero[m + 2 + i - 1]
      BY <1>9, <2>1 DEF Pedaco
    <2> QED
      BY <1>5, <2>1, <2>2
  <1> DEFINE longa == cauda \o zeros
  <1>12. Junta(longa, cauda, zeros)
    BY Zenon, <1>10, <1>11, TextsJoin
  <1> HIDE DEF longa
  <1>13. /\ longa \in Textos /\ Len(longa) = 6 /\ longa[1] = cauda[1] /\ longa[2] = cauda[2]
         /\ longa[3] = Letra[1] /\ longa[4] = Letra[1]
    BY <1>10, <1>11, <1>12 DEF Junta
  <1>14. Pedaco(decimais, longa, 1, 4)
    <2>1. 1 \in 1..Len(longa) + 1 /\ 4 \in 0..Len(longa)
      BY <1>13
    <2> QED
      BY Zenon, <1>13, <2>1, PieceIsCut DEF longa
  <1> HIDE DEF decimais
  <1>15. /\ decimais \in Textos /\ Len(decimais) = 4 /\ decimais[1] = longa[1] /\ decimais[2] = longa[2]
         /\ decimais[3] = longa[3] /\ decimais[4] = longa[4]
    BY <1>14 DEF Pedaco
  <1>16. Numero(decimais) = 100 * (n % 100)
    BY <1>2, <1>11, <1>13, <1>15, NumberOfPlaces
  <1>17. IsPrefix(Simbolo, v) /\ ToSet(numero) \cap Digitos # {}
    <2>1. Len(v) >= 3
      BY <1>2
    <2>2. numero[1] \in ToSet(numero)
      BY <1>2, <1>3 DEF ToSet, Textos
    <2> QED
      BY <1>2, <1>6, <2>1, <2>2, PrefixIsSymbol
  <1> HIDE DEF inteiros
  <1>18. setAsText(v) = DezMil * Parte(n, 100) + 100 * (n % 100)
    BY Zenon, <1>1, <1>8, <1>16, <1>17
  <1> QED
    BY <1>2, <1>18 DEF DezMil, Parte

\* The text that holds the price n: its mask, with the character of an arrow key at
\* most behind it.
TextoDe(v, n) ==
  \E m \in {1, 2, 3, 5} : Escrito(v, n, m) /\ (Len(v) = m + 6 \/ (Len(v) = m + 7 /\ v[m + 7] = Cento))

CamposDoPreco == {"texto", "ini", "fim", "foco", "dirty", "esperado"}

PrecoOK(p) ==
  /\ DOMAIN p = CamposDoPreco
  /\ \/ p.esperado = Desconhecido
     \/ p.esperado = -1 /\ p.texto = <<>> /\ ~p.foco
     \/ p.esperado \in Nat /\ TextoDe(p.texto, p.esperado)

LEMMA PriceIsRead ==
  ASSUME NEW n \in Nat, Cabe(n)
  PROVE  Numero(SemSimbolo(Casas(n, 6))) = n
PROOF
  <1> DEFINE w == Casas(n, 6)
  <1>1. /\ w \in Textos /\ Len(w) = 6
        /\ \A i \in 1..6 : 10^(6 - i) \in Potencias /\ w[i] = Cifra(n, 10^(6 - i))
    BY PlacesAreText
  <1> HIDE DEF w
  <1>2. SemSimbolo(w) = w
    <2>1. \A i \in 1..6 : w[i] \in Digitos
      BY <1>1, DigitAtPlace
    <2>2. \A i \in 1..Len(w) : w[i] # Erre
      BY <1>1, <2>1, SignsAreNoDigits
    <2> QED
      BY <1>1, <2>2, NoSymbolToTake
  <1>3. /\ w[1] = Cifra(n, 100000) /\ w[2] = Cifra(n, 10000) /\ w[3] = Cifra(n, 1000)
        /\ w[4] = Cifra(n, 100) /\ w[5] = Cifra(n, 10) /\ w[6] = Cifra(n, 1)
    <2>1. 6 - 1 = 5 /\ 6 - 2 = 4 /\ 6 - 3 = 3 /\ 6 - 4 = 2 /\ 6 - 5 = 1 /\ 6 - 6 = 0
      OBVIOUS
    <2> QED
      BY <1>1, <2>1, PowersOfTen
  <1>4. ASSUME NEW i \in 1..6, NEW p \in Potencias, w[i] = Cifra(n, p), NumeroAte(w)[i - 1] = Parte(n, 10 * p)
        PROVE  NumeroAte(w)[i] = Parte(n, p)
    BY <1>1, <1>4, DigitIsRead
  <1>5. /\ 100000 \in Potencias /\ 10000 \in Potencias /\ 1000 \in Potencias /\ 100 \in Potencias
        /\ 10 \in Potencias /\ 1 \in Potencias
    BY DEF Potencias
  <1>6. NumeroAte(w)[0] = Parte(n, 10 * 100000)
    <2>1. n < 10 * 100000
      BY DEF Cabe
    <2>2. \A p \in Potencias : n < 10 * p => Parte(n, 10 * p) = 0
      BY Zenon, PartsOfNumber
    <2>3. NumeroAte(w)[0] = 0
      BY <1>1, TextIsRead
    <2> QED
      BY <1>5, <2>1, <2>2, <2>3
  <1>7. NumeroAte(w)[1] = Parte(n, 100000)
    BY <1>3, <1>4, <1>5, <1>6
  <1>8. NumeroAte(w)[2] = Parte(n, 10000)
    BY <1>3, <1>4, <1>5, <1>7
  <1>9. NumeroAte(w)[3] = Parte(n, 1000)
    BY <1>3, <1>4, <1>5, <1>8
  <1>10. NumeroAte(w)[4] = Parte(n, 100)
    BY <1>3, <1>4, <1>5, <1>9
  <1>11. NumeroAte(w)[5] = Parte(n, 10)
    BY <1>3, <1>4, <1>5, <1>10
  <1>12. NumeroAte(w)[6] = Parte(n, 1)
    BY <1>3, <1>4, <1>5, <1>11
  <1>13. Numero(w) = n
    BY <1>1, <1>12, PartsOfNumber DEF Numero
  <1> QED
    BY Zenon, <1>2, <1>13 DEF w

LEMMA BeginningStays ==
  ASSUME NEW v, NEW n, NEW m, Comeca(v, n, m), NEW u \in Textos, m + 5 <= Len(u),
         \A i \in 1..m + 5 : u[i] = v[i]
  PROVE  Comeca(u, n, m)
PROOF
  <1>1. m \in {1, 2, 3, 5} /\ n \in Nat /\ Cabe(n) /\ ComSimbolo(v) /\ Reais(v, 3, Parte(n, 100), m)
        /\ v[m + 4] = Virgula /\ v[m + 5] = Cifra(n, 10)
    BY DEF Comeca
  <1>2. /\ 1 \in 1..m + 5 /\ 2 \in 1..m + 5 /\ 3 \in 1..m + 5 /\ m + 4 \in 1..m + 5 /\ m + 5 \in 1..m + 5
        /\ \A i \in 1..m : 3 + i \in 1..m + 5
    BY <1>1
  <1>3. ComSimbolo(u) /\ u[m + 4] = Virgula /\ u[m + 5] = Cifra(n, 10)
    BY <1>1, <1>2 DEF ComSimbolo
  <1>4. \A i \in 1..m : u[3 + i] = v[3 + i]
    BY <1>2
  <1>5. Reais(u, 3, Parte(n, 100), m)
    BY <1>1, <1>4, RealsMove
  <1> QED
    BY <1>1, <1>3, <1>5 DEF Comeca

LEMMA MaskStays ==
  ASSUME NEW v, NEW n, NEW m, Escrito(v, n, m), NEW u \in Textos, m + 6 <= Len(u),
         \A i \in 1..m + 6 : u[i] = v[i]
  PROVE  Escrito(u, n, m)
PROOF
  <1>1. m \in {1, 2, 3, 5} /\ Comeca(v, n, m) /\ v[m + 6] = Cifra(n, 1)
    BY DEF Escrito, Comeca
  <1>2. Len(u) \in Nat /\ m + 5 <= Len(u) /\ m + 6 \in 1..m + 6 /\ \A i \in 1..m + 5 : i \in 1..m + 6
    BY <1>1 DEF Textos
  <1>3. Comeca(u, n, m)
    BY <1>1, <1>2, BeginningStays
  <1> QED
    BY <1>1, <1>2, <1>3 DEF Escrito

LEMMA PriceIsMasked ==
  ASSUME NEW n \in Nat, Cabe(n), NEW v, Numero(SemSimbolo(v)) = n
  PROVE  TextoDe(maskValue(v), n)
  BY Zenon, MaskIsWritten DEF TextoDe

\* A character typed at the end of a text: behind all of it.
Seguido(u, v, c) ==
  u \in Textos /\ Len(u) = Len(v) + 1 /\ u[Len(v) + 1] = c /\ \A i \in 1..Len(v) : u[i] = v[i]

LEMMA EndIsTyped ==
  ASSUME NEW v \in Textos, NEW c \in Caracteres
  PROVE  Seguido(SubSeq(v, 1, Len(v)) \o <<c>> \o SubSeq(v, Len(v) + 1, Len(v)), v, c)
PROOF
  <1> DEFINE a == SubSeq(v, 1, Len(v))  b == <<c>>  z == SubSeq(v, Len(v) + 1, Len(v))  d == a \o b
             u == d \o z
  <1>1. /\ Len(v) \in Nat /\ 1 \in 1..Len(v) + 1 /\ Len(v) + 1 \in 1..Len(v) + 1 /\ Len(v) \in 0..Len(v)
    BY DEF Textos
  <1>2. Pedaco(a, v, 1, Len(v)) /\ Pedaco(z, v, Len(v) + 1, Len(v))
    BY Zenon, <1>1, PieceIsCut
  <1>3. b \in Textos /\ Len(b) = 1 /\ b[1] = c
    BY Zenon, SignIsText
  <1>4. a \in Textos /\ z \in Textos
    BY Zenon, <1>2 DEF Pedaco
  <1>5. Junta(d, a, b)
    BY Zenon, <1>3, <1>4, TextsJoin
  <1>6. Seguido(u, v, c) => Seguido(SubSeq(v, 1, Len(v)) \o <<c>> \o SubSeq(v, Len(v) + 1, Len(v)), v, c)
    OBVIOUS
  <1> HIDE DEF a, b, z, d
  <1>7. d \in Textos
    BY <1>5 DEF Junta
  <1>8. Junta(u, d, z)
    BY Zenon, <1>4, <1>7, TextsJoin
  <1> HIDE DEF u
  <1>9. a \in Textos /\ Len(a) = Len(v) /\ Len(z) = 0 /\ \A i \in 1..Len(v) : a[i] = v[i]
    <2>1. Len(a) = Len(v)
      BY <1>1, <1>2 DEF Pedaco
    <2>2. Len(z) = 0
      BY <1>1, <1>2 DEF Pedaco
    <2>3. ASSUME NEW i \in 1..Len(v) PROVE a[i] = v[i]
      <3>1. i \in 1..Len(v) - 1 + 1 /\ 1 + i - 1 = i
        BY <1>1
      <3>2. a[i] = v[1 + i - 1]
        BY <1>2, <3>1 DEF Pedaco
      <3> QED
        BY <3>1, <3>2
    <2> QED
      BY <1>4, <2>1, <2>2, <2>3
  <1>10. Len(d) = Len(v) + 1 /\ d[Len(v) + 1] = c /\ \A i \in 1..Len(v) : d[i] = v[i]
    BY <1>1, <1>3, <1>5, <1>9 DEF Junta
  <1>11. Len(u) = Len(v) + 1 /\ \A i \in 1..Len(v) + 1 : u[i] = d[i]
    BY <1>8, <1>9, <1>10 DEF Junta
  <1>12. Len(v) + 1 \in 1..Len(v) + 1 /\ \A i \in 1..Len(v) : i \in 1..Len(v) + 1
    BY <1>1
  <1>13. u \in Textos
    BY Zenon, <1>8 DEF Junta
  <1> QED
    BY Zenon, <1>6, <1>10, <1>11, <1>12, <1>13 DEF Seguido

\* The last character taken back.
Encurtado(u, v) == u \in Textos /\ Len(u) = Len(v) - 1 /\ \A i \in 1..Len(v) - 1 : u[i] = v[i]

LEMMA EndIsCut ==
  ASSUME NEW v \in Textos, Len(v) >= 1
  PROVE  Encurtado(Corta(v, Len(v) - 1, Len(v)), v)
PROOF
  <1> DEFINE a == SubSeq(v, 1, Len(v) - 1)  z == SubSeq(v, Len(v) + 1, Len(v))
             u == Corta(v, Len(v) - 1, Len(v))
  <1>1. /\ Len(v) \in Nat /\ 1 \in 1..Len(v) + 1 /\ Len(v) + 1 \in 1..Len(v) + 1 /\ Len(v) \in 0..Len(v)
        /\ Len(v) - 1 \in 0..Len(v)
    BY DEF Textos
  <1>2. Pedaco(a, v, 1, Len(v) - 1) /\ Pedaco(z, v, Len(v) + 1, Len(v))
    BY Zenon, <1>1, PieceIsCut
  <1>3. u = a \o z
    BY Zenon DEF Corta
  <1>4. a \in Textos /\ z \in Textos
    BY Zenon, <1>2 DEF Pedaco
  <1>5. Junta(u, a, z)
    BY Zenon, <1>3, <1>4, TextsJoin
  <1> HIDE DEF a, z, u
  <1>6. Len(a) = Len(v) - 1 /\ Len(z) = 0
    <2>1. Len(a) = IF 1 <= Len(v) - 1 THEN Len(v) - 1 - 1 + 1 ELSE 0
      BY Zenon, <1>2 DEF Pedaco
    <2>2. Len(z) = IF Len(v) + 1 <= Len(v) THEN Len(v) - (Len(v) + 1) + 1 ELSE 0
      BY Zenon, <1>2 DEF Pedaco
    <2>3. Len(a) = Len(v) - 1
      <3>1. \A k \in Nat : k >= 1 => k - 1 = IF 1 <= k - 1 THEN k - 1 - 1 + 1 ELSE 0
        OBVIOUS
      <3> QED
        BY Zenon, <1>1, <2>1, <3>1
    <2>4. Len(z) = 0
      BY <1>1, <2>2
    <2> QED
      BY Zenon, <2>3, <2>4
  <1>7. ASSUME NEW i \in 1..Len(v) - 1 PROVE a[i] = v[i]
    <2>1. i \in 1..Len(v) - 1 - 1 + 1 /\ 1 + i - 1 = i
      BY <1>1
    <2>2. a[i] = v[1 + i - 1]
      BY <1>2, <2>1 DEF Pedaco
    <2> QED
      BY <2>1, <2>2
  <1>8. Encurtado(u, v)
    BY <1>1, <1>5, <1>6, <1>7 DEF Junta, Encurtado
  <1> QED
    BY Zenon, <1>8 DEF u

\* There is nothing behind the last character to take.
LEMMA NothingIsCut ==
  ASSUME NEW v \in Textos
  PROVE  Corta(v, Len(v), Len(v) + 1) = v
PROOF
  <1>1. Len(v) \in Nat /\ v \in Seq(Caracteres)
    BY DEF Textos
  <1>2. SubSeq(v, 1, Len(v)) = v
    BY <1>1, SubSeqFull
  <1>3. SubSeq(v, Len(v) + 1 + 1, Len(v)) = <<>>
    BY <1>1, SubSeqEmpty
  <1>4. v \o <<>> = v
    BY <1>1
  <1> QED
    BY Zenon, <1>2, <1>3, <1>4 DEF Corta

LEMMA EmptyMask ==
  TextoDe(setSymbol(getDefaultMask), 0)
PROOF
  <1> DEFINE z == Letra[1]  d == getDefaultMask  t == Simbolo \o d
  <1>1. z \in Digitos /\ z \in Caracteres /\ Virgula \in Caracteres
    <2>1. 0 \in 0..9 /\ 0 + 1 = 1
      OBVIOUS
    <2>2. Letra[0 + 1] \in Digitos
      BY <2>1, LettersOfDigits
    <2> QED
      BY <2>1, <2>2 DEF Caracteres, Sinais
  <1>2. d = <<z, Virgula, z, z>>
    <2>1. "0" = z
      BY DEF Letra
    <2> QED
      BY Zenon, <2>1 DEF getDefaultMask, Virgula
  <1>3. Cifra(0, 1) = z /\ Cifra(0, 10) = z
    <2>1. ((0 \div 1) % 10) + 1 = 1 /\ ((0 \div 10) % 10) + 1 = 1
      OBVIOUS
    <2> QED
      BY Zenon, <2>1 DEF Cifra
  <1> HIDE DEF z, d
  <1>4. d \in Textos /\ Len(d) = 4 /\ d[1] = z /\ d[2] = Virgula /\ d[3] = z /\ d[4] = z
    BY <1>1, <1>2 DEF Textos
  <1>5. ~IsPrefix(Simbolo, d)
    BY <1>1, <1>4, PrefixIsSymbol, SignsAreNoDigits DEF ComSimbolo
  <1>6. setSymbol(getDefaultMask) = t
    BY Zenon, <1>5 DEF setSymbol, d
  <1>7. Junta(t, Simbolo, d)
    BY Zenon, <1>4, SymbolIsText, TextsJoin
  <1> HIDE DEF t
  <1>8. t \in Textos /\ Len(t) = 7 /\ ComSimbolo(t) /\ t[4] = z /\ t[5] = Virgula /\ t[6] = z /\ t[7] = z
    <2>1. /\ t \in Textos /\ Len(t) = 7 /\ \A i \in 1..3 : t[i] = Simbolo[i]
          /\ \A i \in 1..4 : t[3 + i] = d[i]
      BY <1>4, <1>7, SymbolIsText DEF Junta
    <2>2. t[3 + 1] = d[1] /\ t[3 + 2] = d[2] /\ t[3 + 3] = d[3] /\ t[3 + 4] = d[4]
      BY <2>1
    <2> QED
      BY <1>4, <2>1, <2>2, SymbolIsText DEF ComSimbolo
  <1>9. Parte(0, 100) = 0 /\ Cabe(0)
    BY DEF Parte, Cabe
  <1>10. Reais(t, 3, 0, 1)
    BY <1>3, <1>8 DEF Reais
  <1>11. Comeca(t, 0, 1)
    BY <1>3, <1>8, <1>9, <1>10 DEF Comeca
  <1>12. Escrito(t, 0, 1)
    BY <1>3, <1>8, <1>11 DEF Escrito
  <1> QED
    BY <1>6, <1>8, <1>12 DEF TextoDe

LEMMA MaskIsNoBlank ==
  ASSUME NEW v, NEW n, TextoDe(v, n)
  PROVE  /\ v \in Textos /\ Len(v) \in Nat /\ Len(v) >= 7 /\ v # <<>> /\ v # getDefaultMask
         /\ setSymbol(v) = v /\ n \in Nat /\ Cabe(n)
PROOF
  <1>1. PICK m \in {1, 2, 3, 5} : Escrito(v, n, m)
    BY DEF TextoDe
  <1>2. v \in Textos /\ Len(v) \in Nat /\ m + 6 <= Len(v) /\ ComSimbolo(v) /\ n \in Nat /\ Cabe(n)
    BY <1>1 DEF Escrito, Comeca, Textos
  <1>3. Len(v) >= 7
    BY <1>2
  <1>4. v # <<>> /\ v # getDefaultMask
    <2>1. Len(<<>>) = 0
      OBVIOUS
    <2>2. Len(getDefaultMask) = 4
      <3>1. \A a, b, c, d : Len(<<a, b, c, d>>) = 4
        OBVIOUS
      <3> QED
        BY Zenon, <3>1 DEF getDefaultMask
    <2>3. \A k \in Nat : k >= 7 => k # 0 /\ k # 4
      OBVIOUS
    <2> QED
      BY Zenon, <1>2, <1>3, <2>1, <2>2, <2>3
  <1>5. IsPrefix(Simbolo, v)
    BY <1>2, <1>3, PrefixIsSymbol
  <1>6. setSymbol(v) = v
    BY Zenon, <1>5 DEF setSymbol
  <1> QED
    BY Zenon, <1>2, <1>3, <1>4, <1>6

LEMMA MaskIsAlone ==
  ASSUME NEW v, NEW n, TextoDe(v, n)
  PROVE  Numero(SemSimbolo(v)) = n
  BY Zenon, MaskAlone DEF TextoDe

LEMMA DigitIsTyped ==
  ASSUME NEW v, NEW n, TextoDe(v, n), NEW d \in 0..9, NEW u, Seguido(u, v, Letra[d + 1])
  PROVE  Numero(SemSimbolo(u)) = 10 * n + d
PROOF
  <1>1. PICK m \in {1, 2, 3, 5} : Escrito(v, n, m) /\ (Len(v) = m + 6 \/ (Len(v) = m + 7 /\ v[m + 7] = Cento))
    BY DEF TextoDe
  <1>2. v \in Textos /\ Len(v) \in Nat
    BY MaskIsNoBlank
  <1> DEFINE c == Letra[d + 1]
  <1>4. u \in Textos /\ Len(u) = Len(v) + 1 /\ u[Len(v) + 1] = c /\ \A i \in 1..Len(v) : u[i] = v[i]
    BY Zenon DEF Seguido
  <1> HIDE DEF c
  <1>5. Escrito(u, n, m)
    <2>1. m + 6 <= Len(u) /\ \A i \in 1..m + 6 : i \in 1..Len(v)
      BY <1>1, <1>2, <1>4
    <2>2. \A i \in 1..m + 6 : u[i] = v[i]
      BY Zenon, <1>4, <2>1
    <2> QED
      BY Zenon, <1>1, <1>4, <2>1, <2>2, MaskStays
  <1>6. \/ Len(u) = m + 7 /\ u[m + 7] = c
        \/ Len(u) = m + 8 /\ u[m + 7] = Cento /\ u[m + 8] = c
    <2>1. CASE Len(v) = m + 6
      <3>1. (m + 6) + 1 = m + 7
        OBVIOUS
      <3> QED
        BY Zenon, <1>4, <2>1, <3>1
    <2>2. CASE Len(v) = m + 7 /\ v[m + 7] = Cento
      <3>1. (m + 7) + 1 = m + 8 /\ m + 7 \in 1..m + 7
        OBVIOUS
      <3> QED
        BY Zenon, <1>4, <2>2, <3>1
    <2> QED
      BY Zenon, <1>1, <2>1, <2>2
  <1> QED
    BY <1>5, <1>6, DigitAfter DEF c

LEMMA ArrowIsTyped ==
  ASSUME NEW v, NEW n, TextoDe(v, n), Cento \notin ToSet(v), NEW u, Seguido(u, v, Cento)
  PROVE  TextoDe(u, n)
PROOF
  <1>1. PICK m \in {1, 2, 3, 5} : Escrito(v, n, m) /\ (Len(v) = m + 6 \/ (Len(v) = m + 7 /\ v[m + 7] = Cento))
    BY DEF TextoDe
  <1>2. v \in Textos /\ Len(v) \in Nat
    BY MaskIsNoBlank
  <1>4. u \in Textos /\ Len(u) = Len(v) + 1 /\ u[Len(v) + 1] = Cento /\ \A i \in 1..Len(v) : u[i] = v[i]
    BY Zenon DEF Seguido
  <1>5. Len(v) = m + 6
    <2>1. ASSUME Len(v) = m + 7, v[m + 7] = Cento PROVE FALSE
      <3>1. m + 7 \in 1..Len(v)
        BY <2>1
      <3>2. \A i \in 1..Len(v) : v[i] \in ToSet(v)
        BY <1>2 DEF ToSet, Textos
      <3> QED
        BY Zenon, <2>1, <3>1, <3>2
    <2> QED
      BY Zenon, <1>1, <2>1
  <1>6. (m + 6) + 1 = m + 7 /\ m + 6 <= m + 7
    OBVIOUS
  <1>7. Escrito(u, n, m) /\ Len(u) = m + 7 /\ u[m + 7] = Cento
    <2>1. Len(u) = m + 7 /\ u[m + 7] = Cento /\ m + 6 <= Len(u) /\ \A i \in 1..m + 6 : u[i] = v[i]
      BY Zenon, <1>4, <1>5, <1>6
    <2>2. Escrito(v, n, m) /\ u \in Textos
      BY Zenon, <1>1, <1>4
    <2> QED
      BY <2>1, <2>2, MaskStays
  <1> QED
    BY Zenon, <1>7 DEF TextoDe

LEMMA DigitIsTakenBack ==
  ASSUME NEW v, NEW n, TextoDe(v, n), v[Len(v)] \in Digitos, NEW u, Encurtado(u, v)
  PROVE  Numero(SemSimbolo(u)) = Parte(n, 10)
PROOF
  <1>1. PICK m \in {1, 2, 3, 5} : Escrito(v, n, m) /\ (Len(v) = m + 6 \/ (Len(v) = m + 7 /\ v[m + 7] = Cento))
    BY DEF TextoDe
  <1>2. v \in Textos /\ Len(v) \in Nat /\ Len(v) >= 1
    <2>1. \A k \in Nat : k >= 7 => k >= 1
      OBVIOUS
    <2> QED
      BY Zenon, <2>1, MaskIsNoBlank
  <1>3. Len(v) = m + 6
    BY Zenon, <1>1, SignsAreNoDigits
  <1>4. u \in Textos /\ Len(u) = Len(v) - 1 /\ \A i \in 1..Len(v) - 1 : u[i] = v[i]
    BY Zenon DEF Encurtado
  <1>5. (m + 6) - 1 = m + 5 /\ m + 5 <= m + 5
    OBVIOUS
  <1>6. Comeca(u, n, m) /\ Len(u) = m + 5
    <2>1. Comeca(v, n, m)
      BY Zenon, <1>1 DEF Escrito
    <2>2. u \in Textos /\ Len(u) = m + 5 /\ m + 5 <= Len(u) /\ \A i \in 1..m + 5 : u[i] = v[i]
      BY Zenon, <1>3, <1>4, <1>5
    <2> QED
      BY <2>1, <2>2, BeginningStays
  <1> QED
    BY Zenon, <1>6, BeginningAlone

LEMMA MaskRecord ==
  ASSUME NEW p, DOMAIN p = CamposDoPreco, NEW v, NEW pos
  PROVE  LET q == maskAndPosition(p, v, pos) IN
         DOMAIN q = CamposDoPreco /\ q.texto = maskValue(v) /\ q.esperado = p.esperado
PROOF
  <1> DEFINE novo == maskValue(v)
             i == pos - (Len(v) - Len(novo))
             k == IF i < 0 THEN 0 ELSE i
             q == [[p EXCEPT !.texto = novo] EXCEPT !.ini = k, !.fim = k]
  <1>1. maskAndPosition(p, v, pos) = q
    BY Zenon DEF maskAndPosition, Cursor
  <1> HIDE DEF novo, k
  <1>2. DOMAIN q = CamposDoPreco /\ q.texto = novo /\ q.esperado = p.esperado
    BY DEF CamposDoPreco
  <1> QED
    BY Zenon, <1>1, <1>2 DEF novo

LEMMA PriceMasked ==
  ASSUME NEW q, DOMAIN q = CamposDoPreco, NEW v, q.texto = maskValue(v),
         \/ q.esperado = Desconhecido
         \/ q.esperado \in Nat /\ Cabe(q.esperado) /\ Numero(SemSimbolo(v)) = q.esperado
  PROVE  PrecoOK(q)
PROOF
  <1>1. CASE q.esperado = Desconhecido
    BY Zenon, <1>1 DEF PrecoOK
  <1>2. CASE q.esperado \in Nat /\ Cabe(q.esperado) /\ Numero(SemSimbolo(v)) = q.esperado
    <2>1. TextoDe(q.texto, q.esperado)
      BY Zenon, <1>2, PriceIsMasked
    <2> QED
      BY Zenon, <1>2, <2>1 DEF PrecoOK
  <1> QED
    BY Zenon, <1>1, <1>2

LEMMA BoundFits ==
  /\ Gravado \in Nat /\ Cabe(Gravado) /\ Desconhecido \notin Nat /\ Desconhecido # -1
  /\ \A n \in Nat : n <= MaxCentavos => Cabe(n)
  BY ConstantesDoPreco DEF Cabe

LEMMA DigitKeepsPrice ==
  ASSUME PrecoOK(preco), NEW d \in Algarismos, Digita(d)
  PROVE  PrecoOK(preco')
PROOF
  <1> DEFINE p == preco
             v == SubSeq(p.texto, 1, p.ini) \o <<Letra[d + 1]>> \o SubSeq(p.texto, p.fim + 1, Len(p.texto))
             e == IF NoFim(p) /\ p.esperado # Desconhecido
                  THEN (IF p.esperado = -1 THEN 0 ELSE 10 * p.esperado) + d ELSE Desconhecido
  <1>1. p.foco /\ Numero(SemSimbolo(v)) <= MaxCentavos
    BY DEF Digita
  <1>2. preco' = [maskAndPosition(p, v, p.ini + 1) EXCEPT !.dirty = TRUE, !.esperado = e]
    BY DEF Digita
  <1>3. DOMAIN p = CamposDoPreco
    BY DEF PrecoOK
  <1>4. DOMAIN preco' = CamposDoPreco /\ preco'.texto = maskValue(v) /\ preco'.esperado = e
    <2> DEFINE q == maskAndPosition(p, v, p.ini + 1)
    <2>1. DOMAIN q = CamposDoPreco /\ q.texto = maskValue(v)
      <3> HIDE DEF v
      <3> QED
        BY Zenon, <1>3, MaskRecord
    <2>2. preco' = [q EXCEPT !.dirty = TRUE, !.esperado = e]
      BY <1>2
    <2> HIDE DEF q, v, e
    <2> QED
      BY <2>1, <2>2 DEF CamposDoPreco
  <1>5. CASE ~(NoFim(p) /\ p.esperado # Desconhecido)
    BY Zenon, <1>4, <1>5, PriceMasked
  <1>6. CASE NoFim(p) /\ p.esperado # Desconhecido
    <2>1. p.esperado \in Nat /\ TextoDe(p.texto, p.esperado)
      BY Zenon, <1>1, <1>6 DEF PrecoOK
    <2>2. p.esperado # -1
      BY <2>1
    <2>3. e = 10 * p.esperado + d
      BY Zenon, <1>6, <2>2
    <2>4. d \in 0..9
      BY ConstantesDoPreco
    <2>5. v = SubSeq(p.texto, 1, Len(p.texto)) \o <<Letra[d + 1]>> \o SubSeq(p.texto, Len(p.texto) + 1, Len(p.texto))
      BY Zenon, <1>6 DEF NoFim
    <2>6. p.texto \in Textos
      BY Zenon, <2>1, MaskIsNoBlank
    <2>7. Letra[d + 1] \in Caracteres
      BY <2>4, LettersOfDigits DEF Caracteres
    <2>8. Seguido(v, p.texto, Letra[d + 1])
      BY Zenon, <2>5, <2>6, <2>7, EndIsTyped
    <2> HIDE DEF v, e
    <2>9. Numero(SemSimbolo(v)) = e
      BY Zenon, <2>1, <2>3, <2>4, <2>8, DigitIsTyped
    <2>10. e \in Nat
      BY <2>1, <2>3, <2>4
    <2>11. Cabe(e)
      BY Zenon, <1>1, <2>9, <2>10, BoundFits
    <2> QED
      BY Zenon, <1>4, <2>9, <2>10, <2>11, PriceMasked
  <1> QED
    BY Zenon, <1>5, <1>6

LEMMA ArrowKeepsPrice ==
  ASSUME PrecoOK(preco), DigitaSeta
  PROVE  PrecoOK(preco')
PROOF
  <1> DEFINE p == preco
             v == SubSeq(p.texto, 1, p.ini) \o <<Cento>> \o SubSeq(p.texto, p.fim + 1, Len(p.texto))
             e == IF NoFim(p) /\ p.texto # <<>> THEN p.esperado ELSE Desconhecido
             k == p.ini + 1
  <1>1. p.foco /\ Cento \notin ToSet(p.texto)
    BY Zenon DEF DigitaSeta, Cento
  <1>2. DOMAIN p = CamposDoPreco
    BY DEF PrecoOK
  <1>3. DOMAIN preco' = CamposDoPreco /\ preco'.texto = v /\ preco'.esperado = e
    <2>1. preco' = Cursor([p EXCEPT !.texto = v, !.esperado = e], k)
      BY DEF DigitaSeta, Cento
    <2>2. preco' = [[p EXCEPT !.texto = v, !.esperado = e] EXCEPT !.ini = k, !.fim = k]
      BY Zenon, <2>1 DEF Cursor
    <2> HIDE DEF v, e, k
    <2> QED
      BY <1>2, <2>2 DEF CamposDoPreco
  <1>4. CASE e = Desconhecido
    BY Zenon, <1>3, <1>4 DEF PrecoOK
  <1>5. CASE e # Desconhecido
    <2>1. NoFim(p) /\ p.esperado # Desconhecido /\ e = p.esperado
      BY Zenon, <1>5
    <2>2. p.esperado \in Nat /\ TextoDe(p.texto, p.esperado)
      BY Zenon, <1>1, <2>1 DEF PrecoOK
    <2>3. v = SubSeq(p.texto, 1, Len(p.texto)) \o <<Cento>> \o SubSeq(p.texto, Len(p.texto) + 1, Len(p.texto))
      BY Zenon, <2>1 DEF NoFim
    <2>4. p.texto \in Textos
      BY Zenon, <2>2, MaskIsNoBlank
    <2>5. Cento \in Caracteres
      BY DEF Caracteres, Sinais
    <2>6. Seguido(v, p.texto, Cento)
      BY Zenon, <2>3, <2>4, <2>5, EndIsTyped
    <2> HIDE DEF v, e
    <2>7. TextoDe(v, p.esperado)
      BY Zenon, <1>1, <2>2, <2>6, ArrowIsTyped
    <2> QED
      BY Zenon, <1>3, <2>1, <2>2, <2>7 DEF PrecoOK
  <1> QED
    BY Zenon, <1>4, <1>5

LEMMA BackspaceKeepsPrice ==
  ASSUME PrecoOK(preco), Backspace
  PROVE  PrecoOK(preco')
PROOF
  <1> DEFINE p == preco
             um == IF p.ini = p.fim /\ p.ini > 0 THEN 1 ELSE 0
             v == Corta(p.texto, p.ini - um, p.fim)
             k == p.ini - um
             sabe == NoFim(p) /\ p.texto # <<>> /\ p.texto[Len(p.texto)] \in Digitos
             e == IF sabe /\ p.esperado # Desconhecido THEN p.esperado \div 10 ELSE Desconhecido
             q == maskAndPosition(p, v, k)
  <1>1. p.foco
    BY DEF Backspace
  <1>2. DOMAIN p = CamposDoPreco
    BY DEF PrecoOK
  <1>3. DOMAIN q = CamposDoPreco /\ q.texto = maskValue(v) /\ q.esperado = p.esperado
    <2> HIDE DEF v, k
    <2> QED
      BY Zenon, <1>2, MaskRecord
  <1>4. preco' = [q EXCEPT !.dirty = TRUE, !.esperado = e]
    <2> DEFINE f(x) == IF sabe /\ x # Desconhecido THEN x \div 10 ELSE Desconhecido
    <2>1. preco' = [q EXCEPT !.dirty = TRUE, !.esperado = f(@)]
      BY DEF Backspace
    <2>2. e = f(q.esperado)
      BY <1>3
    <2> HIDE DEF q, f, e
    <2> QED
      BY <1>3, <2>1, <2>2 DEF CamposDoPreco
  <1>5. DOMAIN preco' = CamposDoPreco /\ preco'.texto = maskValue(v) /\ preco'.esperado = e
    <2> HIDE DEF v, e, k, q
    <2> QED
      BY <1>3, <1>4 DEF CamposDoPreco
  <1>6. CASE ~(sabe /\ p.esperado # Desconhecido)
    <2>1. e = Desconhecido
      BY Zenon, <1>6
    <2> HIDE DEF v, e
    <2> QED
      BY Zenon, <1>5, <2>1, PriceMasked
  <1>7. CASE sabe /\ p.esperado # Desconhecido
    <2>1. p.esperado \in Nat /\ TextoDe(p.texto, p.esperado) /\ NoFim(p) /\ p.texto[Len(p.texto)] \in Digitos
      BY Zenon, <1>1, <1>7 DEF PrecoOK
    <2>2. e = Parte(p.esperado, 10)
      BY Zenon, <1>7 DEF Parte
    <2>3. p.texto \in Textos /\ Len(p.texto) \in Nat /\ Len(p.texto) >= 7 /\ Cabe(p.esperado)
      BY Zenon, <2>1, MaskIsNoBlank
    <2>4. Len(p.texto) >= 1 /\ Len(p.texto) > 0
      BY <2>3
    <2>5. p.ini = Len(p.texto) /\ p.fim = Len(p.texto) /\ um = 1
      BY Zenon, <2>1, <2>4 DEF NoFim
    <2>6. v = Corta(p.texto, Len(p.texto) - 1, Len(p.texto))
      BY Zenon, <2>5
    <2>7. Encurtado(v, p.texto)
      BY Zenon, <2>3, <2>4, <2>6, EndIsCut
    <2> HIDE DEF v, e
    <2>8. Numero(SemSimbolo(v)) = e
      BY Zenon, <2>1, <2>2, <2>7, DigitIsTakenBack
    <2>9. e \in Nat /\ Cabe(e)
      <3>1. \A n \in Nat : Cabe(n) => n \div 10 \in Nat /\ Cabe(n \div 10)
        BY DEF Cabe
      <3> QED
        BY Zenon, <2>1, <2>2, <2>3, <3>1 DEF Parte
    <2> QED
      BY Zenon, <1>5, <2>8, <2>9, PriceMasked
  <1> QED
    BY Zenon, <1>6, <1>7

LEMMA DeleteKeepsPrice ==
  ASSUME PrecoOK(preco), Delete
  PROVE  PrecoOK(preco')
PROOF
  <1> DEFINE p == preco
             v == Corta(p.texto, p.ini, IF p.ini = p.fim THEN p.fim + 1 ELSE p.fim)
             k == p.ini
             sabe == NoFim(p) /\ p.texto # <<>>
             e == IF sabe THEN p.esperado ELSE Desconhecido
             q == maskAndPosition(p, v, k)
  <1>1. p.foco
    BY DEF Delete
  <1>2. DOMAIN p = CamposDoPreco
    BY DEF PrecoOK
  <1>3. DOMAIN q = CamposDoPreco /\ q.texto = maskValue(v) /\ q.esperado = p.esperado
    <2> HIDE DEF v, k
    <2> QED
      BY Zenon, <1>2, MaskRecord
  <1>4. preco' = [q EXCEPT !.dirty = TRUE, !.esperado = e]
    <2> DEFINE f(x) == IF sabe THEN x ELSE Desconhecido
    <2>1. preco' = [q EXCEPT !.dirty = TRUE, !.esperado = f(@)]
      BY DEF Delete
    <2>2. e = f(q.esperado)
      BY <1>3
    <2> HIDE DEF q, f, e
    <2> QED
      BY <1>3, <2>1, <2>2 DEF CamposDoPreco
  <1>5. DOMAIN preco' = CamposDoPreco /\ preco'.texto = maskValue(v) /\ preco'.esperado = e
    <2> HIDE DEF v, e, k, q
    <2> QED
      BY <1>3, <1>4 DEF CamposDoPreco
  <1>6. CASE e = Desconhecido
    <2> HIDE DEF v, e
    <2> QED
      BY Zenon, <1>5, <1>6, PriceMasked
  <1>7. CASE e # Desconhecido
    <2>1. NoFim(p) /\ e = p.esperado
      BY Zenon, <1>7
    <2>2. p.esperado \in Nat /\ TextoDe(p.texto, p.esperado)
      BY Zenon, <1>1, <1>7, <2>1 DEF PrecoOK
    <2>3. p.texto \in Textos /\ Cabe(p.esperado)
      BY Zenon, <2>2, MaskIsNoBlank
    <2>4. p.ini = Len(p.texto) /\ p.fim = Len(p.texto)
      BY Zenon, <2>1 DEF NoFim
    <2>5. v = Corta(p.texto, Len(p.texto), Len(p.texto) + 1)
      BY Zenon, <2>4
    <2>6. v = p.texto
      BY Zenon, <2>3, <2>5, NothingIsCut
    <2> HIDE DEF v, e
    <2>7. Numero(SemSimbolo(v)) = e
      BY Zenon, <2>1, <2>2, <2>6, MaskIsAlone
    <2> QED
      BY Zenon, <1>5, <2>1, <2>2, <2>3, <2>7, PriceMasked
  <1> QED
    BY Zenon, <1>6, <1>7

LEMMA SelectionKeepsPrice ==
  ASSUME PrecoOK(preco), NEW i, NEW j, Seleciona(i, j)
  PROVE  PrecoOK(preco')
PROOF
  <1>1. preco' = [preco EXCEPT !.ini = i, !.fim = j] /\ DOMAIN preco = CamposDoPreco
    BY DEF Seleciona, PrecoOK
  <1>2. /\ DOMAIN preco' = CamposDoPreco /\ preco'.texto = preco.texto /\ preco'.esperado = preco.esperado
        /\ preco'.foco = preco.foco
    BY <1>1 DEF CamposDoPreco
  <1> QED
    BY Zenon, <1>2 DEF PrecoOK

LEMMA FocusKeepsPrice ==
  ASSUME PrecoOK(preco), focusEvent
  PROVE  PrecoOK(preco')
PROOF
  <1> DEFINE p == preco
             v == IF p.texto = getDefaultMask THEN <<>>
                  ELSE IF p.texto = <<>> THEN setSymbol(getDefaultMask) ELSE setSymbol(p.texto)
             k == Len(v)
             e == IF p.texto = <<>> /\ p.esperado = -1 THEN 0 ELSE p.esperado
  <1>1. preco' = Cursor([p EXCEPT !.texto = v, !.foco = TRUE, !.esperado = e], k)
    BY DEF focusEvent
  <1>2. DOMAIN p = CamposDoPreco
    BY DEF PrecoOK
  <1>3. DOMAIN preco' = CamposDoPreco /\ preco'.texto = v /\ preco'.esperado = e
    <2>1. preco' = [[p EXCEPT !.texto = v, !.foco = TRUE, !.esperado = e] EXCEPT !.ini = k, !.fim = k]
      BY Zenon, <1>1 DEF Cursor
    <2> HIDE DEF v, k, e
    <2> QED
      BY <1>2, <2>1 DEF CamposDoPreco
  <1>4. CASE p.esperado = Desconhecido
    <2>1. e = Desconhecido
      BY Zenon, <1>4, BoundFits
    <2> QED
      BY Zenon, <1>3, <2>1 DEF PrecoOK
  <1>5. CASE p.esperado = -1 /\ p.texto = <<>>
    <2>1. v = setSymbol(getDefaultMask)
      <3>1. getDefaultMask # <<>>
        <4>1. \A a, b, c, d : <<a, b, c, d>> # <<>>
          OBVIOUS
        <4> QED
          BY Zenon, <4>1 DEF getDefaultMask
      <3> QED
        BY Zenon, <1>5, <3>1
    <2>2. e = 0
      BY Zenon, <1>5
    <2>3. TextoDe(v, 0)
      BY Zenon, <2>1, EmptyMask
    <2>4. 0 \in Nat
      OBVIOUS
    <2> HIDE DEF v, e
    <2> QED
      BY Zenon, <1>3, <2>2, <2>3, <2>4 DEF PrecoOK
  <1>6. CASE p.esperado \in Nat /\ TextoDe(p.texto, p.esperado)
    <2>1. p.texto # <<>> /\ p.texto # getDefaultMask /\ setSymbol(p.texto) = p.texto
      BY Zenon, <1>6, MaskIsNoBlank
    <2>2. v = p.texto /\ e = p.esperado
      BY Zenon, <2>1
    <2> HIDE DEF v, e
    <2> QED
      BY Zenon, <1>3, <1>6, <2>2 DEF PrecoOK
  <1> QED
    BY Zenon, <1>4, <1>5, <1>6 DEF PrecoOK

LEMMA BlurKeepsPrice ==
  ASSUME PrecoOK(preco), blurEvent
  PROVE  PrecoOK(preco')
PROOF
  <1>1. PICK saiu \in BOOLEAN : preco' = [preco EXCEPT !.foco = FALSE, !.dirty = preco.dirty /\ ~saiu]
    BY DEF blurEvent
  <1>2. DOMAIN preco = CamposDoPreco /\ preco.foco
    BY DEF PrecoOK, blurEvent
  <1> DEFINE d == preco.dirty /\ ~saiu
  <1>3. preco' = [preco EXCEPT !.foco = FALSE, !.dirty = d]
    BY Zenon, <1>1
  <1> HIDE DEF d
  <1>4. DOMAIN preco' = CamposDoPreco /\ preco'.texto = preco.texto /\ preco'.esperado = preco.esperado
    BY <1>2, <1>3 DEF CamposDoPreco
  <1> QED
    BY Zenon, <1>2, <1>4 DEF PrecoOK

LEMMA PriceBegins ==
  ASSUME PrecoInit
  PROVE  PrecoOK(preco)
PROOF
  <1>1. PICK n \in {-1, Gravado} :
          preco = [texto |-> IF n = -1 THEN <<>> ELSE maskValue(Casas(n, 6)), ini |-> 0, fim |-> 0,
                   foco |-> FALSE, dirty |-> FALSE, esperado |-> n]
    BY DEF PrecoInit
  <1> DEFINE t == IF n = -1 THEN <<>> ELSE maskValue(Casas(n, 6))
  <1>2. /\ preco = [texto |-> t, ini |-> 0, fim |-> 0, foco |-> FALSE, dirty |-> FALSE, esperado |-> n]
    BY Zenon, <1>1
  <1> HIDE DEF t
  <1>3. DOMAIN preco = CamposDoPreco /\ preco.texto = t /\ preco.esperado = n /\ ~preco.foco
    BY <1>2 DEF CamposDoPreco
  <1>4. CASE n = -1
    <2>1. t = <<>>
      BY Zenon, <1>4 DEF t
    <2> QED
      BY Zenon, <1>3, <1>4, <2>1 DEF PrecoOK
  <1>5. CASE n = Gravado
    <2>1. n \in Nat /\ Cabe(n)
      BY Zenon, <1>5, BoundFits
    <2>2. n # -1
      BY <2>1
    <2>3. t = maskValue(Casas(n, 6))
      BY Zenon, <2>2 DEF t
    <2>4. Numero(SemSimbolo(Casas(n, 6))) = n
      BY Zenon, <2>1, PriceIsRead
    <2> QED
      BY Zenon, <1>3, <2>1, <2>3, <2>4, PriceMasked
  <1> QED
    BY Zenon, <1>4, <1>5

LEMMA PriceStays ==
  ASSUME PrecoOK(preco), PrecoNext
  PROVE  PrecoOK(preco')
PROOF
  <1>1. ASSUME NEW d \in Algarismos, Digita(d) PROVE PrecoOK(preco')
    BY Zenon, <1>1, DigitKeepsPrice
  <1>2. CASE DigitaSeta
    BY Zenon, <1>2, ArrowKeepsPrice
  <1>3. CASE Backspace
    BY Zenon, <1>3, BackspaceKeepsPrice
  <1>4. CASE Delete
    BY Zenon, <1>4, DeleteKeepsPrice
  <1>5. CASE focusEvent
    BY Zenon, <1>5, FocusKeepsPrice
  <1>6. CASE blurEvent
    BY Zenon, <1>6, BlurKeepsPrice
  <1>7. ASSUME NEW i, NEW j, Seleciona(i, j) PROVE PrecoOK(preco')
    BY Zenon, <1>7, SelectionKeepsPrice
  <1> QED
    BY <1>1, <1>2, <1>3, <1>4, <1>5, <1>6, <1>7 DEF PrecoNext

LEMMA NoSymbolNoPrice ==
  ASSUME NEW v, ~IsPrefix(Simbolo, v)
  PROVE  setAsText(v) = -1
PROOF
  <1> DEFINE numero == Numeral(v)
             virgulas == {i \in 1..Len(numero) : numero[i] = ","}
             v1 == IF virgulas = {} THEN Len(numero) + 1 ELSE CHOOSE i \in virgulas : \A j \in virgulas : i <= j
             decimais == SubSeq(SubSeq(numero, v1 + 1, Len(numero)) \o <<"0", "0", "0", "0">>, 1, 4)
             x == 10000 * Numero(SubSeq(numero, 1, v1 - 1)) + Numero(decimais)
  <1>1. setAsText(v) = IF ~IsPrefix(Simbolo, v) \/ ToSet(numero) \cap Digitos = {} THEN -1 ELSE x
    BY Zenon DEF setAsText
  <1> HIDE DEF x
  <1> QED
    BY Zenon, <1>1

LEMMA PriceIsSent ==
  ASSUME PrecoOK(preco)
  PROVE  PrecoChega
PROOF
  <1>1. CASE preco.esperado = Desconhecido
    BY Zenon, <1>1 DEF PrecoChega
  <1>2. CASE preco.esperado = -1 /\ preco.texto = <<>>
    <2>1. ~IsPrefix(Simbolo, <<>>)
      <3>1. <<>> \in Textos /\ Len(<<>>) = 0
        BY DEF Textos
      <3> QED
        BY <3>1, PrefixIsSymbol
    <2>2. setAsText(preco.texto) = -1
      BY Zenon, <1>2, <2>1, NoSymbolNoPrice
    <2> QED
      BY Zenon, <1>2, <2>2 DEF PrecoChega
  <1>3. CASE preco.esperado \in Nat /\ TextoDe(preco.texto, preco.esperado)
    <2>1. setAsText(preco.texto) = 100 * preco.esperado
      <3> DEFINE t == preco.texto  n == preco.esperado
      <3>1. PICK m \in {1, 2, 3, 5} : Escrito(t, n, m) /\ (Len(t) = m + 6 \/ (Len(t) = m + 7 /\ t[m + 7] = Cento))
        BY Zenon, <1>3 DEF TextoDe
      <3> HIDE DEF t, n
      <3>2. setAsText(t) = 100 * n
        BY <3>1, ServerReads
      <3> QED
        BY Zenon, <3>2 DEF t, n
    <2>2. preco.esperado # -1
      BY <1>3
    <2> QED
      BY Zenon, <2>1, <2>2 DEF PrecoChega
  <1> QED
    BY Zenon, <1>1, <1>2, <1>3 DEF PrecoOK

LEMMA PriceInvariant == Spec => []PrecoOK(preco)
PROOF
  <1>1. Init => PrecoOK(preco)
    BY PriceBegins DEF Init
  <1>2. PrecoOK(preco) /\ [Next]_vars => PrecoOK(preco)'
    <2> SUFFICES ASSUME PrecoOK(preco), [Next]_vars
                 PROVE  PrecoOK(preco')
      BY DEF PrecoOK
    <2>1. CASE PrecoNext
      BY <2>1, PriceStays
    <2>2. CASE UNCHANGED preco
      BY <2>2
    <2>3. PrecoNext \/ UNCHANGED preco
      BY DEF Next, vars
    <2> QED
      BY <2>1, <2>2, <2>3
  <1> QED
    BY <1>1, <1>2, PTL DEF Spec

\* What is typed at the end of the field, and taken back there, is the price the
\* server reads when the form is sent (PrecoChega), for any price that is changed
\* and any bound below a second point.
THEOREM PriceArrives == Spec => []PrecoChega
PROOF
  <1>1. PrecoOK(preco) => PrecoChega
    BY PriceIsSent
  <1> QED
    BY <1>1, PriceInvariant, PTL

=============================================================================
