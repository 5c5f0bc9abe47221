-------------------------------- MODULE Abas --------------------------------
(***************************************************************************)
(* jQuery UI's tabs: mouse, keys and a delayed activation choose a tab,    *)
(* whose panel may be loaded by a request and shown by an animation.       *)
(*                                                                         *)
(* Tabs are numbered in their order; 0 is none.  Left out: tabs that come  *)
(* or go (refresh), heights, and other events than the click.              *)
(***************************************************************************)
EXTENDS Integers, FiniteSets

CONSTANTS
  NAbas,
  Remotas  \* the tabs whose panel is loaded

ASSUME ConstantesDasAbas == NAbas \in Nat \ {0} /\ Remotas \subseteq 1..NAbas

VARIABLE aba
  \* active; visiveis: panels shown; selected: aria-selected; ordem: tabIndex 0;
  \* foco; ativando: the tab this.activating is about; running; fase of the
  \* animation, from a tab to another; pedidos: the request of each tab, which has
  \* ui-tabs-loading from `enviado' on; xhr: the tab whose request this.xhr is;
  \* disabled; animada, collapsible: options

Abas == 1..NAbas
SemAnimacao == <<"nenhuma", 0, 0>>

----------------------------------------------------------------------------

mostra(w, nova) ==
  IF nova # 0 /\ w.animada THEN [w EXCEPT !.visiveis = @ \cup {nova}, !.fase = <<"show", 0, nova>>]
  ELSE [w EXCEPT !.visiveis = @ \cup ({nova} \ {0}), !.fase = SemAnimacao, !.running = FALSE]

\* An animation ends: a hide is followed by the show.
completa(w) ==
  IF w.fase[1] = "hide" THEN mostra([w EXCEPT !.visiveis = @ \ {w.fase[2]}], w.fase[3])
  ELSE [w EXCEPT !.fase = SemAnimacao, !.running = FALSE]

\* panels.stop(false, true): each panel in its order.
stop(w) ==
  IF ~w.running THEN w
  ELSE IF w.fase[1] = "hide" /\ w.fase[3] > w.fase[2] THEN completa(completa(w)) ELSE completa(w)

\* Mutant: a collapse takes the tab out of the tab order.
_toggleSemGuardar(w, velha, nova) ==
  LET w1 == [w EXCEPT !.running = TRUE, !.selected = (@ \ {velha}) \cup ({nova} \ {0}),
                  !.ordem = (@ \ {velha}) \cup ({nova} \ {0})] IN
  IF velha # 0 /\ w.animada THEN [w1 EXCEPT !.fase = <<"hide", velha, nova>>]
  ELSE mostra([w1 EXCEPT !.visiveis = @ \ {velha}], nova)

\* Opened from the collapsed state, no tab leaves the tab order: the filter that is
\* to find it compares the attribute, a string, with the number 0.
_toggleAba(w, velha, nova) ==
  LET w1 == [w EXCEPT !.running = TRUE, !.selected = (@ \ {velha}) \cup ({nova} \ {0}),
                  !.ordem = IF nova = 0 THEN @ ELSE (@ \ {velha}) \cup {nova}] IN
  IF velha # 0 /\ w.animada THEN [w1 EXCEPT !.fase = <<"hide", velha, nova>>]
  ELSE mostra([w1 EXCEPT !.visiveis = @ \ {velha}], nova)

\* An answered request cannot be aborted.
abort(w) == IF w.xhr # 0 /\ w.pedidos[w.xhr] = "enviado" THEN [w EXCEPT !.pedidos[w.xhr] = "abortado"] ELSE w

load(w, i) == IF i \in Remotas THEN [w EXCEPT !.pedidos[i] = "enviado", !.xhr = i] ELSE w

_eventHandlerAba(w, i) ==
  LET nova == IF w.active = i THEN 0 ELSE i IN
  IF i \in w.disabled \/ w.pedidos[i] # "nenhum" \/ w.running \/ (nova = 0 /\ ~w.collapsible) THEN w
  ELSE _toggleAba(load(abort([w EXCEPT !.active = nova]), nova), w.active, nova)

\* Index 0 is false: collapse.
_activateAba(w, i) ==
  IF i = w.active THEN w ELSE _eventHandlerAba(w, IF i = 0 THEN w.active ELSE i)

\* All tabs disabled is no list of disabled tabs, and none is passed over.
_findNextTab(w, i, adiante) ==
  LET livres == IF w.disabled = Abas THEN Abas ELSE Abas \ w.disabled
      i0 == IF i > NAbas THEN 1 ELSE IF i < 1 THEN NAbas ELSE i
      depois == IF adiante THEN {j \in livres : j >= i0} ELSE {j \in livres : j <= i0}
      onde == IF depois = {} THEN livres ELSE depois IN
  CHOOSE j \in onde : \A k \in onde : IF adiante THEN j <= k ELSE j >= k

----------------------------------------------------------------------------
(* Events *)

clickAba(i) ==
  LET w == IF i \in aba.disabled THEN aba ELSE [aba EXCEPT !.foco = i] IN
  aba' = IF aba.disabled = Abas THEN w ELSE _eventHandlerAba(w, i)

\* Arrows, Home and End; with Ctrl the tab gets no more than the focus.
_tabKeydown(i, adiante, ctrl) ==
  LET j == _findNextTab(aba, i, adiante)
      w == [aba EXCEPT !.foco = j, !.ativando = 0] IN
  aba' = IF ctrl THEN w
         ELSE [w EXCEPT !.selected = (@ \ {aba.foco}) \cup {j}, !.ativando = j]

\* Space; Enter may collapse.
_tabKeydownAtiva(i) == aba' = _activateAba([aba EXCEPT !.ativando = 0], i)

_handlePageNav ==
  LET base == IF aba.active = 0 THEN 1 ELSE aba.active IN
  \E adiante \in BOOLEAN :
    LET j == _findNextTab(aba, IF adiante THEN base + 1 ELSE base - 1, adiante) IN
    aba' = _activateAba([aba EXCEPT !.foco = j], j)

tecla ==
  LET f == aba.foco IN
  /\ f # 0 /\ f \notin aba.disabled
  /\ \/ \E ctrl \in BOOLEAN : \/ _tabKeydown(f + 1, TRUE, ctrl) \/ _tabKeydown(f - 1, FALSE, ctrl)
                              \/ _tabKeydown(1, TRUE, ctrl) \/ _tabKeydown(NAbas, TRUE, ctrl)
     \/ _tabKeydownAtiva(f) \/ _tabKeydownAtiva(IF f = aba.active THEN 0 ELSE f)
     \/ _handlePageNav

\* The Tab key, or Ctrl and up from a panel.
ganhaFocoAba == aba.foco = 0 /\ \E i \in aba.ordem \cup ({aba.active} \ {0}) : aba' = [aba EXCEPT !.foco = i]
perdeFocoAba == aba.foco # 0 /\ aba' = [aba EXCEPT !.foco = 0]

disable(i) == i \notin aba.disabled /\ aba' = [aba EXCEPT !.disabled = @ \cup {i}]
enable(i) == i \in aba.disabled /\ aba' = [aba EXCEPT !.disabled = @ \ {i}]

anima == aba.running /\ aba' = completa(aba)

ativa == aba.ativando # 0 /\ aba' = _activateAba([aba EXCEPT !.ativando = 0], aba.ativando)

\* The server answers, well or not; a moment later the panel has it.
responde(i) == aba.pedidos[i] = "enviado" /\ aba' = [aba EXCEPT !.pedidos[i] = "respondido"]

\* Mutant: this.xhr is deleted whose request it may be.
completeSemConferir(i) ==
  LET w == IF aba.pedidos[i] = "abortado" THEN stop(aba) ELSE aba IN
  /\ aba.pedidos[i] \in {"abortado", "respondido"}
  /\ aba' = [w EXCEPT !.pedidos[i] = "nenhum", !.xhr = 0]

completeAba(i) ==
  LET w == IF aba.pedidos[i] = "abortado" THEN stop(aba) ELSE aba IN
  /\ aba.pedidos[i] \in {"abortado", "respondido"}
  /\ aba' = [w EXCEPT !.pedidos[i] = "nenhum", !.xhr = IF @ = i THEN 0 ELSE @]

\* _create, with the first tab that the options or the address ask for.
AbasInit ==
  \E animada, collapsible \in BOOLEAN, i \in 0..NAbas :
    LET sel == {i} \ {0} IN
    /\ i = 0 => collapsible
    /\ aba = load([active |-> i, visiveis |-> sel, selected |-> sel,
                   ordem |-> IF i = 0 THEN {1} ELSE sel, foco |-> 0, ativando |-> 0,
                   running |-> FALSE, fase |-> SemAnimacao, disabled |-> {},
                   pedidos |-> [j \in Abas |-> "nenhum"], xhr |-> 0,
                   animada |-> animada, collapsible |-> collapsible], i)

AbasNext ==
  \/ \E i \in Abas : clickAba(i) \/ disable(i) \/ enable(i) \/ responde(i) \/ completeAba(i)
  \/ tecla \/ ganhaFocoAba \/ perdeFocoAba \/ anima \/ ativa

----------------------------------------------------------------------------
(* Properties *)

\* Between animations the active tab's panel is the one shown, and the Tab key
\* always reaches the tabs, the active one if there is one: also after a collapse,
\* and after an abort has cut an animation short.  It may stop at others too, which
\* were opened before a collapse.
UmaAba ==
  /\ ~aba.running => aba.visiveis = {aba.active} \ {0}
  /\ aba.ordem # {} /\ {aba.active} \ {0} \subseteq aba.ordem

\* The server is asked for one panel at a time, the active tab's: the request
\* of a tab that was left is aborted, and its late end disturbs no other.
PedidoDaAtiva == \A i \in Abas : aba.pedidos[i] = "enviado" => i = aba.active /\ i = aba.xhr

=============================================================================
