-------------------------- MODULE SugestaoContrato --------------------------
(***************************************************************************)
(* What a field with suggestions promises to the form it belongs to,       *)
(* without timers, counters or answers that overtake each other: there is  *)
(* at most one question, the list on offer answers the question that was   *)
(* asked last, and the hidden id comes from a list that was on offer for   *)
(* the type of customer the form shows.                                    *)
(***************************************************************************)
EXTENDS Naturals, Sequences

CONSTANTS
  Tipos,       \* types of customer
  Sugestoes,   \* [Tipos -> set of items]: what the server may suggest
  Nada         \* no id, no question

VARIABLES
  tipo,       \* the type the form shows
  id,         \* the hidden id
  pergunta,   \* the type of the question to be answered, or Nada
  oferta      \* the items on offer: empty when no list is shown

vars == <<tipo, id, pergunta, oferta>>

Init ==
  /\ tipo \in Tipos
  /\ id \in Sugestoes[tipo] \cup {Nada}
  /\ pergunta = Nada
  /\ oferta = {}

\* A question about the current type replaces the one that was pending.
Pergunta ==
  /\ pergunta' = tipo
  /\ UNCHANGED <<tipo, id, oferta>>

\* The pending question is answered: its suggestions are all that is offered.
Responde ==
  /\ pergunta # Nada
  /\ oferta' \in SUBSET Sugestoes[pergunta]
  /\ pergunta' = Nada
  /\ UNCHANGED <<tipo, id>>

\* The server does not answer: what was on offer stays.
Desiste ==
  /\ pergunta' = Nada
  /\ UNCHANGED <<tipo, id, oferta>>

\* The list goes, and a question that was pending is not answered any more.
Fecha ==
  /\ pergunta' = Nada
  /\ oferta' = {}
  /\ UNCHANGED <<tipo, id>>

\* An item on offer is chosen.
Escolhe ==
  /\ id' \in oferta
  /\ pergunta' = Nada
  /\ oferta' = {}
  /\ UNCHANGED tipo

\* The type changes while nothing is on offer and nothing is asked.
MudaTipo ==
  /\ oferta = {}
  /\ pergunta = Nada
  /\ tipo' \in Tipos
  /\ id' = Nada
  /\ UNCHANGED <<pergunta, oferta>>

Next == Pergunta \/ Responde \/ Desiste \/ Fecha \/ Escolhe \/ MudaTipo

Spec == Init /\ [][Next]_vars

=============================================================================
