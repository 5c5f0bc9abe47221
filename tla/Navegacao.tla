----------------------------- MODULE Navegacao -----------------------------
(***************************************************************************)
(* The way back.  Each session keeps a stack of the pages that led to the  *)
(* one shown: a page opened by a link pushes the page of the link (the     *)
(* Referer), `Cancelar` and the redirect after saving lead to the top of   *)
(* the stack with a parameter that pops it, a list page empties it.        *)
(*                                                                         *)
(* The tabs of a browser share the session, and a page that is reloaded is *)
(* asked for again with the same Referer and parameter.  Left out: pages of*)
(* records that are gone, and the browser's own way back.                  *)
(***************************************************************************)
EXTENDS Integers, Sequences

CONSTANTS
  Abas,        \* tabs of the browser
  Paginas,     \* the pages
  Listas,      \* those that are lists of a register
  Formularios, \* those that save something
  Registros,   \* those of a record, which can be deleted there
  Links,       \* [Paginas -> the pages it has links to]
  Lista,       \* [Paginas -> the list of its register]
  Erro,        \* the page of an exception
  MaxPilha     \* bound: pages on the stack

ASSUME ConstantesDaNavegacao ==
  /\ Listas \cup Formularios \cup Registros \subseteq Paginas
  /\ Listas \cap (Formularios \cup Registros) = {}
  /\ \A p \in Paginas : Links[p] \subseteq Paginas /\ Lista[p] \in Listas
  /\ Erro \notin Paginas \cup Abas /\ MaxPilha \in Nat

VARIABLES
  pilha,      \* the stack in the session; none is like an empty one
  abas,       \* [Abas -> page, its request's Referer and parameter, the page
              \* `Cancelar` leads to, or Erro for none; whether a form with
              \* errors is shown]
  dona,       \* history: the tab that emptied the stack last, until another one
              \* changes it or a page is reloaded; then Erro
  caminho     \* history: the pages opened there since, one from the other

navegacaoVars == <<pilha, abas, dona, caminho>>

Topo(s) == IF s = <<>> THEN Erro ELSE s[Len(s)]
SemTopo(s) == SubSeq(s, 1, Len(s) - 1)

\* A page is asked for: `de` is the Referer, Erro if there is none; `remove`
\* the parameter.
Mostra(a, p, s, de, remove) ==
  /\ pilha' = s
  /\ abas' = [abas EXCEPT ![a] = [pagina |-> p, de |-> de, remove |-> remove, erros |-> FALSE,
                                  anterior |-> IF p \in Listas THEN Erro ELSE Topo(s)]]

\* index empties the stack; show, create and edit push or pop (setPreviousPage),
\* and to pop an empty stack is an exception.
Abre(a, p, de, remove) ==
  IF p \in Listas \/ de = Erro THEN Mostra(a, p, <<>>, de, remove)
  ELSE IF ~remove THEN Mostra(a, p, Append(pilha, de), de, remove)
  ELSE IF pilha # <<>> THEN Mostra(a, p, SemTopo(pilha), de, remove)
  ELSE /\ abas' = [abas EXCEPT ![a].pagina = Erro, ![a].de = de, ![a].remove = remove]
       /\ UNCHANGED pilha

Pagina(a) == abas[a].pagina

\* The user goes to page p of tab a, on the way `novo`.
Anda(a, p, novo) ==
  /\ dona' = IF p \in Listas \/ dona = a THEN a ELSE Erro
  /\ caminho' = IF p \in Listas \/ dona # a THEN <<>> ELSE novo

Ida(a, p) == Anda(a, p, Append(caminho, Pagina(a)))
Volta(a, p) == Anda(a, p, IF caminho = <<>> THEN <<>> ELSE SemTopo(caminho))

\* A link of the page.
SegueLink(a, p) ==
  /\ Pagina(a) # Erro /\ p \in Links[Pagina(a)] /\ Len(pilha) < MaxPilha
  /\ Abre(a, p, Pagina(a), FALSE)
  /\ Ida(a, p)

\* Where the button `Cancelar` leads.
Anterior(a) == IF abas[a].anterior = Erro THEN Lista[Pagina(a)] ELSE abas[a].anterior

Cancela(a) ==
  /\ Pagina(a) \in Paginas \ Listas
  /\ Abre(a, Anterior(a), Pagina(a), abas[a].anterior # Erro)
  /\ Volta(a, Anterior(a))

\* Mutant: the page to go to is popped here as well.
SalvaComPop(a) ==
  LET p == IF pilha = <<>> THEN Lista[Pagina(a)] ELSE Topo(pilha) IN
  /\ Pagina(a) \in Formularios
  /\ IF p \in Listas THEN Mostra(a, p, <<>>, Pagina(a), TRUE)
     ELSE IF Len(pilha) > 1 THEN Mostra(a, p, SemTopo(SemTopo(pilha)), Pagina(a), TRUE)
     ELSE /\ abas' = [abas EXCEPT ![a].pagina = Erro, ![a].de = Pagina(a)]
          /\ pilha' = <<>>
  /\ Volta(a, p)

\* The top of the stack the session has by then.
Retorna(a) ==
  LET p == IF pilha = <<>> THEN Lista[Pagina(a)] ELSE Topo(pilha) IN
  Abre(a, p, Pagina(a), pilha # <<>>) /\ Volta(a, p)

\* store and update redirect there (redirectToPreviousPage).
Salva(a) == Pagina(a) \in Formularios /\ Retorna(a)

\* The page of a record, when it is deleted, goes where the answer says.
Exclui(a) == Pagina(a) \in Registros /\ Retorna(a)

\* The form has errors: the same page, answered by store, whose `Cancelar` is
\* that of the session by then.
NaoSalva(a) ==
  /\ Pagina(a) \in Formularios
  /\ abas' = [abas EXCEPT ![a].anterior = Topo(pilha), ![a].erros = TRUE]
  /\ UNCHANGED <<pilha, dona, caminho>>

Recarrega(a) ==
  /\ Pagina(a) # Erro /\ ~abas[a].erros /\ Len(pilha) < MaxPilha
  /\ Abre(a, Pagina(a), abas[a].de, abas[a].remove)
  /\ dona' = IF Pagina(a) \in Listas THEN a ELSE Erro
  /\ caminho' = <<>>

\* The address of a page is typed in.
Digita(a, p) ==
  /\ Abre(a, p, Erro, FALSE)
  /\ dona' = a
  /\ caminho' = <<>>

NavegacaoInit ==
  /\ pilha = <<>>
  /\ abas = [a \in Abas |-> [pagina |-> Erro, de |-> Erro, remove |-> FALSE,
                         erros |-> FALSE, anterior |-> Erro]]
  /\ dona = Erro /\ caminho = <<>>

NavegacaoNext ==
  \E a \in Abas :
    \/ \E p \in Paginas : SegueLink(a, p) \/ Digita(a, p)
    \/ Cancela(a) \/ Salva(a) \/ Exclui(a) \/ NaoSalva(a) \/ Recarrega(a)

----------------------------------------------------------------------------

\* As long as no other tab takes part and nothing is reloaded, the stack is the
\* way the user came since the last list, so that `Cancelar` and saving lead
\* back the same way, page by page, and no page fails.
VoltaPeloCaminho ==
  dona \in Abas =>
    /\ Pagina(dona) # Erro
    /\ pilha = caminho
    /\ Pagina(dona) \notin Listas => abas[dona].anterior = Topo(caminho)

=============================================================================
