------------------------------ MODULE Servidor ------------------------------
(***************************************************************************)
(* What requests share on the server: the fields of the singleton services *)
(* and DAOs, the tables, and the session of a browser's tabs.  The three   *)
(* have no state in common: a behaviour is one of one of them, and the     *)
(* others rest.                                                            *)
(***************************************************************************)
EXTENDS Cadastro, Consulta, Navegacao

VARIABLE parte   \* the part a behaviour is about

vars == <<parte, cadastroVars, consultaVars, navegacaoVars>>

Partes == {"cadastro", "consulta", "navegacao"}

Init == parte \in Partes /\ CadastroInit /\ ConsultaInit /\ NavegacaoInit

Next ==
  /\ UNCHANGED parte
  /\ \/ parte = "cadastro" /\ CadastroNext /\ UNCHANGED <<consultaVars, navegacaoVars>>
     \/ parte = "consulta" /\ ConsultaNext /\ UNCHANGED <<cadastroVars, navegacaoVars>>
     \/ parte = "navegacao" /\ NavegacaoNext /\ UNCHANGED <<cadastroVars, consultaVars>>

Spec == Init /\ [][Next]_vars

=============================================================================
