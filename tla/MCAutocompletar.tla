-------------------------- MODULE MCAutocompletar --------------------------
(***************************************************************************)
(* Instances of Autocompletar for TLC: who is suggested for each type.     *)
(***************************************************************************)
EXTENDS Autocompletar, TLC

CONSTANTS Pessoas, Empresas

\* The two options of tipoCliente.
DoisTipos == {"PESSOA_FISICA", "PESSOA_JURIDICA"}

PessoasEEmpresas ==
  [tp \in DoisTipos |-> IF tp = "PESSOA_JURIDICA" THEN Empresas ELSE Pessoas]

=============================================================================
