---------------------------- MODULE MCRelatorio ----------------------------
(* Instances of Relatorio for TLC: what a search finds. *)
EXTENDS Relatorio, TLC

CONSTANTS Nome

\* One search finds everything, another the first row only.
AchaPrimeira == Tudo :> Linhas @@ Nome :> {1} \cap Linhas

=============================================================================
