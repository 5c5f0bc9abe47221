------------------------- MODULE MCEmpresaVinculos -------------------------
(* Instances of EmpresaVinculos for TLC. *)
EXTENDS EmpresaVinculos, TLC

Simetria == Permutations(Threads) \cup Permutations(Pedidos)
              \cup Permutations(Funcionarios)
              \cup Permutations(Empresas \ SemAcesso)

============================================================================
