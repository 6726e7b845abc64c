----------------------------- MODULE MCPayroll -----------------------------
(***************************************************************************)
(* Small instances of Payroll: the calls, the employees and the months are *)
(* interchangeable.                                                        *)
(***************************************************************************)
EXTENDS Payroll, TLC

Symmetry == Permutations(Requests) \cup Permutations(Employees) \cup Permutations(Months)

=============================================================================
