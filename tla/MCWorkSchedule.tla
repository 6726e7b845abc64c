--------------------------- MODULE MCWorkSchedule ---------------------------
(***************************************************************************)
(* Small instances of WorkSchedule: schedules, companies, users and calls  *)
(* are interchangeable.                                                    *)
(***************************************************************************)
EXTENDS WorkSchedule, TLC

Symmetry ==
    Permutations(Seeds) \cup Permutations(Companies) \cup Permutations(Users)
        \cup Permutations(Requests)

=============================================================================
