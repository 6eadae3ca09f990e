------------------------------- MODULE MCLane -------------------------------
(* Lane with two invocations of the phase `create`, which must propose      *)
(* `plan` and `todo`.  The first agent proposes what it wrote or the hashes *)
(* of the other, or answers with prose; it may also propose a third file,   *)
(* which is a candidate more than evidence may list.  The second one writes *)
(* a version of its own and proposes that.                                  *)
EXTENDS Lane

CONSTANTS plan, todo, code, x, y

All(paths, version) == [f \in paths |-> version]
MCWrites == [c \in Calls |-> IF c = 1 THEN Files \X {x} ELSE Sentinels \X {y}]
MCTexts ==
    [c \in Calls |->
       {All(Sentinels, y)} \union
          (IF c = 1 THEN {All(Sentinels, x), All(Files, x), Prose} ELSE {})]

=============================================================================
