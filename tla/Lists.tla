-------------------------------- MODULE Lists --------------------------------
(***************************************************************************)
(* The linked lists of the code, of the executions of a strategic search   *)
(* and of the files that are watched, as sequences.                        *)
(***************************************************************************)
EXTENDS Integers, FiniteSets, SequencesExt

(* The elements of a list that are not dropped, in their order.            *)
Dropped(list, drop) ==
  LET kept[n \in 0 .. Len(list)] ==
        IF n = 0 THEN <<>>
        ELSE IF list[n] \in drop THEN kept[n - 1] ELSE Append(kept[n - 1], list[n])
  IN  kept[Len(list)]
=============================================================================
