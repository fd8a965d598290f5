-------------------------------- MODULE Lists --------------------------------
(***************************************************************************)
(* What the tables of the frontend do with a list: filter, find and slice.  *)
(* filter is written as the loop it is, and not with SelectSeq, whose       *)
(* definition the proof system cannot expand.                               *)
(***************************************************************************)
EXTENDS Integers, Sequences

CONSTANT Null       \* undefined and null

Values(list) == {list[i] : i \in DOMAIN list}

IsList(list) == list \in Seq(Values(list))

(* What filter has kept after each element, if it keeps those at places. *)
KeptAfter(list, places) ==
    LET kept[i \in 0 .. Len(list)] ==
          IF i = 0 THEN <<>>
          ELSE IF i \in places THEN Append(kept[i - 1], list[i]) ELSE kept[i - 1]
    IN kept

(* list.filter(...) *)
Keep(list, places) == KeptAfter(list, places)[Len(list)]

(* list.filter(element => holds(element)) *)
Where(list, Holds(_)) == Keep(list, {i \in DOMAIN list : Holds(list[i])})

(* list.find(...) || default, if the elements at places are looked for. *)
First(places) == CHOOSE i \in places : \A j \in places : i <= j

Find(list, places, default) == IF places = {} THEN default ELSE list[First(places)]

Lesser(a, b) == IF a < b THEN a ELSE b

PageCountFloor(list, size) ==
    LET pages == Len(list) \div size
    IN IF pages > 1 THEN pages ELSE 1

(* Math.max(1, Math.ceil(list.length / size)) *)
PageCount(list, size) ==
    LET pages == (Len(list) + size - 1) \div size
    IN IF pages > 1 THEN pages ELSE 1

(* list.slice((page - 1) * size, page * size) *)
PageOf(list, page, size) ==
    SubSeq(list, (page - 1) * size + 1, Lesser(page * size, Len(list)))
=============================================================================
