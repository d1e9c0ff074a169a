------------------------------ MODULE Packets ------------------------------
(***************************************************************************)
(* How a packet for a model is cut to the context ceiling                  *)
(* (bbpipeline/packets.py).  A packet is the sizes of its parts: guidance  *)
(* (methodology cards, skill references), then the parts that are replaced *)
(* by something shorter one after the other (first the core of the skill,  *)
(* then what the event or the finding says), then what is never cut: task, *)
(* program, constraints, the identity of the event, its evidence ids.      *)
(***************************************************************************)
EXTENDS Integers, Sequences

Packet == [cards : Seq(Nat), references : Seq(Nat),
           cuts : Seq(Int),    \* what each replacement saves; a list of keys may cost
           rest : Nat]

(* What is left of a packet: cards, references, and replacements made.       *)
Whole(k) == [cards |-> Len(k.cards), references |-> Len(k.references), cuts |-> 0]

Total(sizes) ==
  LET sum[n \in 0 .. Len(sizes)] == IF n = 0 THEN 0 ELSE sum[n - 1] + sizes[n]
  IN  sum[Len(sizes)]
Bytes(k, left) ==
  k.rest + Total(SubSeq(k.cards, 1, left.cards))
         + Total(SubSeq(k.references, 1, left.references))
         + Total(SubSeq(k.cuts, left.cuts + 1, Len(k.cuts)))

Within(k, left, max) == Bytes(k, left) <= max

(* _fit_packet pops cards, then references, from the end while the packet is *)
(* too large,                                                                *)
Popped(k, left, part, max) ==
  LET pop[n \in 0 .. left[part]] ==
        IF n = 0 \/ Within(k, [left EXCEPT ![part] = n], max) THEN n ELSE pop[n - 1]
  IN  [left EXCEPT ![part] = pop[left[part]]]

(* then asks before each replacement whether it still is.                    *)
Replaced(k, left, max) ==
  LET made[n \in 0 .. Len(k.cuts)] ==
        IF n = 0 THEN 0
        ELSE IF Within(k, [left EXCEPT !.cuts = made[n - 1]], max) THEN made[n - 1]
        ELSE made[n - 1] + 1
  IN  [left EXCEPT !.cuts = made[Len(k.cuts)]]

Fitted_ObservationFirst(k, max) ==
  Popped(k, Popped(k, Replaced(k, Whole(k), max), "cards", max), "references", max)
Fitted(k, max) ==
  Replaced(k, Popped(k, Popped(k, Whole(k), "cards", max), "references", max), max)

(* Every way to cut the packet, in whatever order.                           *)
Cuttings(k) == [cards : 0 .. Len(k.cards), references : 0 .. Len(k.references),
                cuts : 0 .. Len(k.cuts)]

(* Else it raises ValueError.                                                *)
Packs(k, max) == Within(k, Fitted(k, max), max)
=============================================================================
