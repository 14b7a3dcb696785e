---------------------------- MODULE ByteChannel -----------------------------
(***************************************************************************)
(* A channel of numbered bytes, the abstract specification of either       *)
(* direction of the USB CDC driver: what it accepts is delivered once and  *)
(* in order.  A fault of the channel's own kinds may, from then on, put    *)
(* bytes behind later ones ("late") or take some away ("lost"); nothing    *)
(* is ever delivered twice, made up or taken back.                         *)
(***************************************************************************)
EXTENDS Integers, SequencesExt

CONSTANT Faults   \* the kinds of faults it may have: "late", "lost"

VARIABLES
  accepted,   \* number of bytes accepted
  transit,    \* the bytes on their way
  delivered,  \* bytes delivered
  faults      \* kinds of faults so far

vars == <<accepted, transit, delivered, faults>>

Init == accepted = 0 /\ transit = {} /\ delivered = <<>> /\ faults = {}

(* Some bytes more, numbered on.                                           *)
Accept ==
  /\ accepted' > accepted
  /\ transit' = transit \cup (accepted + 1)..accepted'
  /\ UNCHANGED <<delivered, faults>>

(* What a step delivers, and that it is the first of what is in transit.   *)
Piece == SubSeq(delivered', Len(delivered) + 1, Len(delivered'))

InTurn ==
  /\ \A i, j \in DOMAIN Piece : i < j => Piece[i] < Piece[j]
  /\ \A i \in DOMAIN Piece : \A b \in transit' : Piece[i] < b

(* Bytes in transit arrive, in their turn unless there was a late piece.   *)
Deliver ==
  /\ Piece # <<>> /\ delivered' = delivered \o Piece
  /\ IsInjective(Piece) /\ ToSet(Piece) \subseteq transit
  /\ transit' = transit \ ToSet(Piece)
  /\ "late" \in faults \/ InTurn
  /\ UNCHANGED <<accepted, faults>>

(* A piece has to be sent again: it goes behind others.                    *)
Fail ==
  /\ "late" \in Faults \ faults
  /\ faults' = faults \cup {"late"}
  /\ UNCHANGED <<accepted, transit, delivered>>

(* Some bytes are lost.                                                    *)
Lose ==
  /\ "lost" \in Faults
  /\ faults' = faults \cup {"lost"}
  /\ transit' \subseteq transit
  /\ UNCHANGED <<accepted, delivered>>

Next == Accept \/ Deliver \/ Fail \/ Lose

Spec == Init /\ [][Next]_vars
=============================================================================
