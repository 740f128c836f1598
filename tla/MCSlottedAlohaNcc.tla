--------------------------- MODULE MCSlottedAlohaNcc ---------------------------
(***************************************************************************)
(* Gateways for TLC.  Two terminals send a PDU of two packets with two     *)
(* replicas each in an Aloha frame of five slots, beside a simulated       *)
(* terminal: replicas collide, CRDSA resolves chains of them, the          *)
(* comparator can put the second part of a PDU before its first, and the   *)
(* four replicas of a PDU can all be singletons.                           *)
(***************************************************************************)
EXTENDS SlottedAlohaNcc

\* One Slotted Aloha category
MCCats == <<"cat1">>
MCCatOf == [t \in {1, 2} |-> "cat1"]    \* also with MCTwoCats: cat2 stays empty

\* Two categories, one terminal in each
MCTwoCats == <<"cat1", "cat2">>
MCSplitCatOf == [t \in {1, 2} |-> IF t = 1 THEN "cat1" ELSE "cat2"]
MCTwoNbSlots == [c \in {"cat1", "cat2"} |-> 5]
MCTwoNbCarriers == [c \in {"cat1", "cat2"} |-> 1]
MCTwoNoSim == [c \in {"cat1", "cat2"} |-> 0]
MCTwoOneSim == [c \in {"cat1", "cat2"} |-> IF c = "cat1" THEN 1 ELSE 0]

\* A category of two carriers of two slots with one simulated terminal
MCSimNbSlots == [c \in {"cat1"} |-> 4]
MCSimNbCarriers == [c \in {"cat1"} |-> 2]
MCOneSim == [c \in {"cat1"} |-> 1]

=============================================================================
