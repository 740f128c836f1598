--------------------------- MODULE FileAttenuation ---------------------------
(***************************************************************************)
(* The "file" attenuation model of the physical layer (File.cpp).  init    *)
(* reads the loop mode and the granularity and load fills a map from       *)
(* times (s) to attenuations (dB); then the physical layer calls           *)
(* updateAttenuationModel once per granularity period.  Each call moves    *)
(* current_time by granularity / 1000 (integer division) and sets the      *)
(* attenuation by linear interpolation between the map's entries around    *)
(* it; past the last entry it restarts at 0 in loop mode, and otherwise    *)
(* reads attenuation.rend()->second.                                       *)
(*                                                                         *)
(* Attenuations are rationals [num, den]: the code's doubles take integer  *)
(* values in the files and the interpolation is then exact.  Parsing       *)
(* (load) is not modelled: Files are the maps a successful load yields.    *)
(***************************************************************************)
EXTENDS Integers, FiniteSets, FiniteSetsExt

CONSTANTS
    Files,          \* the attenuation maps load may produce (non-empty)
    Granularities,  \* granularity values (ms) init may receive
    Garbage,        \* an attenuation read from memory that holds no entry
    NotSet          \* no attenuation set yet

ASSUME \A f \in Files : DOMAIN f # {} /\ DOMAIN f \subseteq Nat

VARIABLES
    attenuation,    \* the map time -> dB loaded from the file
    loop,           \* loop_mode
    granularity,    \* update period (ms)
    current_time,   \* scenario time (s)
    value           \* the last value given to setAttenuation

vars == <<attenuation, loop, granularity, current_time, value>>

Ratio(n, d) == [num |-> n, den |-> d]

Times == DOMAIN attenuation

LastTime == Max(Times)

\* current_time += granularity / 1000, in unsigned integer arithmetic
Step == granularity \div 1000

\* File::File and File::init: the loaded map, the loop mode and the
\* granularity; current_time starts at 0 and no value is set yet.
Init ==
    /\ attenuation \in Files
    /\ loop \in BOOLEAN
    /\ granularity \in Granularities
    /\ current_time = 0
    /\ value = NotSet

\* attenuation.lower_bound(t): the entries at or after t
LowerBound(t) == {k \in Times : k >= t}

\* an entry after the first one: interpolate with the entry before it
Interpolate(t) ==
    LET nt == Min(LowerBound(t))
        ot == Max({k \in Times : k < nt})
    IN  /\ LowerBound(t) # {}
        /\ nt # Min(Times)
        /\ value' = Ratio(attenuation[ot] * (nt - ot)
                            + (attenuation[nt] - attenuation[ot]) * (t - ot),
                          nt - ot)
        /\ current_time' = t

\* the first entry is at or after t: use its value
FirstEntry(t) ==
    /\ LowerBound(t) # {}
    /\ Min(LowerBound(t)) = Min(Times)
    /\ value' = Ratio(attenuation[Min(Times)], 1)
    /\ current_time' = t

(* What rend()->second reads (undefined behaviour).  With libstdc++ it is *)
(* the node before begin(), found by climbing from the leftmost node:     *)
(* the root when the root is the leftmost node (one entry, or two written *)
(* in ascending order), otherwise the tree header, which holds no value.  *)
(* A red-black tree of three or more nodes has a left subtree under its  *)
(* root; the order of the file's lines decides for two.                   *)
RendValue ==
    CASE Cardinality(Times) = 1 -> {Ratio(attenuation[Min(Times)], 1)}
      [] Cardinality(Times) = 2 -> {Ratio(attenuation[Min(Times)], 1), Garbage}
      [] OTHER                  -> {Garbage}

(* No entry left and no loop: "keep the last value".  Every time past the *)
(* last entry behaves alike, so current_time is kept at LastTime + 1.    *)
KeepLast(t) ==
    /\ LowerBound(t) = {}
    /\ ~loop
    /\ value' \in RendValue
    /\ current_time' = LastTime + 1

\* No entry left in loop mode: restart with the first entry at time 0
Restart(t) ==
    /\ LowerBound(t) = {}
    /\ loop
    /\ value' = Ratio(attenuation[Min(Times)], 1)
    /\ current_time' = 0

\* File::updateAttenuationModel
UpdateAttenuationModel ==
    LET t == current_time + Step
    IN  /\ \/ Interpolate(t)
           \/ FirstEntry(t)
           \/ KeepLast(t)
           \/ Restart(t)
        /\ UNCHANGED <<attenuation, loop, granularity>>

Next == UpdateAttenuationModel

\* the physical layer's attenuation timer fires periodically
Spec == Init /\ [][Next]_vars /\ WF_vars(Next)

-----------------------------------------------------------------------------

TypeOK ==
    /\ attenuation \in Files
    /\ loop \in BOOLEAN
    /\ granularity \in Granularities
    /\ current_time \in 0..LastTime + 1
    /\ value \in [num : Int, den : Nat \ {0}] \cup {Garbage, NotSet}

(* Reference: the scenario of the file is the piecewise linear function  *)
(* through its entries, constant at the first value before the first     *)
(* entry and, when it does not loop, at the last value after the last    *)
(* one ("keep the last value").                                           *)
Scenario(t) ==
    LET below == {k \in Times : k <= t}
        above == {k \in Times : k >= t}
        a == Max(below)
        b == Min(above)
    IN  IF below = {} THEN Ratio(attenuation[Min(Times)], 1)
        ELSE IF above = {} THEN Ratio(attenuation[LastTime], 1)
        ELSE IF a = b THEN Ratio(attenuation[a], 1)
        ELSE Ratio(attenuation[a] * (b - a)
                     + (attenuation[b] - attenuation[a]) * (t - a), b - a)

SameRatio(p, q) == p.num * q.den = q.num * p.den

(* Every attenuation updateAttenuationModel sets is the scenario's value  *)
(* at current_time: interpolated between the entries around it, the      *)
(* first value before the first entry, and past the end of a scenario    *)
(* that does not loop the last value, as the code's comment says ("we    *)
(* reached the end of the scenario, keep the last value").                *)
ValueFollowsScenario ==
    value # NotSet => value # Garbage /\ SameRatio(value, Scenario(current_time))

=============================================================================
